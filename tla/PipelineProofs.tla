-------------------------- MODULE PipelineProofs --------------------------
(***************************************************************************)
(* Proofs of the safety of Pipeline, for every value of its constants:     *)
(*                                                                         *)
(*   - TypeCorrect, in one lemma per action;                               *)
(*   - NoDowngradeCorrect, from what the two writes do to a row;           *)
(*   - CustodyInvCorrect and NoLossCorrect, from the fact that the worker  *)
(*     and the retrier reach their commit only with the record in flight   *)
(*     placed somewhere else;                                              *)
(*   - OutboxInvCorrect, and with it RowBeforeEnvelopeCorrect and          *)
(*     AttemptsBoundedCorrect, from what holds of an envelope when it is   *)
(*     published.                                                          *)
(***************************************************************************)
EXTENDS Pipeline, TLAPS

---------------------------------------------------------------------------
(***************************************************************************)
(* Type correctness.                                                       *)
(***************************************************************************)

\* What the step lemmas of the first part preserve.
TypeInv == TypeOK /\ ControlOK

\* The places where a handler works on an edit, never on garbage.
EditPcs == {"check", "classify", "write", "writeFailed", "publish"}

\* Topics are only appended to.
Grows ==
    \A p \in Processes :
        /\ Len(Topic(p)) <= Len(Topic(p)')
        /\ \A n \in 1 .. Len(Topic(p)) : Topic(p)'[n] = Topic(p)[n]

\* make_envelope builds envelopes.
LEMMA MakeEnvelopeType ==
    ASSUME NEW reason \in Reasons, NEW error \in Failures \cup Rejections,
           NEW payload \in Payloads, NEW attempts \in Nat
    PROVE  MakeEnvelope(reason, error, payload, attempts) \in Envelope
  BY DEF MakeEnvelope, Envelope

\* The service starts, with empty topics and nobody running, well typed.
LEMMA TypeInit == ASSUME Init PROVE TypeInv
  BY ConsumersAssumption, EditsTableAssumption
     DEF Init, ConsumersInit, TypeInv, TypeOK, TopicsOK, OffsetsOK, HandlersOK, ControlOK, Topic, InFlight, Processes, PcValues,
         RetrierPcs, SweeperPcs, Outcomes, Table, Row, AbsentRow, RowStatus, Failures, Rejections

\* A disturbance is counted with a number.
LEMMA SpendType ==
    ASSUME TypeOK, NEW kind \in Disturbances, Spend(kind)
    PROVE  spent' \in [Disturbances -> Nat]
  BY DEF TypeOK, Spend

\* Every topic has a length (SMT needs the fact for each process).
LEMMA TopicLength ==
    ASSUME TopicsOK, NEW p \in Processes
    PROVE  Len(Topic(p)) \in Nat
  BY DEF TopicsOK, Topic

\* The record in flight exists, and carries a payload.
LEMMA PayloadType ==
    ASSUME TypeOK, NEW p \in Processes, InFlight(p)
    PROVE  /\ position[p] \in 1 .. Len(Topic(p))
           /\ Payload(p) \in Payloads
<1>1. position[p] \in 1 .. Len(Topic(p))
  BY TopicLength DEF TypeOK, OffsetsOK
<1>2. CASE p = "worker"
  BY <1>1, <1>2 DEF TypeOK, TopicsOK, Payload, Topic
<1>3. CASE p # "worker"
  <2>1. Topic(p) \in Seq(Envelope)
    BY <1>3 DEF TypeOK, TopicsOK, Topic
  <2>2. Topic(p)[position[p]] \in Envelope
    BY <1>1, <2>1
  <2> QED BY <1>1, <1>3, <2>2 DEF Payload, Envelope
<1> QED BY <1>2, <1>3

\* A process that dies leaves nothing in flight, whether its last record was
\* committed (a breaker trip) or not (a crash).
LEMMA GoDownType ==
    ASSUME TypeInv, NEW p \in Processes,
           NEW offset \in {committed[p], position[p]},
           GoDown(p, offset), UNCHANGED <<topics, rows>>,
           spent' \in [Disturbances -> Nat]
    PROVE  TypeInv'
<1> USE DEF TypeInv, TypeOK
<1>1. TopicsOK'
  BY DEF TopicsOK, topics
<1>2. OffsetsOK'
  <2>1. committed' \in [Processes -> Nat] /\ position' \in [Processes -> Nat]
    BY DEF OffsetsOK, GoDown
  <2>2. sweepEnd' \in 0 .. Len(dlq')
    BY DEF OffsetsOK, GoDown, TopicsOK, topics
  <2>3. ASSUME NEW q \in Processes
        PROVE  /\ position'[q] <= Len(Topic(q)')
               /\ position'[q] = committed'[q] + (IF InFlight(q)' THEN 1 ELSE 0)
    <3>1. Topic(q)' = Topic(q) /\ Len(Topic(q)) \in Nat
      BY TopicLength DEF Topic, topics
    <3>2. CASE q = p
      <4>1. offset <= position[p]
        <5>1. /\ position[p] = committed[p] + (IF InFlight(p) THEN 1 ELSE 0)
              /\ position[p] \in Nat /\ committed[p] \in Nat
          BY DEF OffsetsOK
        <5> QED BY <5>1
      <4>2. position'[p] = offset /\ committed'[p] = offset /\ ~InFlight(p)'
        BY DEF OffsetsOK, HandlersOK, GoDown, InFlight
      <4> QED BY <3>1, <3>2, <4>1, <4>2 DEF OffsetsOK
    <3>3. CASE q # p
      <4>1. position'[q] = position[q] /\ committed'[q] = committed[q] /\ pc'[q] = pc[q]
        BY <3>3 DEF OffsetsOK, HandlersOK, GoDown
      <4> QED BY <3>1, <4>1 DEF OffsetsOK, InFlight
    <3> QED BY <3>2, <3>3
  <2> QED BY <2>1, <2>2, <2>3 DEF OffsetsOK
<1>3. HandlersOK'
  BY ConsumersAssumption DEF HandlersOK, GoDown, PcValues, RetrierPcs, SweeperPcs, Outcomes
<1>4. ControlOK'
  BY DEF ControlOK, GoDown, Payload, Topic, topics, HandlersOK, OffsetsOK, Classifiable
<1> QED BY <1>1, <1>2, <1>3, <1>4

\* Taking a record: one is in flight, the one after the committed offset.
LEMMA ReceiveType ==
    ASSUME TypeInv, NEW p \in Processes,
           NEW step \in PcValues, NEW result \in Outcomes,
           Receive(p, step, result),
           step \in {"check", "classify", "park", "commit"},
           p = "retrier" => step \in RetrierPcs,
           p = "sweeper" => step \in SweeperPcs,
           position[p] < Len(Topic(p)),
           step = "park" => result \in Rejections,
           step \in {"check", "classify"} => Payload(p)' \in Edits
    PROVE  TypeInv'
<1> USE DEF TypeInv, TypeOK, Receive
<1>1. TopicsOK' /\ (rows \in Table)' /\ (spent \in [Disturbances -> Nat])'
  BY DEF TopicsOK, topics
<1>2. OffsetsOK'
  <2>1. /\ committed' \in [Processes -> Nat] /\ position' \in [Processes -> Nat]
        /\ sweepEnd' \in 0 .. Len(dlq')
    BY DEF OffsetsOK, topics
  <2>2. ASSUME NEW q \in Processes
        PROVE  /\ position'[q] <= Len(Topic(q)')
               /\ position'[q] = committed'[q] + (IF InFlight(q)' THEN 1 ELSE 0)
    <3>1. Topic(q)' = Topic(q) /\ Len(Topic(q)) \in Nat
      BY TopicLength DEF Topic, topics
    <3>2. CASE q = p
      <4>1. position'[p] = position[p] + 1 /\ committed'[p] = committed[p]
        BY DEF OffsetsOK
      <4>2. ~InFlight(p) /\ InFlight(p)'
        BY DEF HandlersOK, InFlight
      <4> QED BY <3>1, <3>2, <4>1, <4>2 DEF OffsetsOK
    <3>3. CASE q # p
      <4>1. position'[q] = position[q] /\ committed'[q] = committed[q] /\ pc'[q] = pc[q]
        BY <3>3 DEF OffsetsOK, HandlersOK
      <4> QED BY <3>1, <4>1 DEF OffsetsOK, InFlight
    <3> QED BY <3>2, <3>3
  <2> QED BY <2>1, <2>2 DEF OffsetsOK
<1>3. HandlersOK'
  BY DEF HandlersOK, PcValues, RetrierPcs, SweeperPcs, database
<1>4. ControlOK'
  <2>1. ASSUME NEW q \in Processes
        PROVE  /\ pc'[q] \in {"writeFailed", "publish"} => outcome'[q] \in Failures
               /\ pc'[q] = "park" => outcome'[q] \in Rejections
               /\ pc'[q] \in EditPcs => Payload(q)' \in Edits
    <3>1. CASE q = p
      BY <3>1 DEF HandlersOK, EditPcs
    <3>2. CASE q # p
      <4>1. pc'[q] = pc[q] /\ outcome'[q] = outcome[q] /\ position'[q] = position[q]
        BY <3>2 DEF HandlersOK, OffsetsOK
      <4>2. Payload(q)' = Payload(q)
        BY <4>1 DEF Payload, Topic, topics
      <4> QED BY <4>1, <4>2 DEF ControlOK, EditPcs
    <3> QED BY <3>1, <3>2
  <2>2. /\ \A n \in 1 .. Len(retry') : retry'[n].payload \in Edits
        /\ \A n \in 1 .. Len(dlq') : Classifiable(dlq'[n]) => dlq'[n].payload \in Edits
    BY DEF ControlOK, topics
  <2> QED BY <2>1, <2>2 DEF ControlOK, EditPcs, Classifiable
<1> QED BY <1>1, <1>2, <1>3, <1>4

\* A sequence appended to, or left alone, keeps its entries.
LEMMA LogGrows ==
    ASSUME NEW S, NEW s \in Seq(S), NEW t, t = s \/ \E x : t = Append(s, x)
    PROVE  Len(s) <= Len(t) /\ \A n \in 1 .. Len(s) : t[n] = s[n]
<1>1. CASE t = s
  BY <1>1
<1>2. ASSUME NEW x, t = Append(s, x)
      PROVE  Len(s) <= Len(t) /\ \A n \in 1 .. Len(s) : t[n] = s[n]
  <2>1. s \in Seq(S \cup {x})
    OBVIOUS
  <2> QED BY <1>2, <2>1
<1> QED BY <1>1, <1>2

\* Topics appended to, or left alone, keep their entries.
LEMMA AppendGrows ==
    ASSUME TopicsOK,
           raw' = raw \/ \E x : raw' = Append(raw, x),
           retry' = retry \/ \E x : retry' = Append(retry, x),
           dlq' = dlq \/ \E x : dlq' = Append(dlq, x)
    PROVE  Grows
<1>1. Len(raw) <= Len(raw') /\ \A n \in 1 .. Len(raw) : raw'[n] = raw[n]
  BY LogGrows DEF TopicsOK
<1>2. Len(retry) <= Len(retry') /\ \A n \in 1 .. Len(retry) : retry'[n] = retry[n]
  BY LogGrows DEF TopicsOK
<1>3. Len(dlq) <= Len(dlq') /\ \A n \in 1 .. Len(dlq) : dlq'[n] = dlq[n]
  BY LogGrows DEF TopicsOK
<1> QED BY <1>1, <1>2, <1>3 DEF Grows, Topic

\* Topics appended to within their types stay in them, and keep their entries.
LEMMA AppendType ==
    ASSUME TopicsOK,
           raw' = raw \/ \E x \in Payloads : raw' = Append(raw, x),
           retry' = retry \/ \E x \in Envelope : retry' = Append(retry, x),
           dlq' = dlq \/ \E x \in Envelope : dlq' = Append(dlq, x)
    PROVE  TopicsOK' /\ Grows
<1>1. ASSUME NEW S, NEW s \in Seq(S), NEW t, t = s \/ \E x \in S : t = Append(s, x)
      PROVE  t \in Seq(S)
  BY <1>1
<1>2. raw \in Seq(Payloads) /\ retry \in Seq(Envelope) /\ dlq \in Seq(Envelope)
  BY DEF TopicsOK
<1>3. raw' \in Seq(Payloads) /\ retry' \in Seq(Envelope) /\ dlq' \in Seq(Envelope)
  BY <1>1, <1>2
<1>4. Grows
  BY AppendGrows
<1> QED BY <1>3, <1>4 DEF TopicsOK

\* The payload of a record in flight does not change under its handler.
LEMMA PayloadStays ==
    ASSUME TypeOK, Grows, NEW q \in Processes, InFlight(q),
           position'[q] = position[q]
    PROVE  Payload(q)' = Payload(q)
<1>1. position[q] \in 1 .. Len(Topic(q))
  BY PayloadType
<1>2. Topic(q)'[position[q]] = Topic(q)[position[q]]
  BY <1>1 DEF Grows
<1> QED BY <1>2 DEF Payload, Topic

\* A step that leaves offsets alone and keeps p in flight, or out of it,
\* preserves TypeInv if it types what it writes.
LEMMA StepType ==
    ASSUME TypeInv, NEW p \in Processes,
           TopicsOK', Grows, rows' \in Table, HandlersOK',
           spent' \in [Disturbances -> Nat],
           UNCHANGED <<consumer, sweepEnd>>,
           \A q \in Processes \ {p} : pc'[q] = pc[q] /\ outcome'[q] = outcome[q],
           InFlight(p)' <=> InFlight(p),
           pc'[p] \in {"writeFailed", "publish"} => outcome'[p] \in Failures,
           pc'[p] = "park" => outcome'[p] \in Rejections,
           pc'[p] \in EditPcs => Payload(p) \in Edits,
           \A n \in Len(retry) + 1 .. Len(retry') : retry'[n].payload \in Edits,
           \A n \in Len(dlq) + 1 .. Len(dlq') :
                Classifiable(dlq'[n]) => dlq'[n].payload \in Edits
    PROVE  TypeInv'
<1> USE DEF TypeInv, TypeOK
<1>1. ASSUME NEW q \in Processes
      PROVE  InFlight(q)' <=> InFlight(q)
  BY <1>1 DEF InFlight
<1>2. OffsetsOK'
  <2>1. ASSUME NEW q \in Processes
        PROVE  /\ position'[q] <= Len(Topic(q)')
               /\ position'[q] = committed'[q] + (IF InFlight(q)' THEN 1 ELSE 0)
    <3>1. Len(Topic(q)) \in Nat /\ Len(Topic(q)') \in Nat
      <4>1. Len(Topic(q)) \in Nat
        BY TopicLength
      <4>2. Len(Topic(q)') \in Nat
        BY DEF TopicsOK, Topic
      <4> QED BY <4>1, <4>2
    <3>2. Len(Topic(q)) <= Len(Topic(q)')
      BY DEF Grows
    <3> QED BY <1>1, <3>1, <3>2 DEF OffsetsOK, consumer
  <2>2. Len(dlq) <= Len(dlq')
    BY DEF Grows, Topic, Processes
  <2> QED BY <2>1, <2>2 DEF OffsetsOK, consumer, TopicsOK
<1>3. ControlOK'
  <2>1. ASSUME NEW q \in Processes, pc'[q] \in EditPcs
        PROVE  Payload(q)' \in Edits
    <3>1. InFlight(q)
      BY <1>1, <2>1 DEF InFlight, EditPcs
    <3>2. Payload(q)' = Payload(q)
      BY <3>1, PayloadStays DEF consumer
    <3>3. Payload(q) \in Edits
      BY <2>1 DEF ControlOK, EditPcs
    <3> QED BY <3>2, <3>3
  <2>2. \A n \in 1 .. Len(retry') : retry'[n].payload \in Edits
    <3>1. /\ Len(retry) \in Nat /\ Len(retry') \in Nat
          /\ \A n \in 1 .. Len(retry) : retry'[n] = retry[n]
      BY DEF Grows, Topic, Processes, TopicsOK
    <3> QED BY <3>1 DEF ControlOK
  <2>3. \A n \in 1 .. Len(dlq') : Classifiable(dlq'[n]) => dlq'[n].payload \in Edits
    <3>1. /\ Len(dlq) \in Nat /\ Len(dlq') \in Nat
          /\ \A n \in 1 .. Len(dlq) : dlq'[n] = dlq[n]
      BY DEF Grows, Topic, Processes, TopicsOK
    <3> QED BY <3>1 DEF ControlOK, Classifiable
  <2>4. ASSUME NEW q \in Processes
        PROVE  /\ pc'[q] \in {"writeFailed", "publish"} => outcome'[q] \in Failures
               /\ pc'[q] = "park" => outcome'[q] \in Rejections
    BY <2>4 DEF ControlOK
  <2> QED BY <2>1, <2>2, <2>3, <2>4 DEF ControlOK, EditPcs, Classifiable
<1> QED BY <1>2, <1>3

\* A statement leaves the connection open or as it was.
LEMMA UseConnectionType ==
    ASSUME TypeOK, NEW p \in Processes, UseConnection(p)
    PROVE  /\ conn' \in [Processes -> {"open", "dropped", "closed"}]
           /\ swapped' \in [Processes -> BOOLEAN]
  BY DEF TypeOK, HandlersOK, UseConnection

\* Both writes produce tables.
LEMMA TableType ==
    ASSUME TypeOK, NEW e \in Edits, NEW v \in Verdicts \cup {NoVerdict}
    PROVE  UpsertEdit(rows, e, v) \in Table /\ UpsertFailedEdit(rows, e) \in Table
  BY DEF TypeOK, Table, Row, RowStatus, UpsertEdit, UpsertFailedEdit, ClassifiedRow, FailedRow

\* A step of p that neither moves p between idle, running and down, nor
\* touches a topic or an offset.
LEMMA LocalStepType ==
    ASSUME TypeInv, NEW p \in Processes, NEW step \in PcValues, NEW result \in Outcomes,
           UNCHANGED <<topics, consumer, sweepEnd, breaker>>,
           pc' = [pc EXCEPT ![p] = step], outcome' = [outcome EXCEPT ![p] = result],
           verdict' \in [Processes -> Verdicts \cup {NoVerdict}],
           conn' \in [Processes -> {"open", "dropped", "closed"}],
           swapped' \in [Processes -> BOOLEAN],
           rows' \in Table, spent' \in [Disturbances -> Nat],
           p = "retrier" => step \in RetrierPcs,
           p = "sweeper" => step \in SweeperPcs,
           InFlight(p) <=> step \notin {"down", "idle"},
           step \in {"writeFailed", "publish"} => result \in Failures,
           step = "park" => result \in Rejections,
           step \in EditPcs => Payload(p) \in Edits
    PROVE  TypeInv'
<1> USE DEF TypeInv, TypeOK
<1>1. TopicsOK' /\ Grows
  BY AppendType DEF topics
<1>2. HandlersOK'
  <2>1. pc'["retrier"] \in RetrierPcs /\ pc'["sweeper"] \in SweeperPcs
    BY DEF HandlersOK, Processes
  <2>2. pc' \in [Processes -> PcValues] /\ outcome' \in [Processes -> Outcomes]
    BY DEF HandlersOK
  <2> QED BY <2>1, <2>2 DEF HandlersOK
<1>3. /\ pc'[p] = step /\ outcome'[p] = result
      /\ \A q \in Processes \ {p} : pc'[q] = pc[q] /\ outcome'[q] = outcome[q]
  BY DEF HandlersOK
<1>4. InFlight(p)' <=> InFlight(p)
  BY <1>3 DEF InFlight
<1>5. /\ \A n \in Len(retry) + 1 .. Len(retry') : retry'[n].payload \in Edits
      /\ \A n \in Len(dlq) + 1 .. Len(dlq') :
            Classifiable(dlq'[n]) => dlq'[n].payload \in Edits
  BY DEF topics, TopicsOK
<1> QED BY <1>1, <1>2, <1>3, <1>4, <1>5, StepType

\* A model call preserves TypeInv.
LEMMA ClassifyType ==
    ASSUME TypeInv, NEW p \in Processes, NEW onFailure \in {"writeFailed", "publish"},
           p = "sweeper" => onFailure = "publish",
           Classify(p, onFailure)
    PROVE  TypeInv'
<1> USE DEF TypeInv, TypeOK
<1>1. InFlight(p) /\ Payload(p) \in Edits
  BY DEF Classify, InFlight, ControlOK
<1>2. rows' \in Table /\ spent' \in [Disturbances -> Nat]
      /\ UNCHANGED <<topics, consumer, sweepEnd, breaker, conn, swapped>>
  BY DEF Classify, database
<1>3. verdict' \in [Processes -> Verdicts \cup {NoVerdict}]
  BY DEF Classify, HandlersOK
<1>4. PICK step \in {"write", onFailure}, result \in {"ok"} \cup Failures :
        /\ pc' = [pc EXCEPT ![p] = step] /\ outcome' = [outcome EXCEPT ![p] = result]
        /\ step = onFailure => result \in Failures
  BY DEF Classify, Proceed
<1> QED
  BY <1>1, <1>2, <1>3, <1>4, LocalStepType
     DEF HandlersOK, PcValues, RetrierPcs, SweeperPcs, Outcomes

\* Writing a verdict, or failing to, preserves TypeInv.
LEMMA WriteVerdictType ==
    ASSUME TypeInv, NEW p \in Processes, NEW onDataError \in {"park", "commit"},
           p = "sweeper" => onDataError = "commit",
           WriteVerdict(p, onDataError)
    PROVE  TypeInv'
<1> USE DEF TypeInv, TypeOK
<1>1. InFlight(p) /\ Payload(p) \in Edits
  BY DEF WriteVerdict, InFlight, ControlOK
<1>2. rows' \in Table
  BY <1>1, TableType DEF WriteVerdict, HandlersOK, UseClosedConnection
<1>3. /\ conn' \in [Processes -> {"open", "dropped", "closed"}]
      /\ swapped' \in [Processes -> BOOLEAN]
  BY UseConnectionType DEF WriteVerdict, HandlersOK, UseClosedConnection, database
<1>4. /\ verdict' \in [Processes -> Verdicts \cup {NoVerdict}]
      /\ UNCHANGED <<topics, consumer, sweepEnd, breaker, spent>>
  BY DEF WriteVerdict, HandlersOK
<1>5. PICK step \in {"commit", onDataError}, result \in {"ok", "data", "closed"} :
        /\ pc' = [pc EXCEPT ![p] = step] /\ outcome' = [outcome EXCEPT ![p] = result]
        /\ step = "park" => result \in Rejections
  BY DEF WriteVerdict, Proceed, UseClosedConnection, Rejections
<1>6. step \in PcValues /\ result \in Outcomes
  BY DEF PcValues, Outcomes, Rejections
<1>7. step # "publish" /\ step # "writeFailed" /\ step \notin EditPcs /\ InFlight(p)
  BY <1>1 DEF EditPcs
<1> QED
  BY <1>1, <1>2, <1>3, <1>4, <1>5, <1>6, <1>7, LocalStepType
     DEF HandlersOK, PcValues, RetrierPcs, SweeperPcs, Rejections, EditPcs

\* Writing the failed row, or failing to, preserves TypeInv.
LEMMA WriteFailedType ==
    ASSUME TypeInv, NEW p \in Processes, WriteFailed(p)
    PROVE  TypeInv'
<1> USE DEF TypeInv, TypeOK
<1>1. InFlight(p) /\ Payload(p) \in Edits /\ outcome[p] \in Failures /\ p # "sweeper"
  BY DEF WriteFailed, InFlight, ControlOK, HandlersOK, SweeperPcs
<1>2. rows' \in Table
  BY <1>1, TableType DEF WriteFailed, UseClosedConnection
<1>3. /\ conn' \in [Processes -> {"open", "dropped", "closed"}]
      /\ swapped' \in [Processes -> BOOLEAN]
  BY UseConnectionType DEF WriteFailed, HandlersOK, UseClosedConnection, database
<1>4. UNCHANGED <<topics, consumer, sweepEnd, breaker, spent, verdict>>
  BY DEF WriteFailed
<1>5. PICK step \in {"publish", "park"}, result \in Outcomes :
        /\ pc' = [pc EXCEPT ![p] = step] /\ outcome' = [outcome EXCEPT ![p] = result]
        /\ step = "park" => result \in Rejections
        /\ step = "publish" => result \in Failures
  <2>1. outcome = [outcome EXCEPT ![p] = outcome[p]]
    BY DEF HandlersOK
  <2> QED BY <1>1, <2>1 DEF WriteFailed, Proceed, UseClosedConnection, Rejections, Outcomes
<1> QED
  BY <1>1, <1>2, <1>3, <1>4, <1>5, LocalStepType
     DEF HandlersOK, PcValues, RetrierPcs

\* A write whose acknowledgement is lost preserves TypeInv.
LEMMA WriteUnacknowledgedType ==
    ASSUME TypeInv, NEW p \in Processes, WriteUnacknowledged(p)
    PROVE  TypeInv'
<1> USE DEF TypeInv, TypeOK
<1>1. InFlight(p) /\ Payload(p) \in Edits
  BY DEF WriteUnacknowledged, InFlight, ControlOK
<1>2. rows' \in Table
  BY <1>1, TableType DEF WriteUnacknowledged, HandlersOK
<1>3. conn' \in [Processes -> {"open", "dropped", "closed"}]
  BY DEF WriteUnacknowledged, HandlersOK
<1>4. spent' \in [Disturbances -> Nat]
  BY SpendType DEF WriteUnacknowledged, Disturbances
<1>5. UNCHANGED <<topics, consumer, sweepEnd, breaker, verdict, swapped, pc, outcome>>
  BY DEF WriteUnacknowledged, handler
<1>6. /\ pc' = [pc EXCEPT ![p] = pc[p]] /\ outcome' = [outcome EXCEPT ![p] = outcome[p]]
      /\ pc[p] \in PcValues /\ outcome[p] \in Outcomes
      /\ p = "retrier" => pc[p] \in RetrierPcs
      /\ p = "sweeper" => pc[p] \in SweeperPcs
  BY <1>5 DEF HandlersOK
<1>7. /\ InFlight(p) <=> pc[p] \notin {"down", "idle"}
      /\ pc[p] \in {"writeFailed", "publish"} => outcome[p] \in Failures
      /\ pc[p] = "park" => outcome[p] \in Rejections
  BY DEF ControlOK, InFlight
<1>8. swapped' \in [Processes -> BOOLEAN] /\ verdict' \in [Processes -> Verdicts \cup {NoVerdict}]
  BY <1>5 DEF HandlersOK
<1> QED
  BY <1>1, <1>2, <1>3, <1>4, <1>5, <1>6, <1>7, <1>8, LocalStepType

\* A dropped connection preserves TypeInv.
LEMMA DropConnType ==
    ASSUME TypeInv, NEW p \in Processes, DropConn(p)
    PROVE  TypeInv'
<1> USE DEF TypeInv, TypeOK
<1>3. conn' \in [Processes -> {"open", "dropped", "closed"}]
  BY DEF DropConn, HandlersOK
<1>4. spent' \in [Disturbances -> Nat]
  BY SpendType DEF DropConn, Disturbances
<1>5. UNCHANGED <<topics, consumer, sweepEnd, breaker, verdict, swapped, pc, outcome, rows>>
  BY DEF DropConn, handler
<1>6. /\ pc' = [pc EXCEPT ![p] = pc[p]] /\ outcome' = [outcome EXCEPT ![p] = outcome[p]]
      /\ pc[p] \in PcValues /\ outcome[p] \in Outcomes
      /\ p = "retrier" => pc[p] \in RetrierPcs
      /\ p = "sweeper" => pc[p] \in SweeperPcs
  BY <1>5 DEF HandlersOK
<1>7. /\ InFlight(p) <=> pc[p] \notin {"down", "idle"}
      /\ pc[p] \in {"writeFailed", "publish"} => outcome[p] \in Failures
      /\ pc[p] = "park" => outcome[p] \in Rejections
      /\ pc[p] \in EditPcs => Payload(p) \in Edits
  BY DEF ControlOK, InFlight, EditPcs
<1>8. swapped' \in [Processes -> BOOLEAN] /\ verdict' \in [Processes -> Verdicts \cup {NoVerdict}]
      /\ rows' \in Table
  BY <1>5 DEF HandlersOK
<1> QED
  BY <1>3, <1>4, <1>5, <1>6, <1>7, <1>8, LocalStepType

\* The worker's redelivery pre-check preserves TypeInv.
LEMMA CheckStatusType ==
    ASSUME TypeInv, CheckStatus
    PROVE  TypeInv'
<1> USE DEF TypeInv, TypeOK
<1>1. "worker" \in Processes /\ InFlight("worker") /\ Payload("worker") \in Edits
  BY DEF CheckStatus, InFlight, ControlOK, Processes
<1>3. /\ conn' \in [Processes -> {"open", "dropped", "closed"}]
      /\ swapped' \in [Processes -> BOOLEAN]
  BY <1>1, UseConnectionType DEF CheckStatus, HandlersOK, UseClosedConnection, database
<1>4. /\ UNCHANGED <<topics, consumer, sweepEnd, breaker, spent>>
      /\ rows' \in Table /\ verdict' \in [Processes -> Verdicts \cup {NoVerdict}]
  BY DEF CheckStatus, HandlersOK
<1>5. PICK step \in {"commit", "classify", "park"}, result \in {"skip", "none", "closed"} :
        /\ pc' = [pc EXCEPT !["worker"] = step] /\ outcome' = [outcome EXCEPT !["worker"] = result]
        /\ step = "park" => result = "closed"
  BY DEF CheckStatus, Proceed, UseClosedConnection
<1> QED
  BY <1>1, <1>3, <1>4, <1>5, LocalStepType
     DEF PcValues, Outcomes, Rejections

\* A step of p that publishes the record in flight and goes to the commit.
LEMMA PublishType ==
    ASSUME TypeInv, NEW p \in Processes, InFlight(p),
           pc' = [pc EXCEPT ![p] = "commit"],
           UNCHANGED <<raw, rows, consumer, outcome, verdict, database, breaker, sweepEnd, spent>>,
           NEW e \in Envelope, Classifiable(e) => e.payload \in Edits,
           \/ retry' = Append(retry, e) /\ e.payload \in Edits /\ dlq' = dlq
           \/ dlq' = Append(dlq, e) /\ retry' = retry
    PROVE  TypeInv'
<1> USE DEF TypeInv, TypeOK
<1>1. TopicsOK' /\ Grows
  BY AppendType
<1>2. HandlersOK'
  <2>1. pc'["retrier"] \in RetrierPcs /\ pc'["sweeper"] \in SweeperPcs
    BY DEF HandlersOK, Processes, RetrierPcs, SweeperPcs, PcValues
  <2>2. pc' \in [Processes -> PcValues] /\ outcome' \in [Processes -> Outcomes]
    BY DEF HandlersOK, PcValues
  <2> QED BY <2>1, <2>2 DEF HandlersOK, database
<1>3. /\ pc'[p] = "commit"
      /\ \A q \in Processes \ {p} : pc'[q] = pc[q] /\ outcome'[q] = outcome[q]
  BY DEF HandlersOK
<1>4. InFlight(p)' <=> InFlight(p)
  BY <1>3 DEF InFlight
<1>5. \A n \in Len(retry) + 1 .. Len(retry') : retry'[n].payload \in Edits
  BY DEF TopicsOK
<1>6. \A n \in Len(dlq) + 1 .. Len(dlq') :
            Classifiable(dlq'[n]) => dlq'[n].payload \in Edits
  BY DEF TopicsOK, Classifiable
<1> QED BY <1>1, <1>2, <1>3, <1>4, <1>5, <1>6, StepType DEF EditPcs

\* Publishing a failure, to whichever topic, preserves TypeInv.
LEMMA PublishFailureType ==
    ASSUME TypeInv, NEW p \in Processes, NEW attempts \in Nat, PublishFailure(p, attempts)
    PROVE  TypeInv'
<1> USE DEF TypeInv, TypeOK
<1>1. InFlight(p) /\ Payload(p) \in Edits /\ Payload(p) \in Payloads
  BY PayloadType DEF PublishFailure, InFlight, ControlOK
<1>2. PICK reason \in Reasons, error \in Failures :
        LET e == MakeEnvelope(reason, error, Payload(p), attempts)
        IN  \/ retry' = Append(retry, e) /\ dlq' = dlq
            \/ dlq' = Append(dlq, e) /\ retry' = retry
  BY DEF PublishFailure, Reasons, Failures, TransientReason
<1>3. MakeEnvelope(reason, error, Payload(p), attempts) \in Envelope
  BY <1>1, MakeEnvelopeType
<1>4. MakeEnvelope(reason, error, Payload(p), attempts).payload \in Edits
  BY <1>1 DEF MakeEnvelope
<1> QED BY <1>1, <1>2, <1>3, <1>4, PublishType DEF PublishFailure

\* Parking a record preserves TypeInv.
LEMMA ParkType ==
    ASSUME TypeInv, NEW p \in Processes, Park(p)
    PROVE  TypeInv'
<1> USE DEF TypeInv, TypeOK
<1>1. InFlight(p) /\ outcome[p] \in Rejections /\ Payload(p) \in Payloads
  BY PayloadType DEF Park, InFlight, ControlOK
<1>2. MalformedEnvelope(outcome[p], Payload(p)) \in Envelope
  BY <1>1, MakeEnvelopeType DEF MalformedEnvelope, Reasons
<1>3. ~Classifiable(MalformedEnvelope(outcome[p], Payload(p)))
  BY DEF MalformedEnvelope, MakeEnvelope, Classifiable
<1> QED BY <1>1, <1>2, <1>3, PublishType DEF Park

\* The sweeper's requeue preserves TypeInv.
LEMMA SweepRequeueType ==
    ASSUME TypeInv, SweepRequeue
    PROVE  TypeInv'
<1> USE DEF TypeInv, TypeOK
<1> DEFINE p == "sweeper"
           reason == IF outcome[p] = "parse" THEN ParseFailed ELSE TransientExhausted
           attempts == dlq[position[p]].attempts + 1
           e == MakeEnvelope(reason, outcome[p], Payload(p), attempts)
<1>1. p \in Processes /\ InFlight(p)
  BY DEF SweepRequeue, InFlight, Processes
<1>2. Payload(p) \in Edits /\ Payload(p) \in Payloads /\ outcome[p] \in Failures
  BY <1>1, PayloadType DEF SweepRequeue, ControlOK
<1>3. attempts \in Nat
  <2>1. position[p] \in 1 .. Len(dlq)
    BY <1>1, PayloadType DEF Topic
  <2>2. dlq[position[p]] \in Envelope
    BY <2>1 DEF TopicsOK
  <2> QED BY <2>2 DEF Envelope
<1>4. e \in Envelope
  BY <1>2, <1>3, MakeEnvelopeType DEF Reasons
<1>5. e.payload \in Edits
  BY <1>2 DEF MakeEnvelope
<1>6. dlq' = Append(dlq, e) /\ retry' = retry
  BY DEF SweepRequeue
<1>7. /\ pc' = [pc EXCEPT ![p] = "commit"]
      /\ UNCHANGED <<raw, rows, consumer, outcome, verdict, database, breaker, sweepEnd, spent>>
  BY DEF SweepRequeue
<1> HIDE DEF e, p
<1> QED BY <1>1, <1>4, <1>5, <1>6, <1>7, PublishType

\* A crash, or an exception of classify's, takes the process down with its record
\* uncommitted.
LEMMA CrashType ==
    ASSUME TypeInv, NEW p \in Processes, Crash(p) \/ ClassifyEscapes(p)
    PROVE  TypeInv'
<1>1. spent' \in [Disturbances -> Nat]
  BY SpendType DEF Crash, ClassifyEscapes, Disturbances, TypeInv, TypeOK
<1> QED BY <1>1, GoDownType DEF Crash, ClassifyEscapes

\* A trip takes the process down with its record committed.
LEMMA CommitAndTripType ==
    ASSUME TypeInv, NEW p \in Processes, CommitAndTrip(p)
    PROVE  TypeInv'
  BY GoDownType DEF CommitAndTrip, TypeInv, TypeOK

\* A sweep that reached its boundary takes the sweeper down.
LEMMA SweepFinishType ==
    ASSUME TypeInv, SweepFinish
    PROVE  TypeInv'
<1>1. "sweeper" \in Processes
  BY DEF Processes
<1> QED BY <1>1, GoDownType DEF SweepFinish, TypeInv, TypeOK

\* The end of a record, with or without a breaker to keep.
LEMMA FinishRecordType ==
    ASSUME TypeInv, NEW p \in Processes,
           pc[p] = "commit",
           committed' = [committed EXCEPT ![p] = position[p]],
           conn' = [conn EXCEPT ![p] = CarriedConn(p)],
           swapped' = [swapped EXCEPT ![p] = FALSE],
           breaker' \in [Processes -> 0 .. BreakerThreshold - 1],
           Proceed(p, "idle", "none"),
           UNCHANGED <<topics, rows, position, verdict, sweepEnd, spent>>
    PROVE  TypeInv'
<1> USE DEF TypeInv, TypeOK
<1>1. TopicsOK' /\ (rows \in Table)' /\ (spent \in [Disturbances -> Nat])'
  BY DEF TopicsOK, topics
<1>2. OffsetsOK'
  <2>1. ASSUME NEW q \in Processes
        PROVE  /\ position'[q] <= Len(Topic(q)')
               /\ position'[q] = committed'[q] + (IF InFlight(q)' THEN 1 ELSE 0)
    <3>1. Topic(q)' = Topic(q)
      BY DEF Topic, topics
    <3>2. CASE q = p
      BY <3>1, <3>2 DEF OffsetsOK, HandlersOK, Proceed, InFlight
    <3>3. CASE q # p
      BY <3>1, <3>3 DEF OffsetsOK, HandlersOK, Proceed, InFlight
    <3> QED BY <3>2, <3>3
  <2> QED BY <2>1 DEF OffsetsOK, topics
<1>3. HandlersOK'
  BY DEF HandlersOK, Proceed, CarriedConn, PcValues, RetrierPcs, SweeperPcs, Outcomes
<1>4. ControlOK'
  BY DEF ControlOK, Proceed, Payload, Topic, topics, HandlersOK, OffsetsOK, Classifiable
<1> QED BY <1>1, <1>2, <1>3, <1>4

\* For the worker and the retrier the breaker stays below its threshold.
LEMMA CommitType ==
    ASSUME TypeInv, NEW p \in Processes, Commit(p)
    PROVE  TypeInv'
<1>1. BreakerAfter(p) \in 0 .. BreakerThreshold - 1
  <2>1. BreakerAfter(p) \in Nat
    BY ConsumersAssumption DEF BreakerAfter, TypeInv, TypeOK, HandlersOK
  <2> QED BY <2>1, ConsumersAssumption DEF Commit
<1>2. breaker' \in [Processes -> 0 .. BreakerThreshold - 1]
  BY <1>1 DEF Commit, TypeInv, TypeOK, HandlersOK
<1> QED BY <1>2, FinishRecordType DEF Commit

\* The sweeper keeps no breaker.
LEMMA SweepCommitType ==
    ASSUME TypeInv, SweepCommit
    PROVE  TypeInv'
<1>1. "sweeper" \in Processes /\ breaker' \in [Processes -> 0 .. BreakerThreshold - 1]
  BY DEF SweepCommit, TypeInv, TypeOK, HandlersOK, Processes
<1> QED BY <1>1, FinishRecordType DEF SweepCommit

\* p starts: no record is in flight before or after.
LEMMA StartType ==
    ASSUME TypeInv, NEW p \in Processes,
           pc[p] = "down", pc' = [pc EXCEPT ![p] = "idle"],
           sweepEnd' \in 0 .. Len(dlq), spent' \in [Disturbances -> Nat],
           UNCHANGED <<topics, rows, consumer, outcome, verdict, database, breaker>>
    PROVE  TypeInv'
<1> USE DEF TypeInv, TypeOK
<1>1. TopicsOK' /\ (rows \in Table)'
  BY DEF TopicsOK, topics
<1>2. OffsetsOK'
  <2>1. ASSUME NEW q \in Processes
        PROVE  /\ Topic(q)' = Topic(q)
               /\ InFlight(q)' <=> InFlight(q)
    BY DEF Topic, topics, InFlight, HandlersOK
  <2> QED BY <2>1 DEF OffsetsOK, topics, consumer
<1>3. HandlersOK'
  BY DEF HandlersOK, PcValues, RetrierPcs, SweeperPcs, database
<1>4. ControlOK'
  BY DEF ControlOK, Payload, Topic, topics, HandlersOK, consumer, Classifiable
<1> QED BY <1>1, <1>2, <1>3, <1>4

\* Docker's restart preserves TypeInv.
LEMMA RestartType ==
    ASSUME TypeInv, NEW p \in Processes, Restart(p)
    PROVE  TypeInv'
  BY StartType DEF Restart, TypeInv, TypeOK, OffsetsOK

\* A sweep starts with its boundary within the DLQ, and preserves TypeInv.
LEMMA SweepStartType ==
    ASSUME TypeInv, SweepStart
    PROVE  TypeInv'
<1>1. "sweeper" \in Processes
  BY DEF Processes
<1>2. spent' \in [Disturbances -> Nat]
  BY SpendType DEF SweepStart, Disturbances, TypeInv
<1>3. committed["sweeper"] \in Nat /\ Len(dlq) \in Nat
  BY <1>1 DEF TypeInv, TypeOK, OffsetsOK, TopicsOK
<1>4. sweepEnd' \in 0 .. Len(dlq)
  BY <1>3 DEF SweepStart
<1> QED BY <1>1, <1>2, <1>4, StartType DEF SweepStart

\* A producer outside the service appends to a topic.
LEMMA ProduceType ==
    ASSUME TypeInv,
           \/ \E x \in Payloads : Produce(x)
           \/ \E e \in Edits : ProduceNewer(e)
    PROVE  TypeInv'
<1> USE DEF TypeInv, TypeOK
<1>1. "worker" \in Processes
  BY DEF Processes
<1>2. UNCHANGED <<rows, consumer, pc, outcome, verdict, database, breaker, sweepEnd>>
  BY DEF Produce, ProduceNewer, handler
<1>3. spent' \in [Disturbances -> Nat]
  BY SpendType DEF Produce, ProduceNewer, Disturbances
<1>4. \A e \in Edits : /\ NewerEnvelope(e) \in Envelope /\ NewerEnvelope(e).payload = e
                       /\ ~Classifiable(NewerEnvelope(e))
  BY ConsumersAssumption
     DEF NewerEnvelope, MakeEnvelope, Envelope, Classifiable, Reasons, Failures,
         EnvelopeSchema, NewerSchema
<1>5. TopicsOK' /\ Grows
  BY <1>4, AppendType DEF Produce, ProduceNewer
<1>6. HandlersOK'
  BY <1>2 DEF HandlersOK, database
<1>7. /\ \A n \in Len(retry) + 1 .. Len(retry') : retry'[n].payload \in Edits
      /\ \A n \in Len(dlq) + 1 .. Len(dlq') :
            Classifiable(dlq'[n]) => dlq'[n].payload \in Edits
  <2>1. CASE \E x \in Payloads : Produce(x)
    BY <2>1 DEF Produce, TopicsOK
  <2>2. CASE \E e \in Edits : ProduceNewer(e)
    BY <1>4, <2>2 DEF ProduceNewer, TopicsOK, Classifiable
  <2> QED BY <2>1, <2>2
<1>8. /\ pc'["worker"] \in {"writeFailed", "publish"} => outcome'["worker"] \in Failures
      /\ pc'["worker"] = "park" => outcome'["worker"] \in Rejections
      /\ pc'["worker"] \in EditPcs => Payload("worker") \in Edits
  BY <1>1, <1>2 DEF ControlOK, EditPcs
<1> QED BY <1>1, <1>2, <1>3, <1>5, <1>6, <1>7, <1>8, StepType DEF InFlight

\* The worker goes on to the pre-check only with an edit: taking a record
\* preserves TypeInv.
LEMMA WorkerReceiveType ==
    ASSUME TypeInv, WorkerReceive
    PROVE  TypeInv'
<1>1. "worker" \in Processes /\ position["worker"] < Len(Topic("worker"))
  BY DEF WorkerReceive, Topic, Processes
<1>2. PICK step \in {"check", "park"}, result \in {"none", "decode"} :
        /\ Receive("worker", step, result)
        /\ step = "park" => result = "decode"
        /\ step = "check" => raw[position["worker"] + 1] \in Edits
  BY DEF WorkerReceive
<1>3. Payload("worker")' = raw[position["worker"] + 1]
  BY <1>1, <1>2 DEF Receive, Payload, topics, TypeInv, TypeOK, OffsetsOK
<1> QED BY <1>1, <1>2, <1>3, ReceiveType DEF PcValues, Outcomes, Rejections

\* The retrier goes to the model only with the edit of an envelope: taking one
\* preserves TypeInv.
LEMMA RetrierReceiveType ==
    ASSUME TypeInv, RetrierReceive
    PROVE  TypeInv'
<1>1. "retrier" \in Processes /\ position["retrier"] < Len(Topic("retrier"))
  BY DEF RetrierReceive, Topic, Processes
<1>2. PICK step \in {"classify", "park"}, result \in {"none", "decode"} :
        /\ Receive("retrier", step, result)
        /\ step = "park" => result = "decode"
  BY DEF RetrierReceive
<1>3. Payload("retrier")' = retry[position["retrier"] + 1].payload
  BY <1>1, <1>2 DEF Receive, Payload, Topic, topics, TypeInv, TypeOK, OffsetsOK
<1>4. position["retrier"] + 1 \in 1 .. Len(retry)
  BY <1>1 DEF TypeInv, TypeOK, OffsetsOK, TopicsOK, Topic
<1>5. Payload("retrier")' \in Edits
  BY <1>3, <1>4 DEF TypeInv, ControlOK
<1> QED BY <1>1, <1>2, <1>5, ReceiveType DEF PcValues, RetrierPcs, Outcomes, Rejections

\* The sweeper goes to the model only with a classifiable envelope: taking one
\* preserves TypeInv.
LEMMA SweepReceiveType ==
    ASSUME TypeInv, SweepReceive
    PROVE  TypeInv'
<1>1. "sweeper" \in Processes /\ position["sweeper"] < Len(Topic("sweeper"))
  BY DEF SweepReceive, Topic, Processes, TypeInv, TypeOK, OffsetsOK, TopicsOK
<1>2. PICK step \in {"classify", "commit"}, result \in {"none", "skip"} :
        /\ Receive("sweeper", step, result)
        /\ step = "classify" => Classifiable(dlq[position["sweeper"] + 1])
  BY DEF SweepReceive
<1>3. Payload("sweeper")' = dlq[position["sweeper"] + 1].payload
  BY <1>1, <1>2 DEF Receive, Payload, Topic, topics, TypeInv, TypeOK, OffsetsOK
<1>4. position["sweeper"] + 1 \in 1 .. Len(dlq)
  BY <1>1 DEF TypeInv, TypeOK, OffsetsOK, TopicsOK, Topic
<1>5. step = "classify" => Payload("sweeper")' \in Edits
  BY <1>2, <1>3, <1>4 DEF TypeInv, ControlOK
<1> QED BY <1>1, <1>2, <1>5, ReceiveType DEF PcValues, SweeperPcs, Outcomes

\* The pass count a retrier publishes is a number.
LEMMA RetrierAttemptsType ==
    ASSUME TypeInv, RetrierPublish
    PROVE  RetrierAttempts \in Nat
<1>1. "retrier" \in Processes /\ InFlight("retrier")
  BY DEF RetrierPublish, PublishFailure, InFlight, Processes
<1>2. position["retrier"] \in 1 .. Len(retry)
  BY <1>1, PayloadType DEF TypeInv, Topic
<1>3. retry[position["retrier"]] \in Envelope
  BY <1>2 DEF TypeInv, TypeOK, TopicsOK
<1> QED BY <1>3 DEF RetrierAttempts, Envelope

\* Every step of the service preserves TypeInv.
LEMMA TypeNext ==
    ASSUME TypeInv, [Next]_vars
    PROVE  TypeInv'
<1>1. CASE WorkerStep
  <2>1. "worker" \in Processes
    BY DEF Processes
  <2> QED
    BY <1>1, <2>1, WorkerReceiveType, CheckStatusType, ClassifyType, CrashType, WriteVerdictType,
       WriteFailedType, PublishFailureType, ParkType, CommitType, CommitAndTripType,
       RestartType
       DEF WorkerStep, WorkerPublish
<1>2. CASE RetrierStep
  <2>1. "retrier" \in Processes
    BY DEF Processes
  <2> QED
    BY <1>2, <2>1, RetrierAttemptsType, RetrierReceiveType, ClassifyType, CrashType,
       WriteVerdictType,
       WriteFailedType, PublishFailureType, ParkType, CommitType, CommitAndTripType,
       RestartType
       DEF RetrierStep, RetrierPublish
<1>3. CASE SweeperStep
  <2>1. "sweeper" \in Processes
    BY DEF Processes
  <2> QED
    BY <1>3, <2>1, SweepReceiveType, ClassifyType, CrashType, WriteVerdictType, SweepRequeueType,
       SweepCommitType, SweepFinishType
       DEF SweeperStep
<1>4. CASE Environment
  <2>1. {"worker", "retrier", "sweeper"} \subseteq Processes
    BY DEF Processes
  <2> QED
    BY <1>4, <2>1, ProduceType, SweepStartType, CrashType, DropConnType,
       WriteUnacknowledgedType
       DEF Environment, WorkerDisturbance, RetrierDisturbance, SweeperDisturbance
<1>5. CASE UNCHANGED vars
  <2>1. UNCHANGED <<topics, rows, consumer, handler, database, breaker, sweepEnd, spent>>
    BY <1>5 DEF vars
  <2> QED
    BY <2>1
       DEF TypeInv, TypeOK, TopicsOK, OffsetsOK, HandlersOK, ControlOK, topics, consumer,
           handler, database, Topic, InFlight, Payload, Classifiable
<1> QED BY <1>1, <1>2, <1>3, <1>4, <1>5 DEF Next

\* Offsets stay within their topics, at most the record in flight is
\* uncommitted, each handler is at a place its code has, and no breaker is left
\* running at its threshold: TypeOK holds in every reachable state.
THEOREM TypeCorrect == Spec => []TypeOK
<1>1. Init => TypeInv
  BY TypeInit
<1>2. TypeInv /\ [Next]_vars => TypeInv'
  BY TypeNext
<1>3. TypeInv => TypeOK
  BY DEF TypeInv
<1> QED BY <1>1, <1>2, <1>3, PTL DEF Spec

---------------------------------------------------------------------------
(***************************************************************************)
(* The table keeps its verdicts.                                           *)
(***************************************************************************)

\* A step appends at most one record to each topic and changes none.
LEMMA NextAppends ==
    ASSUME [Next]_vars
    PROVE  /\ raw' = raw \/ \E x : raw' = Append(raw, x)
           /\ retry' = retry \/ \E x : retry' = Append(retry, x)
           /\ dlq' = dlq \/ \E x : dlq' = Append(dlq, x)
<1> USE DEF topics
<1>1. CASE WorkerStep
  BY <1>1
     DEF WorkerStep, WorkerReceive, Receive, CheckStatus, Classify, ClassifyEscapes, WriteVerdict,
         WriteFailed,
         WorkerPublish, PublishFailure, Park, Commit, CommitAndTrip, Restart
<1>2. CASE RetrierStep
  BY <1>2
     DEF RetrierStep, RetrierReceive, Receive, Classify, ClassifyEscapes, WriteVerdict, WriteFailed,
         RetrierPublish, PublishFailure, Park, Commit, CommitAndTrip, Restart
<1>3. CASE SweeperStep
  BY <1>3
     DEF SweeperStep, SweepReceive, Receive, Classify, ClassifyEscapes, WriteVerdict, SweepRequeue,
         SweepCommit, SweepFinish
<1>4. CASE Environment
  BY <1>4
     DEF Environment, Produce, ProduceNewer, SweepStart, WorkerDisturbance,
         RetrierDisturbance, SweeperDisturbance, Crash, DropConn,
         WriteUnacknowledged
<1>5. CASE UNCHANGED vars
  BY <1>5 DEF vars
<1> QED BY <1>1, <1>2, <1>3, <1>4, <1>5 DEF Next

\* A step writes the table through one of db.py's two statements, if at all.
LEMMA NextWrites ==
    ASSUME [Next]_vars
    PROVE  \/ rows' = rows
           \/ \E e, v : rows' = UpsertEdit(rows, e, v)
           \/ \E e : rows' = UpsertFailedEdit(rows, e)
<1>1. CASE WorkerStep
  BY <1>1
     DEF WorkerStep, WorkerReceive, Receive, CheckStatus, Classify, ClassifyEscapes, WriteVerdict,
         WriteFailed,
         WorkerPublish, PublishFailure, Park, Commit, CommitAndTrip, Restart, UseClosedConnection
<1>2. CASE RetrierStep
  BY <1>2
     DEF RetrierStep, RetrierReceive, Receive, Classify, ClassifyEscapes, WriteVerdict, WriteFailed,
         RetrierPublish, PublishFailure, Park, Commit, CommitAndTrip, Restart, UseClosedConnection
<1>3. CASE SweeperStep
  BY <1>3
     DEF SweeperStep, SweepReceive, Receive, Classify, ClassifyEscapes, WriteVerdict, SweepRequeue,
         SweepCommit, SweepFinish, UseClosedConnection
<1>4. CASE Environment
  BY <1>4
     DEF Environment, Produce, ProduceNewer, SweepStart, WorkerDisturbance,
         RetrierDisturbance, SweeperDisturbance, Crash, DropConn,
         WriteUnacknowledged
<1>5. CASE UNCHANGED vars
  BY <1>5 DEF vars
<1> QED BY <1>1, <1>2, <1>3, <1>4, <1>5 DEF Next

\* The guard of FAILED_UPSERT_STMT at work: no step, by whichever process and
\* however stale what it read, takes back a classified row.
LEMMA ClassifiedStays ==
    ASSUME rows \in Table, [Next]_vars, NEW e \in Edits, InTable(e)
    PROVE  InTable(e)'
<1>1. CASE rows' = rows
  BY <1>1 DEF InTable
<1>2. ASSUME NEW d, NEW v, rows' = UpsertEdit(rows, d, v)
      PROVE  InTable(e)'
  BY <1>2 DEF InTable, UpsertEdit, ClassifiedRow, Table
<1>3. ASSUME NEW d, rows' = UpsertFailedEdit(rows, d)
      PROVE  InTable(e)'
  BY <1>3 DEF InTable, UpsertFailedEdit, Table
<1> QED BY <1>1, <1>2, <1>3, NextWrites

\* A failure never takes back a classified row, for any number of edits,
\* processes' interleavings, crashes and redeliveries.
THEOREM NoDowngradeCorrect == Spec => NoDowngrade
<1>1. TypeOK /\ [Next]_vars => [\A e \in Edits : InTable(e) => InTable(e)']_vars
  BY ClassifiedStays DEF TypeOK
<1> QED BY <1>1, TypeCorrect, PTL DEF Spec, NoDowngrade
---------------------------------------------------------------------------
(***************************************************************************)
(* Custody.                                                                *)
(***************************************************************************)

\* A process other than the sweeper commits only the record it has finished.
CommitsOnly(p) ==
    \/ committed'[p] = committed[p]
    \/ pc[p] = "commit" /\ committed'[p] = position[p]

\* p's record is at the commit because it was already, or because this step
\* took it there.
AtCommit(p) == pc[p] = "commit" /\ position'[p] = position[p]

\* After this step x is classified, in the DLQ, or among the envelopes the step
\* itself appended to the retry topic.
Placed(x) ==
    \/ InTable(x)'
    \/ InDlq(x)'
    \/ \E m \in 1 .. Len(retry') : Len(retry) < m /\ retry'[m].payload = x

\* The record in flight is placed (its payload is that of before the step).
PayloadPlaced(p) == \E x : x = Payload(p) /\ Placed(x)

\* This step placed p's record and takes it to the commit.
ArrivesAtCommit(p) ==
    /\ InFlight(p) /\ position'[p] = position[p] /\ committed' = committed
    /\ PayloadPlaced(p)

\* What is kept stays kept when topics only grow and classified rows stay.
LEMMA KeptStays ==
    ASSUME TypeOK, TopicsOK', Grows, \A e \in Edits : InTable(e) => InTable(e)',
           NEW x, NEW n \in Nat, Kept(x, n)
    PROVE  Kept(x, n)'
<1>1. CASE InTable(x)
  BY <1>1 DEF InTable, Kept
<1>2. CASE InDlq(x)
  <2>1. /\ Len(dlq) \in Nat /\ Len(dlq') \in Nat /\ Len(dlq) <= Len(dlq')
        /\ \A m \in 1 .. Len(dlq) : dlq'[m] = dlq[m]
    BY DEF Grows, Topic, Processes, TypeOK, TopicsOK
  <2> QED BY <1>2, <2>1 DEF InDlq, Kept
<1>3. CASE PendingRetry(x, n)
  <2>1. /\ Len(retry) \in Nat /\ Len(retry') \in Nat /\ Len(retry) <= Len(retry')
        /\ \A m \in 1 .. Len(retry) : retry'[m] = retry[m]
    BY DEF Grows, Topic, Processes, TypeOK, TopicsOK
  <2> QED BY <1>3, <2>1 DEF PendingRetry, Kept
<1> QED BY <1>1, <1>2, <1>3 DEF Kept

\* A record just placed is kept, however many retry envelopes the retrier had
\* disposed of.
LEMMA PlacedKept ==
    ASSUME TypeOK, TopicsOK', NEW x, NEW n \in 0 .. Len(retry), Placed(x)
    PROVE  Kept(x, n)'
<1>1. Len(retry) \in Nat /\ Len(retry') \in Nat
  BY DEF TypeOK, TopicsOK
<1> QED BY <1>1 DEF Placed, Kept, PendingRetry

\* The argument for NoLoss: if classified rows and published envelopes stay,
\* and a process commits only at the commit and only gets there with its record
\* placed, then custody is kept.
LEMMA CustodyStep ==
    ASSUME CustodyInv, TypeInv', Grows,
           \A e \in Edits : InTable(e) => InTable(e)',
           CommitsOnly("worker"), CommitsOnly("retrier"),
           pc'["worker"] = "commit" => AtCommit("worker") \/ ArrivesAtCommit("worker"),
           pc'["retrier"] = "commit" => AtCommit("retrier") \/ ArrivesAtCommit("retrier")
    PROVE  CustodyInv'
<1> TypeOK /\ NoLoss /\ HandedOn /\ TopicsOK'
  BY DEF CustodyInv, TypeInv, TypeOK
<1>1. /\ "worker" \in Processes /\ "retrier" \in Processes
      /\ committed \in [Processes -> Nat] /\ committed' \in [Processes -> Nat]
      /\ position \in [Processes -> Nat] /\ position' \in [Processes -> Nat]
  BY DEF TypeInv, TypeOK, OffsetsOK, Processes
<1>2. /\ Len(raw) \in Nat /\ Len(raw') \in Nat
      /\ Len(raw) <= Len(raw') /\ \A n \in 1 .. Len(raw) : raw'[n] = raw[n]
  BY DEF Grows, Topic, Processes, TypeOK, TopicsOK
<1>3. /\ Len(retry) \in Nat /\ Len(retry') \in Nat
      /\ Len(retry) <= Len(retry') /\ \A n \in 1 .. Len(retry) : retry'[n] = retry[n]
  BY DEF Grows, Topic, Processes, TypeOK, TopicsOK
<1>4. /\ position["worker"] <= Len(raw) /\ position["retrier"] <= Len(retry)
      /\ committed["worker"] <= position["worker"] /\ committed["retrier"] <= position["retrier"]
  <2>1. Topic("worker") = raw /\ Topic("retrier") = retry
    BY DEF Topic
  <2>2. ASSUME NEW p \in Processes
        PROVE  position[p] <= Len(Topic(p)) /\ committed[p] <= position[p]
    <3>1. position[p] <= Len(Topic(p))
      BY DEF TypeOK, OffsetsOK
    <3>2. CASE InFlight(p)
      <4>1. position[p] = committed[p] + 1
        BY <3>2 DEF TypeOK, OffsetsOK
      <4> QED BY <1>1, <3>1, <4>1
    <3>3. CASE ~InFlight(p)
      <4>1. position[p] = committed[p] + 0
        BY <3>3 DEF TypeOK, OffsetsOK
      <4> QED BY <1>1, <3>1, <4>1
    <3> QED BY <3>2, <3>3
  <2> QED BY <1>1, <2>1, <2>2
<1>5. /\ pc["worker"] = "commit" => position["worker"] = committed["worker"] + 1
      /\ pc["retrier"] = "commit" => position["retrier"] = committed["retrier"] + 1
  BY <1>1 DEF TypeOK, OffsetsOK, InFlight
<1>6. PICK k \in Nat : k = committed'["retrier"]
  BY <1>1
<1>7. ASSUME NEW x, Kept(x, committed["retrier"])
      PROVE  Kept(x, k)'
  <2>1. CASE k = committed["retrier"]
    BY <1>7, <2>1, KeptStays
  <2>2. CASE pc["retrier"] = "commit" /\ k = position["retrier"]
    <3>1. Kept(x, k)
      <4>1. CASE InTable(x) \/ InDlq(x)
        BY <4>1 DEF Kept
      <4>2. CASE PendingRetry(x, committed["retrier"])
        <5>1. PICK m \in 1 .. Len(retry) : committed["retrier"] < m /\ retry[m].payload = x
          BY <4>2 DEF PendingRetry
        <5>2. CASE m = k
          BY <2>2, <5>1, <5>2 DEF HandedOn
        <5>3. CASE m # k
          <6>1. k < m
            BY <1>1, <1>5, <2>2, <5>1, <5>3
          <6> QED BY <5>1, <6>1 DEF PendingRetry, Kept
        <5> QED BY <5>2, <5>3
      <4> QED BY <1>7, <4>1, <4>2 DEF Kept
    <3> QED BY <3>1, KeptStays
  <2> QED BY <1>6, <2>1, <2>2 DEF CommitsOnly
<1>8. NoLoss'
  <2>1. ASSUME NEW n \in 1 .. committed'["worker"]
        PROVE  Kept(raw[n], committed["retrier"])'
    <3>1. n \in 1 .. Len(raw)
      BY <1>1, <1>2, <1>4 DEF CommitsOnly
    <3>2. PICK x : x = raw[n] /\ x = raw'[n]
      BY <1>2, <3>1
    <3>3. Kept(x, committed["retrier"])
      <4>1. CASE n <= committed["worker"]
        <5>1. n \in 1 .. committed["worker"]
          BY <1>1, <4>1
        <5>2. Kept(raw[n], committed["retrier"])
          BY <5>1 DEF NoLoss
        <5> QED BY <3>2, <5>2
      <4>2. CASE ~(n <= committed["worker"])
        <5>1. pc["worker"] = "commit" /\ n = position["worker"]
          BY <1>1, <1>5, <4>2 DEF CommitsOnly
        <5>2. Kept(raw[position["worker"]], committed["retrier"])
          BY <5>1 DEF HandedOn
        <5> QED BY <3>2, <5>1, <5>2
      <4> QED BY <4>1, <4>2
    <3> QED BY <1>6, <1>7, <3>2, <3>3
  <2>2. ASSUME NEW n \in 1 .. committed'["retrier"]
        PROVE  Kept(retry[n].payload, committed["retrier"])'
    <3>1. n \in 1 .. Len(retry)
      BY <1>1, <1>3, <1>4 DEF CommitsOnly
    <3>2. PICK x : x = retry[n].payload /\ x = retry'[n].payload
      BY <1>3, <3>1
    <3>3. CASE n <= committed["retrier"]
      <4>1. Kept(x, committed["retrier"])
        <5>1. n \in 1 .. committed["retrier"]
          BY <1>1, <3>3
        <5>2. Kept(retry[n].payload, committed["retrier"])
          BY <5>1 DEF NoLoss
        <5> QED BY <3>2, <5>2
      <4> QED BY <1>6, <1>7, <3>2, <4>1
    <3>4. CASE ~(n <= committed["retrier"])
      <4>1. pc["retrier"] = "commit" /\ k = position["retrier"] /\ n = k
        BY <1>1, <1>5, <1>6, <3>4 DEF CommitsOnly
      <4>2. Kept(x, k)
        BY <3>2, <4>1 DEF HandedOn
      <4>3. Kept(x, k)'
        BY <4>2, KeptStays
      <4> QED BY <1>6, <3>2, <4>3
    <3> QED BY <3>3, <3>4
  <2> QED BY <2>1, <2>2 DEF NoLoss
<1>9. pc'["worker"] = "commit" => Kept(raw[position["worker"]], committed["retrier"])'
  <2>1. CASE pc'["worker"] = "commit" /\ AtCommit("worker")
    <3>1. position["worker"] \in 1 .. Len(raw)
      BY <1>1, <1>2, <1>4, <1>5, <2>1 DEF AtCommit
    <3>2. PICK x : x = raw[position["worker"]] /\ x = raw'[position'["worker"]]
      BY <1>2, <2>1, <3>1 DEF AtCommit
    <3>3. Kept(raw[position["worker"]], committed["retrier"])
      BY <2>1 DEF AtCommit, HandedOn
    <3>4. Kept(x, committed["retrier"])
      BY <3>2, <3>3
    <3> QED BY <1>6, <1>7, <3>2, <3>4
  <2>2. CASE ArrivesAtCommit("worker")
    <3>1. position["worker"] \in 1 .. Len(raw)
      BY <1>1, <2>2, PayloadType DEF ArrivesAtCommit, Topic
    <3>2. PICK x : x = Payload("worker") /\ Placed(x)
      BY <2>2 DEF ArrivesAtCommit, PayloadPlaced
    <3>3. k \in 0 .. Len(retry)
      BY <1>1, <1>3, <1>4, <1>6, <2>2 DEF ArrivesAtCommit
    <3>4. Kept(x, k)'
      BY <3>2, <3>3, PlacedKept
    <3>5. x = raw'[position'["worker"]]
      BY <1>2, <2>2, <3>1, <3>2 DEF ArrivesAtCommit, Payload
    <3> QED BY <1>6, <3>4, <3>5
  <2> QED BY <2>1, <2>2
<1>10. pc'["retrier"] = "commit" =>
            Kept(retry[position["retrier"]].payload, position["retrier"])'
  <2>1. PICK j \in Nat : j = position["retrier"]
    BY <1>1
  <2>2. CASE pc'["retrier"] = "commit" /\ AtCommit("retrier")
    <3>1. j \in 1 .. Len(retry)
      BY <1>1, <1>3, <1>4, <1>5, <2>1, <2>2 DEF AtCommit
    <3>2. PICK x : x = retry[j].payload /\ x = retry'[j].payload
      BY <1>3, <3>1
    <3>3. Kept(x, j)
      BY <2>1, <2>2, <3>2 DEF AtCommit, HandedOn
    <3>4. Kept(x, j)'
      BY <3>3, KeptStays
    <3> QED BY <2>1, <2>2, <3>2, <3>4 DEF AtCommit
  <2>3. CASE ArrivesAtCommit("retrier")
    <3>1. j \in 1 .. Len(retry)
      BY <1>1, <2>1, <2>3, PayloadType DEF ArrivesAtCommit, Topic
    <3>2. PICK x : x = Payload("retrier") /\ Placed(x)
      BY <2>3 DEF ArrivesAtCommit, PayloadPlaced
    <3>3. Kept(x, j)'
      BY <1>3, <3>1, <3>2, PlacedKept
    <3>4. x = retry'[j].payload
      BY <1>3, <2>1, <3>1, <3>2 DEF Payload, Topic
    <3> QED BY <2>1, <2>3, <3>3, <3>4 DEF ArrivesAtCommit
  <2> QED BY <2>2, <2>3
<1> QED BY <1>8, <1>9, <1>10 DEF HandedOn, CustodyInv, TypeInv

\* This step leaves p where it was.
Undisturbed(p) ==
    pc'[p] = pc[p] /\ position'[p] = position[p] /\ committed'[p] = committed[p]

\* The four kinds of step Next is made of, by who takes them.
WorkerMoves  == WorkerStep \/ WorkerDisturbance
RetrierMoves == RetrierStep \/ RetrierDisturbance
SweeperMoves == SweeperStep \/ SweeperDisturbance \/ SweepStart
Produces     == \/ \E x \in Payloads : Produce(x)
                \/ \E e \in Edits : ProduceNewer(e)

\* A worker's step is none of the retrier's.
LEMMA WorkerMovesAlone ==
    ASSUME TypeOK, WorkerMoves
    PROVE  Undisturbed("retrier")
  BY DEF WorkerMoves, Undisturbed, TypeOK, OffsetsOK, HandlersOK, Processes, handler, consumer,
         WorkerStep, WorkerReceive, Receive, CheckStatus, Classify, WriteVerdict, WriteFailed,
         WorkerPublish, PublishFailure, Park, Commit, CommitAndTrip, Restart,
         UseClosedConnection, Proceed, GoDown,
         WorkerDisturbance, Crash, ClassifyEscapes, DropConn, WriteUnacknowledged

\* A retrier's step is none of the worker's.
LEMMA RetrierMovesAlone ==
    ASSUME TypeOK, RetrierMoves
    PROVE  Undisturbed("worker")
  BY DEF RetrierMoves, Undisturbed, TypeOK, OffsetsOK, HandlersOK, Processes, handler, consumer,
         RetrierStep, RetrierReceive, Receive, Classify, WriteVerdict, WriteFailed,
         RetrierPublish, PublishFailure, Park, Commit, CommitAndTrip, Restart,
         UseClosedConnection, Proceed, GoDown,
         RetrierDisturbance, Crash, ClassifyEscapes, DropConn, WriteUnacknowledged

\* A sweeper's step is none of the other two's.
LEMMA SweeperMovesAlone ==
    ASSUME TypeOK, SweeperMoves
    PROVE  Undisturbed("worker") /\ Undisturbed("retrier")
<1> USE DEF Undisturbed, TypeOK, OffsetsOK, HandlersOK, Processes, handler, consumer
<1>1. CASE SweeperStep
  <2>1. CASE SweepReceive \/ SweepRequeue \/ SweepCommit \/ SweepFinish
    BY <2>1 DEF SweepReceive, Receive, SweepRequeue, SweepCommit, SweepFinish, Proceed, GoDown
  <2>2. CASE Classify("sweeper", "publish") \/ WriteVerdict("sweeper", "commit")
    BY <2>2 DEF Classify, WriteVerdict, UseClosedConnection, Proceed
  <2>3. CASE ClassifyEscapes("sweeper")
    BY <2>3 DEF ClassifyEscapes, GoDown
  <2> QED BY <1>1, <2>1, <2>2, <2>3 DEF SweeperStep
<1>2. CASE SweeperDisturbance \/ SweepStart
  BY <1>2
     DEF SweeperDisturbance, SweepStart, Crash, DropConn, WriteUnacknowledged, GoDown
<1> QED BY <1>1, <1>2 DEF SweeperMoves

\* Producers and stuttering touch no process.
LEMMA ProducesAlone ==
    ASSUME Produces \/ UNCHANGED vars
    PROVE  Undisturbed("worker") /\ Undisturbed("retrier")
  BY DEF Produces, Produce, ProduceNewer, Undisturbed, handler, consumer, vars

\* Publishing a failure, to either topic, or parking places the record: with
\* acks=all the envelope is on the log before the handler goes on.
LEMMA PublishPlaces ==
    ASSUME TypeInv, NEW p \in Processes, NEW attempts \in Nat,
           PublishFailure(p, attempts) \/ Park(p)
    PROVE  PayloadPlaced(p)
<1> USE DEF TypeInv, TypeOK
<1>1. PICK x : x = Payload(p)
  OBVIOUS
<1>2. PICK e \in Envelope : /\ e.payload = x /\ e.schema = EnvelopeSchema
                            /\ dlq' = Append(dlq, e) \/ retry' = Append(retry, e)
  <2>1. InFlight(p)
    BY DEF PublishFailure, Park, InFlight
  <2>2. x \in Payloads
    BY <1>1, <2>1, PayloadType
  <2>3. CASE PublishFailure(p, attempts)
    <3>1. PICK reason \in Reasons, error \in Failures :
            \/ retry' = Append(retry, MakeEnvelope(reason, error, x, attempts))
            \/ dlq' = Append(dlq, MakeEnvelope(reason, error, x, attempts))
      BY <1>1, <2>3 DEF PublishFailure, Reasons, Failures, TransientReason
    <3>2. MakeEnvelope(reason, error, x, attempts) \in Envelope
      BY <2>2, MakeEnvelopeType
    <3> QED BY <3>1, <3>2 DEF MakeEnvelope
  <2>4. CASE Park(p)
    <3>1. MalformedEnvelope(outcome[p], x) \in Envelope
      BY <2>2, <2>4, MakeEnvelopeType DEF Park, MalformedEnvelope, Reasons, ControlOK
    <3> QED BY <1>1, <2>4, <3>1 DEF Park, MalformedEnvelope, MakeEnvelope
  <2> QED BY <2>3, <2>4
<1>3. CASE dlq' = Append(dlq, e)
  <2>1. /\ Len(dlq) + 1 \in 1 .. Len(dlq') /\ dlq'[Len(dlq) + 1] = e
    BY <1>3 DEF TopicsOK
  <2>2. InDlq(x)'
    BY <1>2, <2>1 DEF InDlq
  <2> QED BY <1>1, <2>2 DEF Placed, PayloadPlaced
<1>4. CASE retry' = Append(retry, e)
  <2>1. /\ Len(retry) + 1 \in 1 .. Len(retry') /\ retry'[Len(retry) + 1] = e
        /\ Len(retry) < Len(retry) + 1
    BY <1>4 DEF TopicsOK
  <2> QED BY <1>1, <1>2, <2>1 DEF Placed, PayloadPlaced
<1> QED BY <1>2, <1>3, <1>4

\* This step meets both of CustodyStep's premises about p.
Careful(p) ==
    /\ CommitsOnly(p)
    /\ pc'[p] = "commit" => AtCommit(p) \/ ArrivesAtCommit(p)

\* A process that takes no step is careful.
LEMMA UndisturbedCareful ==
    ASSUME NEW p \in Processes, Undisturbed(p)
    PROVE  Careful(p)
  BY DEF Undisturbed, Careful, CommitsOnly, AtCommit

\* A process that goes down commits at most the record it had finished.
LEMMA DownCareful ==
    ASSUME TypeOK, NEW p \in Processes, Crash(p) \/ ClassifyEscapes(p) \/ CommitAndTrip(p)
    PROVE  Careful(p)
  BY DEF Crash, ClassifyEscapes, CommitAndTrip, GoDown, Careful, CommitsOnly, TypeOK, OffsetsOK,
         HandlersOK

\* A process that commits and goes on was at the commit.
LEMMA CommitCareful ==
    ASSUME TypeOK, NEW p \in Processes, Commit(p) \/ Restart(p)
    PROVE  Careful(p)
  BY DEF Commit, Restart, Proceed, Careful, CommitsOnly, consumer, TypeOK, OffsetsOK, HandlersOK

\* A process that publishes or parks arrives at the commit with its record
\* placed on a topic.
LEMMA PublishCareful ==
    ASSUME TypeInv, NEW p \in Processes, NEW attempts \in Nat,
           PublishFailure(p, attempts) \/ Park(p)
    PROVE  Careful(p)
<1>1. /\ InFlight(p) /\ UNCHANGED <<position, committed>>
  BY DEF PublishFailure, Park, InFlight, consumer
<1> QED BY <1>1, PublishPlaces DEF Careful, CommitsOnly, ArrivesAtCommit

\* A process that writes a verdict arrives there with its record placed in the
\* table.
LEMMA WriteCareful ==
    ASSUME TypeInv, NEW p \in Processes, WriteVerdict(p, "park") \/ WriteFailed(p)
    PROVE  Careful(p)
<1> USE DEF TypeInv, TypeOK, consumer
<1>1. /\ InFlight(p) /\ UNCHANGED <<position, committed>>
  BY DEF WriteVerdict, WriteFailed, InFlight
<1>2. pc'[p] = "commit" => PayloadPlaced(p)
  <2> SUFFICES ASSUME pc'[p] = "commit" PROVE PayloadPlaced(p)
    OBVIOUS
  <2>1. WriteVerdict(p, "park") /\ rows' = UpsertEdit(rows, Payload(p), verdict[p])
    BY DEF WriteVerdict, WriteFailed, UseClosedConnection, Proceed, HandlersOK
  <2>2. Payload(p) \in Edits
    BY <2>1 DEF WriteVerdict, ControlOK
  <2>3. rows'[Payload(p)].status = "classified"
    BY <2>1, <2>2 DEF UpsertEdit, ClassifiedRow, Table
  <2>4. PICK x : x = Payload(p)
    OBVIOUS
  <2>5. InTable(x)'
    BY <2>2, <2>3, <2>4 DEF InTable
  <2> QED BY <2>4, <2>5 DEF Placed, PayloadPlaced
<1> QED BY <1>1, <1>2 DEF Careful, CommitsOnly, ArrivesAtCommit

\* The worker skips to the commit only when the row is classified.
LEMMA CheckStatusCareful ==
    ASSUME TypeInv, CheckStatus
    PROVE  Careful("worker")
<1> USE DEF TypeInv, TypeOK, consumer
<1>1. /\ InFlight("worker") /\ UNCHANGED <<position, committed, rows>> /\ "worker" \in Processes
  BY DEF CheckStatus, InFlight, Processes
<1>2. pc'["worker"] = "commit" => PayloadPlaced("worker")
  <2> SUFFICES ASSUME pc'["worker"] = "commit" PROVE PayloadPlaced("worker")
    OBVIOUS
  <2>1. rows[Payload("worker")].status = "classified"
    BY <1>1 DEF CheckStatus, UseClosedConnection, Proceed, HandlersOK, FetchEditStatus
  <2>2. Payload("worker") \in Edits
    BY <1>1 DEF CheckStatus, ControlOK
  <2>3. PICK x : x = Payload("worker")
    OBVIOUS
  <2>4. InTable(x)'
    BY <1>1, <2>1, <2>2, <2>3 DEF InTable
  <2> QED BY <2>3, <2>4 DEF Placed, PayloadPlaced
<1> QED BY <1>1, <1>2 DEF Careful, CommitsOnly, ArrivesAtCommit

\* The steps that do not reach the commit are careful.
LEMMA OtherCareful ==
    ASSUME TypeOK, NEW p \in Processes, NEW step \in PcValues \ {"commit"}, NEW result,
           \/ Receive(p, step, result)
           \/ Classify(p, "writeFailed")
           \/ DropConn(p)
           \/ WriteUnacknowledged(p)
    PROVE  Careful(p)
  BY DEF Receive, Classify, DropConn, WriteUnacknowledged, Proceed, Careful, CommitsOnly,
         AtCommit, consumer, handler, TypeOK, OffsetsOK, HandlersOK

\* The worker and the retrier are careful in every step of the service.
LEMMA NextCareful ==
    ASSUME TypeInv, [Next]_vars
    PROVE  Careful("worker") /\ Careful("retrier")
<1>1. "worker" \in Processes /\ "retrier" \in Processes
  BY DEF Processes
<1>2. CASE WorkerMoves
  <2>1. Careful("retrier")
    BY <1>1, <1>2, WorkerMovesAlone, UndisturbedCareful DEF TypeInv
  <2>2. WorkerReceive =>
            \E step \in PcValues \ {"commit"}, result \in Outcomes : Receive("worker", step, result)
    BY DEF WorkerReceive, PcValues, Outcomes, Rejections
  <2>3. Careful("worker")
    BY <1>1, <1>2, <2>2, DownCareful, CommitCareful, PublishCareful, WriteCareful,
       CheckStatusCareful, OtherCareful
       DEF TypeInv, WorkerMoves, WorkerStep, WorkerDisturbance, WorkerPublish, PcValues
  <2> QED BY <2>1, <2>3
<1>3. CASE RetrierMoves
  <2>1. Careful("worker")
    BY <1>1, <1>3, RetrierMovesAlone, UndisturbedCareful DEF TypeInv
  <2>2. RetrierReceive =>
            \E step \in PcValues \ {"commit"}, result \in Outcomes : Receive("retrier", step, result)
    BY DEF RetrierReceive, PcValues, Outcomes, Rejections
  <2>3. RetrierPublish => RetrierAttempts \in Nat
    BY RetrierAttemptsType
  <2>4. Careful("retrier")
    BY <1>1, <1>3, <2>2, <2>3, DownCareful, CommitCareful, PublishCareful, WriteCareful,
       OtherCareful
       DEF TypeInv, RetrierMoves, RetrierStep, RetrierDisturbance, RetrierPublish, PcValues
  <2> QED BY <2>1, <2>4
<1>4. CASE SweeperMoves
  BY <1>1, <1>4, SweeperMovesAlone, UndisturbedCareful DEF TypeInv
<1>5. CASE Produces \/ UNCHANGED vars
  BY <1>1, <1>5, ProducesAlone, UndisturbedCareful
<1> QED
  BY <1>2, <1>3, <1>4, <1>5
     DEF Next, Environment, WorkerMoves, RetrierMoves, SweeperMoves, Produces

\* The inductive invariant: NoLoss with what each handler knows of the record
\* in flight (ControlOK) and with the home that record has once it is ready to
\* be committed (HandedOn).
THEOREM CustodyInvCorrect == Spec => []CustodyInv
<1>1. Init => CustodyInv
  <2> SUFFICES ASSUME Init PROVE CustodyInv
    OBVIOUS
  <2>1. TypeInv
    BY TypeInit
  <2>2. NoLoss /\ HandedOn
    BY DEF Init, ConsumersInit, NoLoss, HandedOn, Processes
  <2> QED BY <2>1, <2>2 DEF CustodyInv, TypeInv
<1>2. CustodyInv /\ [Next]_vars => CustodyInv'
  <2> SUFFICES ASSUME CustodyInv, [Next]_vars PROVE CustodyInv'
    OBVIOUS
  <2>1. TypeInv /\ TypeOK /\ TopicsOK /\ rows \in Table
    BY DEF CustodyInv, TypeInv, TypeOK
  <2>2. TypeInv'
    BY <2>1, TypeNext
  <2>3. Grows
    BY <2>1, NextAppends, AppendGrows
  <2>4. \A e \in Edits : InTable(e) => InTable(e)'
    BY <2>1, ClassifiedStays
  <2> QED BY <2>1, <2>2, <2>3, <2>4, NextCareful, CustodyStep DEF Careful
<1> QED BY <1>1, <1>2, PTL DEF Spec

\* A committed record is never lost, for any number of records, edits, retry
\* passes, crashes, drops and sweeps.
THEOREM NoLossCorrect == Spec => []NoLoss
<1>1. CustodyInv => NoLoss
  BY DEF CustodyInv
<1> QED BY <1>1, CustodyInvCorrect, PTL

---------------------------------------------------------------------------
(***************************************************************************)
(* What is published: rows precede envelopes, passes stop at their budget. *)
(* Both hold of an envelope when it is appended, and stay true because     *)
(* logs and rows stay; what a handler knows when it publishes is           *)
(* ReadyToPublish.                                                         *)
(***************************************************************************)

\* What holds of an envelope at the moment it is published.
FreshRetry(e) ==
    /\ e.reason = TransientExhausted
    /\ Classifiable(e) => HasRow(e.payload) /\ e.attempts <= MaxRetryPasses

FreshDlq(e) ==
    /\ Classifiable(e) => HasRow(e.payload)
    /\ e.reason = RetriesExhausted => e.attempts = 1 + MaxRetryPasses

\* A step publishes fresh envelopes, if any.
PublishesFresh ==
    /\ retry' = retry \/ \E e : retry' = Append(retry, e) /\ FreshRetry(e)
    /\ dlq' = dlq \/ \E e : dlq' = Append(dlq, e) /\ FreshDlq(e)

---------------------------------------------------------------------------
(***************************************************************************)
(* Rows and logs stay.                                                     *)
(***************************************************************************)

\* No statement deletes a row.
LEMMA RowsStay ==
    ASSUME rows \in Table, [Next]_vars, NEW e \in Edits, HasRow(e)
    PROVE  HasRow(e)'
<1>1. CASE rows' = rows
  BY <1>1 DEF HasRow
<1>2. ASSUME NEW d, NEW v, rows' = UpsertEdit(rows, d, v)
      PROVE  HasRow(e)'
  BY <1>2 DEF HasRow, UpsertEdit, ClassifiedRow, Table
<1>3. ASSUME NEW d, rows' = UpsertFailedEdit(rows, d)
      PROVE  HasRow(e)'
  BY <1>3 DEF HasRow, UpsertFailedEdit, FailedRow, Table
<1> QED BY <1>1, <1>2, <1>3, NextWrites

\* An entry of a log appended to is an old one or the one appended.
LEMMA EntryOrigin ==
    ASSUME NEW S, NEW s \in Seq(S), NEW x, NEW t, t = Append(s, x),
           NEW n \in 1 .. Len(t)
    PROVE  (n \in 1 .. Len(s) /\ t[n] = s[n]) \/ t[n] = x
<1>1. s \in Seq(S \cup {x})
  OBVIOUS
<1>2. Len(t) = Len(s) + 1 /\ Len(s) \in Nat
  BY <1>1
<1>3. CASE n = Len(s) + 1
  BY <1>1, <1>3
<1>4. CASE n \in 1 .. Len(s)
  BY <1>1, <1>4
<1> QED BY <1>2, <1>3, <1>4

\* If only fresh envelopes are published and rows stay, what the invariant says
\* of the two topics is kept.
LEMMA TopicsStayFresh ==
    ASSUME OutboxInv, TypeInv', PublishesFresh,
           \A e \in Edits : HasRow(e) => HasRow(e)'
    PROVE  RowBeforeEnvelope' /\ AttemptsBounded' /\ RetryReasonsOK'
<1> DEFINE RowAfter(x) == rows'[x].status # "absent"
           RetryOK(e) == /\ e.reason = TransientExhausted
                         /\ Classifiable(e) => RowAfter(e.payload) /\ e.attempts <= MaxRetryPasses
           DlqOK(e)   == /\ Classifiable(e) => RowAfter(e.payload)
                         /\ e.reason = RetriesExhausted => e.attempts = 1 + MaxRetryPasses
<1>1. /\ retry \in Seq(Envelope) /\ dlq \in Seq(Envelope)
      /\ retry' \in Seq(Envelope) /\ dlq' \in Seq(Envelope)
  BY DEF OutboxInv, TypeInv, TypeOK, TopicsOK
<1>2. \A e \in Edits : HasRow(e) => RowAfter(e)
  BY DEF HasRow
<1> HIDE DEF RowAfter
<1>3. ASSUME NEW n \in 1 .. Len(retry')
      PROVE  RetryOK(retry'[n])
  <2>1. Classifiable(retry'[n]) => retry'[n].payload \in Edits
    BY DEF TypeInv, ControlOK, Classifiable
  <2>2. CASE n \in 1 .. Len(retry) /\ retry'[n] = retry[n]
    BY <1>2, <2>1, <2>2 DEF OutboxInv, RowBeforeEnvelope, AttemptsBounded, RetryReasonsOK
  <2>3. CASE FreshRetry(retry'[n])
    BY <1>2, <2>1, <2>3 DEF FreshRetry
  <2>4. (n \in 1 .. Len(retry) /\ retry'[n] = retry[n]) \/ FreshRetry(retry'[n])
    BY <1>1, EntryOrigin DEF PublishesFresh
  <2> QED BY <2>2, <2>3, <2>4
<1>4. ASSUME NEW n \in 1 .. Len(dlq')
      PROVE  DlqOK(dlq'[n])
  <2>1. Classifiable(dlq'[n]) => dlq'[n].payload \in Edits
    BY DEF TypeInv, ControlOK, Classifiable
  <2>2. CASE n \in 1 .. Len(dlq) /\ dlq'[n] = dlq[n]
    BY <1>2, <2>1, <2>2 DEF OutboxInv, RowBeforeEnvelope, AttemptsBounded
  <2>3. CASE FreshDlq(dlq'[n])
    BY <1>2, <2>1, <2>3 DEF FreshDlq
  <2>4. (n \in 1 .. Len(dlq) /\ dlq'[n] = dlq[n]) \/ FreshDlq(dlq'[n])
    BY <1>1, EntryOrigin DEF PublishesFresh
  <2> QED BY <2>2, <2>3, <2>4
<1> QED BY <1>3, <1>4 DEF RowBeforeEnvelope, AttemptsBounded, RetryReasonsOK, HasRow, Classifiable, RowAfter

---------------------------------------------------------------------------
(***************************************************************************)
(* Every step publishes fresh envelopes only.                              *)
(***************************************************************************)

\* A failure published by a process that has written its row, after no more
\* passes than the budget has, is fresh on whichever topic it goes to.
LEMMA FailureFresh ==
    ASSUME NEW p \in Processes, NEW attempts \in Nat, PublishFailure(p, attempts),
           HasRow(Payload(p)),
           outcome[p] = "transient" => attempts <= 1 + MaxRetryPasses
    PROVE  PublishesFresh
<1> USE MaxRetryPassesAssumption
<1>1. CASE /\ outcome[p] = "transient" /\ attempts < 1 + MaxRetryPasses
           /\ retry' = Append(retry, MakeEnvelope(TransientExhausted, "transient", Payload(p), attempts))
           /\ dlq' = dlq
  BY <1>1 DEF PublishesFresh, FreshRetry, MakeEnvelope
<1>2. CASE /\ outcome[p] = "transient" /\ attempts >= 1 + MaxRetryPasses
           /\ dlq' = Append(dlq, MakeEnvelope(RetriesExhausted, "transient", Payload(p), attempts))
           /\ retry' = retry
  BY <1>2 DEF PublishesFresh, FreshDlq, MakeEnvelope
<1>3. CASE /\ dlq' = Append(dlq, MakeEnvelope(ParseFailed, "parse", Payload(p), attempts))
           /\ retry' = retry
  BY <1>3 DEF PublishesFresh, FreshDlq, MakeEnvelope, ParseFailed, RetriesExhausted
<1> QED
  BY <1>1, <1>2, <1>3
     DEF PublishFailure, TransientTopic, TransientReason, RetryTopic, DlqTopic

\* What park_malformed publishes promises nothing.
LEMMA ParkFresh ==
    ASSUME NEW p \in Processes, Park(p)
    PROVE  PublishesFresh
  BY DEF Park, PublishesFresh, FreshDlq, MalformedEnvelope, MakeEnvelope, Classifiable, Malformed,
         RetriesExhausted

\* The worker's one pass is within any budget.
LEMMA WorkerPublishFresh ==
    ASSUME OutboxInv, WorkerPublish
    PROVE  PublishesFresh
<1>1. HasRow(Payload("worker"))
  BY DEF OutboxInv, ReadyToPublish, WorkerPublish, PublishFailure
<1>2. 1 <= 1 + MaxRetryPasses
  BY MaxRetryPassesAssumption
<1> QED BY <1>1, <1>2, FailureFresh DEF WorkerPublish, Processes

\* The retrier adds one to a count that was within the budget when its envelope
\* was put back.
LEMMA RetrierPublishFresh ==
    ASSUME OutboxInv, RetrierPublish
    PROVE  PublishesFresh
<1>1. pc["retrier"] = "publish" /\ "retrier" \in Processes
  BY DEF RetrierPublish, PublishFailure, Processes
<1>2. HasRow(Payload("retrier")) /\ Classifiable(retry[position["retrier"]])
  BY <1>1 DEF OutboxInv, ReadyToPublish, InFlight
<1>3. position["retrier"] \in 1 .. Len(retry)
  BY <1>1, PayloadType DEF OutboxInv, InFlight, Topic
<1>4. retry[position["retrier"]].attempts <= MaxRetryPasses
  BY <1>2, <1>3 DEF OutboxInv, AttemptsBounded
<1>5. retry[position["retrier"]].attempts \in Nat
  <2>1. retry[position["retrier"]] \in Envelope
    BY <1>3 DEF OutboxInv, TypeOK, TopicsOK
  <2> QED BY <2>1 DEF Envelope
<1>6. /\ RetrierAttempts \in Nat
      /\ outcome["retrier"] = "transient" => RetrierAttempts <= 1 + MaxRetryPasses
  BY <1>4, <1>5, MaxRetryPassesAssumption DEF RetrierAttempts
<1> QED BY <1>1, <1>2, <1>6, FailureFresh DEF RetrierPublish

\* The sweeper requeues an envelope it understood, whose edit has its row, and
\* never as exhausted.
LEMMA SweepRequeueFresh ==
    ASSUME OutboxInv, SweepRequeue
    PROVE  PublishesFresh
<1>1. pc["sweeper"] = "publish" /\ "sweeper" \in Processes
  BY DEF SweepRequeue, Processes
<1>2. Classifiable(dlq[position["sweeper"]])
  BY <1>1 DEF OutboxInv, ReadyToPublish, InFlight
<1>3. position["sweeper"] \in 1 .. Len(dlq)
  BY <1>1, PayloadType DEF OutboxInv, InFlight, Topic
<1>4. HasRow(dlq[position["sweeper"]].payload)
  BY <1>2, <1>3 DEF OutboxInv, RowBeforeEnvelope
<1>5. Payload("sweeper") = dlq[position["sweeper"]].payload
  BY DEF Payload, Topic
<1> QED
  BY <1>4, <1>5
     DEF SweepRequeue, PublishesFresh, FreshDlq, MakeEnvelope, ParseFailed, TransientExhausted,
         RetriesExhausted

\* An envelope of another version is nobody's to classify.
LEMMA ProduceNewerFresh ==
    ASSUME NEW x, ProduceNewer(x)
    PROVE  PublishesFresh
  BY DEF ProduceNewer, PublishesFresh, NewerEnvelope, MakeEnvelope, FreshRetry, FreshDlq,
         Classifiable, EnvelopeSchema, NewerSchema, TransientExhausted, RetriesExhausted

\* The steps that publish nothing.
LEMMA SilentFresh ==
    ASSUME UNCHANGED topics \/ UNCHANGED <<retry, dlq>>
    PROVE  PublishesFresh
  BY DEF topics, PublishesFresh

\* Every step of the service publishes fresh envelopes only.
LEMMA NextFresh ==
    ASSUME OutboxInv, [Next]_vars
    PROVE  PublishesFresh
<1>1. CASE WorkerStep
  <2>1. WorkerPublish \/ Park("worker") \/ UNCHANGED topics
    BY <1>1
       DEF WorkerStep, WorkerReceive, Receive, CheckStatus, Classify, ClassifyEscapes,
           WriteVerdict, WriteFailed,
           Commit, CommitAndTrip, Restart
  <2> QED BY <2>1, WorkerPublishFresh, ParkFresh, SilentFresh DEF Processes
<1>2. CASE RetrierStep
  <2>1. RetrierPublish \/ Park("retrier") \/ UNCHANGED topics
    BY <1>2
       DEF RetrierStep, RetrierReceive, Receive, Classify, ClassifyEscapes, WriteVerdict,
           WriteFailed,
           Commit, CommitAndTrip, Restart
  <2> QED BY <2>1, RetrierPublishFresh, ParkFresh, SilentFresh DEF Processes
<1>3. CASE SweeperStep
  <2>1. SweepRequeue \/ UNCHANGED topics
    BY <1>3
       DEF SweeperStep, SweepReceive, Receive, Classify, ClassifyEscapes, WriteVerdict,
           SweepCommit, SweepFinish
  <2> QED BY <2>1, SweepRequeueFresh, SilentFresh
<1>4. CASE Environment
  <2>1. (\E e \in Edits : ProduceNewer(e)) \/ UNCHANGED topics \/ UNCHANGED <<retry, dlq>>
    BY <1>4
       DEF Environment, Produce, SweepStart, WorkerDisturbance, RetrierDisturbance,
           SweeperDisturbance, Crash, DropConn, WriteUnacknowledged
  <2> QED BY <2>1, ProduceNewerFresh, SilentFresh
<1>5. CASE UNCHANGED vars
  BY <1>5, SilentFresh DEF vars
<1> QED BY <1>1, <1>2, <1>3, <1>4, <1>5 DEF Next

---------------------------------------------------------------------------
(***************************************************************************)
(* A handler is ready when it comes to publish.                            *)
(***************************************************************************)

\* Where p works on an envelope it has understood.
Understood(p) == InFlight(p) /\ pc[p] \notin {"park", "commit"}

\* This step leaves p at the publish with the same record, or takes it there
\* from the failed row.
ComesToPublish(p) ==
    /\ position'[p] = position[p]
    /\ pc[p] = "publish" \/ WriteFailed(p)

\* This step leaves p working on the same record.
StaysUnderstood(p) == Understood(p) /\ position'[p] = position[p]

\* The worker comes to publish a failure only by writing its row.
LEMMA WorkerCourse ==
    ASSUME TypeOK, [Next]_vars, pc'["worker"] = "publish"
    PROVE  ComesToPublish("worker")
<1>1. CASE WorkerMoves
  BY <1>1
     DEF TypeOK, OffsetsOK, HandlersOK, Processes, handler, consumer, ComesToPublish, WorkerMoves,
         WorkerStep, WorkerReceive, Receive, CheckStatus, Classify, WriteVerdict, WriteFailed,
         WorkerPublish, PublishFailure, Park, Commit, CommitAndTrip, Restart,
         UseClosedConnection, Proceed, GoDown,
         WorkerDisturbance, Crash, ClassifyEscapes, DropConn, WriteUnacknowledged
<1>2. CASE ~WorkerMoves
  BY <1>2, RetrierMovesAlone, SweeperMovesAlone, ProducesAlone
     DEF Next, Environment, WorkerMoves, RetrierMoves, SweeperMoves, Produces, Undisturbed,
         ComesToPublish
<1> QED BY <1>1, <1>2

\* So does the retrier, which works on an envelope only after it has checked
\* its schema.
LEMMA RetrierCourse ==
    ASSUME TypeOK, [Next]_vars
    PROVE  /\ pc'["retrier"] = "publish" => ComesToPublish("retrier")
           /\ Understood("retrier")' => StaysUnderstood("retrier") \/ RetrierReceive
<1>1. CASE RetrierMoves
  BY <1>1
     DEF TypeOK, OffsetsOK, HandlersOK, Processes, handler, consumer, ComesToPublish,
         StaysUnderstood, Understood, InFlight, RetrierMoves,
         RetrierStep, RetrierReceive, Receive, Classify, WriteVerdict, WriteFailed,
         RetrierPublish, PublishFailure, Park, Commit, CommitAndTrip, Restart,
         UseClosedConnection, Proceed, GoDown,
         RetrierDisturbance, Crash, ClassifyEscapes, DropConn, WriteUnacknowledged
<1>2. CASE ~RetrierMoves
  BY <1>2, WorkerMovesAlone, SweeperMovesAlone, ProducesAlone
     DEF Next, Environment, WorkerMoves, RetrierMoves, SweeperMoves, Produces, Undisturbed,
         ComesToPublish, StaysUnderstood, Understood, InFlight
<1> QED BY <1>1, <1>2

\* The sweeper works on an envelope only after it has found it classifiable.
LEMMA SweeperCourse ==
    ASSUME TypeOK, [Next]_vars, Understood("sweeper")'
    PROVE  StaysUnderstood("sweeper") \/ SweepReceive
<1>1. CASE SweeperMoves
  BY <1>1
     DEF TypeOK, OffsetsOK, HandlersOK, Processes, handler, consumer, StaysUnderstood, Understood,
         InFlight, SweeperMoves, SweeperStep, SweepReceive, Receive, Classify, WriteVerdict,
         SweepRequeue, SweepCommit, SweepFinish, SweepStart, UseClosedConnection, Proceed, GoDown,
         SweeperDisturbance, Crash, ClassifyEscapes, DropConn, WriteUnacknowledged
<1>2. CASE WorkerMoves
  BY <1>2
     DEF TypeOK, OffsetsOK, HandlersOK, Processes, handler, consumer, StaysUnderstood, Understood,
         InFlight, WorkerMoves,
         WorkerStep, WorkerReceive, Receive, CheckStatus, Classify, WriteVerdict, WriteFailed,
         WorkerPublish, PublishFailure, Park, Commit, CommitAndTrip, Restart,
         UseClosedConnection, Proceed, GoDown,
         WorkerDisturbance, Crash, ClassifyEscapes, DropConn, WriteUnacknowledged
<1>3. CASE RetrierMoves
  BY <1>3
     DEF TypeOK, OffsetsOK, HandlersOK, Processes, handler, consumer, StaysUnderstood, Understood,
         InFlight, RetrierMoves,
         RetrierStep, RetrierReceive, Receive, Classify, WriteVerdict, WriteFailed,
         RetrierPublish, PublishFailure, Park, Commit, CommitAndTrip, Restart,
         UseClosedConnection, Proceed, GoDown,
         RetrierDisturbance, Crash, ClassifyEscapes, DropConn, WriteUnacknowledged
<1>4. CASE Produces \/ UNCHANGED vars
  BY <1>4 DEF Produces, Produce, ProduceNewer, handler, consumer, vars, StaysUnderstood,
              Understood, InFlight
<1> QED
  BY <1>1, <1>2, <1>3, <1>4
     DEF Next, Environment, WorkerMoves, RetrierMoves, SweeperMoves, Produces

\* Once its failed row is written, or if it was, a process's edit has a row.
LEMMA PublishHasRow ==
    ASSUME OutboxInv, [Next]_vars, NEW p \in {"worker", "retrier"}, ComesToPublish(p),
           pc'[p] = "publish"
    PROVE  HasRow(Payload(p))'
<1>1. p \in Processes /\ InFlight(p)
  BY DEF ComesToPublish, WriteFailed, InFlight, Processes
<1>2. Payload(p)' = Payload(p)
  <2>1. Grows
    BY NextAppends, AppendGrows DEF OutboxInv, TypeOK
  <2> QED BY <1>1, <2>1, PayloadStays DEF OutboxInv, ComesToPublish
<1>3. Payload(p) \in Edits
  BY <1>1 DEF OutboxInv, ControlOK, ComesToPublish, WriteFailed
<1>4. CASE pc[p] = "publish"
  <2>1. HasRow(Payload(p))
    BY <1>4 DEF OutboxInv, ReadyToPublish
  <2> QED BY <1>2, <1>3, <2>1, RowsStay DEF OutboxInv, TypeOK, HasRow
<1>5. CASE WriteFailed(p)
  <2>1. rows' = UpsertFailedEdit(rows, Payload(p))
    BY <1>1, <1>5 DEF OutboxInv, TypeOK, HandlersOK, WriteFailed, Proceed, UseClosedConnection
  <2> QED BY <1>2, <1>3, <2>1
          DEF OutboxInv, TypeOK, Table, HasRow, UpsertFailedEdit, FailedRow
<1> QED BY <1>4, <1>5 DEF ComesToPublish

\* Every step of the service keeps handlers ready.
LEMMA NextReady ==
    ASSUME OutboxInv, TypeInv', [Next]_vars
    PROVE  ReadyToPublish'
<1>1. TypeOK /\ Grows
  BY NextAppends, AppendGrows DEF OutboxInv, TypeOK
<1>2. ASSUME NEW p \in {"worker", "retrier"}, pc'[p] = "publish"
      PROVE  HasRow(Payload(p))'
  BY <1>1, <1>2, WorkerCourse, RetrierCourse, PublishHasRow
<1>3. ASSUME NEW p \in Processes, StaysUnderstood(p)
      PROVE  Topic(p)'[position'[p]] = Topic(p)[position[p]]
  <2>1. position[p] \in 1 .. Len(Topic(p))
    BY <1>1, <1>3, PayloadType DEF StaysUnderstood, Understood
  <2> QED BY <1>1, <1>3, <2>1 DEF Grows, StaysUnderstood
<1>4. ASSUME Understood("retrier")'
      PROVE  Classifiable(retry'[position'["retrier"]])
  <2>1. CASE StaysUnderstood("retrier")
    <3>1. Classifiable(retry[position["retrier"]])
      BY <2>1 DEF OutboxInv, ReadyToPublish, StaysUnderstood, Understood
    <3>2. retry'[position'["retrier"]] = retry[position["retrier"]]
      BY <1>3, <2>1 DEF Topic, Processes
    <3> QED BY <3>1, <3>2
  <2>2. CASE RetrierReceive
    <3>1. /\ position'["retrier"] = position["retrier"] + 1 /\ retry' = retry
          /\ position["retrier"] < Len(retry) /\ position["retrier"] \in Nat
      BY <1>1, <2>2 DEF RetrierReceive, Receive, topics, TypeOK, OffsetsOK, Processes
    <3>2. retry[position["retrier"] + 1].schema = EnvelopeSchema
      BY <1>1, <1>4, <2>2
         DEF RetrierReceive, Receive, Understood, TypeOK, HandlersOK, Processes
    <3>3. position["retrier"] + 1 \in 1 .. Len(retry)
      BY <1>1, <3>1 DEF TypeOK, TopicsOK
    <3>4. retry[position["retrier"] + 1].reason = TransientExhausted
      BY <3>3 DEF OutboxInv, RetryReasonsOK
    <3> QED BY <3>1, <3>2, <3>4 DEF Classifiable, TransientExhausted, Malformed
  <2> QED BY <1>1, <1>4, <2>1, <2>2, RetrierCourse
<1>5. ASSUME Understood("sweeper")'
      PROVE  Classifiable(dlq'[position'["sweeper"]])
  <2>1. CASE StaysUnderstood("sweeper")
    <3>1. Classifiable(dlq[position["sweeper"]])
      BY <2>1 DEF OutboxInv, ReadyToPublish, StaysUnderstood, Understood
    <3>2. dlq'[position'["sweeper"]] = dlq[position["sweeper"]]
      BY <1>3, <2>1 DEF Topic, Processes
    <3> QED BY <3>1, <3>2
  <2>2. CASE SweepReceive
    <3>1. position'["sweeper"] = position["sweeper"] + 1 /\ dlq' = dlq
      BY <1>1, <2>2 DEF SweepReceive, Receive, topics, TypeOK, OffsetsOK, Processes
    <3>2. Classifiable(dlq[position["sweeper"] + 1])
      BY <1>1, <1>5, <2>2
         DEF SweepReceive, Receive, Understood, TypeOK, HandlersOK, Processes
    <3> QED BY <3>1, <3>2
  <2> QED BY <1>1, <1>5, <2>1, <2>2, SweeperCourse
<1>6. pc'["sweeper"] # "park"
  BY DEF TypeInv, TypeOK, HandlersOK, SweeperPcs
<1> QED BY <1>2, <1>4, <1>5, <1>6 DEF ReadyToPublish, Understood, Classifiable

---------------------------------------------------------------------------
(***************************************************************************)
(* The theorems.                                                           *)
(***************************************************************************)

\* The inductive invariant: what the topics promise, with what each handler
\* has done by the time it publishes (ReadyToPublish) and with the reasons the
\* retry topic carries.
THEOREM OutboxInvCorrect == Spec => []OutboxInv
<1>1. Init => OutboxInv
  <2> SUFFICES ASSUME Init PROVE OutboxInv
    OBVIOUS
  <2>1. TypeInv
    BY TypeInit
  <2>2. RowBeforeEnvelope /\ AttemptsBounded /\ RetryReasonsOK /\ ReadyToPublish
    BY DEF Init, ConsumersInit, RowBeforeEnvelope, AttemptsBounded, RetryReasonsOK,
           ReadyToPublish, InFlight, Processes
  <2> QED BY <2>1, <2>2 DEF OutboxInv, TypeInv
<1>2. OutboxInv /\ [Next]_vars => OutboxInv'
  <2> SUFFICES ASSUME OutboxInv, [Next]_vars PROVE OutboxInv'
    OBVIOUS
  <2>1. TypeInv /\ rows \in Table
    BY DEF OutboxInv, TypeInv, TypeOK
  <2>2. TypeInv'
    BY <2>1, TypeNext
  <2>3. \A e \in Edits : HasRow(e) => HasRow(e)'
    BY <2>1, RowsStay
  <2>4. RowBeforeEnvelope' /\ AttemptsBounded' /\ RetryReasonsOK'
    BY <2>2, <2>3, NextFresh, TopicsStayFresh
  <2>5. ReadyToPublish'
    BY <2>2, NextReady
  <2> QED BY <2>2, <2>4, <2>5 DEF OutboxInv, TypeInv
<1> QED BY <1>1, <1>2, PTL DEF Spec

\* An envelope for a classifier failure is never on a topic before its edit has
\* a row, whatever crashes, is redelivered, or publishes beside it.
THEOREM RowBeforeEnvelopeCorrect == Spec => []RowBeforeEnvelope
<1>1. OutboxInv => RowBeforeEnvelope
  BY DEF OutboxInv
<1> QED BY <1>1, OutboxInvCorrect, PTL

\* No edit is put back beyond its budget, and one given up as exhausted has had
\* exactly 1 + max_retry_passes passes, for every budget.
THEOREM AttemptsBoundedCorrect == Spec => []AttemptsBounded
<1>1. OutboxInv => AttemptsBounded
  BY DEF OutboxInv
<1> QED BY <1>1, OutboxInvCorrect, PTL

---------------------------------------------------------------------------
(***************************************************************************)
(* The passes an envelope counts were taken.                               *)
(***************************************************************************)

\* e comes after all the waits it counts: on the retry topic all but its own.
TakenRetry(e) ==
    Classifiable(e) => \A a \in 1 .. e.attempts - 1 : Waited(e.payload, a, Len(retry))

TakenDlq(e) ==
    e.reason = RetriesExhausted =>
        \A a \in 1 .. MaxRetryPasses : Waited(e.payload, a, Len(retry))

PublishesTaken ==
    /\ retry' = retry \/ \E e \in Envelope : retry' = Append(retry, e) /\ TakenRetry(e)
    /\ dlq' = dlq \/ \E e \in Envelope : dlq' = Append(dlq, e) /\ TakenDlq(e)

\* A wait stays on the log, and counts for whoever comes later.
LEMMA WaitedStays ==
    ASSUME TypeOK, TypeOK', Grows, NEW x, NEW a, NEW n \in 0 .. Len(retry), Waited(x, a, n),
           NEW k \in Nat, n <= k
    PROVE  Waited(x, a, k) /\ Waited(x, a, k)'
<1>1. Len(retry) \in Nat /\ \A m \in 1 .. Len(retry) : retry'[m] = retry[m]
  <2>1. TopicsOK /\ Topic("retrier") = retry /\ Topic("retrier")' = retry'
    BY DEF TypeOK, Topic
  <2> QED BY <2>1 DEF Grows, Processes, TopicsOK
<1>2. PICK m \in 1 .. n : /\ Classifiable(retry[m])
                          /\ retry[m].payload = x /\ retry[m].attempts = a
  BY DEF Waited
<1>3. m \in 1 .. k /\ retry'[m] = retry[m]
  BY <1>1
<1> QED BY <1>2, <1>3 DEF Waited, Classifiable

\* If only such envelopes are published, PassesTaken is kept.
LEMMA TakenStays ==
    ASSUME TypeOK, TypeOK', Grows, PassesTaken, PublishesTaken
    PROVE  PassesTaken'
<1>1. /\ retry \in Seq(Envelope) /\ dlq \in Seq(Envelope)
      /\ retry' \in Seq(Envelope) /\ dlq' \in Seq(Envelope)
      /\ Len(retry) \in Nat /\ Len(retry') \in Nat /\ Len(retry) <= Len(retry')
  <2>1. TopicsOK /\ TopicsOK' /\ Topic("retrier") = retry /\ Topic("retrier")' = retry'
    BY DEF TypeOK, Topic
  <2> QED BY <2>1 DEF Grows, Processes, TopicsOK
<1>2. ASSUME NEW n \in 1 .. Len(retry'), Classifiable(retry'[n]),
             NEW a \in 1 .. retry'[n].attempts
      PROVE  Waited(retry[n].payload, a, n)'
  <2>1. PICK x, N : x = retry'[n].payload /\ N = Len(retry)
    OBVIOUS
  <2>2. CASE n \in 1 .. Len(retry) /\ retry'[n] = retry[n]
    <3>1. Waited(x, a, n) /\ n \in 0 .. Len(retry) /\ n \in Nat /\ n <= n
      BY <1>1, <1>2, <2>1, <2>2 DEF PassesTaken, Classifiable
    <3>2. Waited(x, a, n)'
      BY <3>1, WaitedStays
    <3> QED BY <2>1, <3>2 DEF Waited
  <2>3. CASE /\ \E e \in Envelope : retry' = Append(retry, e) /\ TakenRetry(e)
             /\ n = Len(retry) + 1
    <3>1. PICK e \in Envelope : retry' = Append(retry, e) /\ TakenRetry(e)
      BY <2>3
    <3>2. retry'[n] = e /\ e.attempts \in Nat
      BY <1>1, <2>3, <3>1 DEF Envelope
    <3>3. CASE a = e.attempts
      BY <1>2, <3>2, <3>3 DEF Waited, Classifiable
    <3>4. CASE a \in 1 .. e.attempts - 1
      <4>1. Waited(x, a, N) /\ N \in 0 .. Len(retry) /\ N <= n /\ n \in Nat
        BY <1>1, <1>2, <2>1, <2>3, <3>1, <3>2, <3>4 DEF TakenRetry, Classifiable
      <4>2. Waited(x, a, n)'
        BY <4>1, WaitedStays
      <4> QED BY <2>1, <4>2 DEF Waited
    <3> QED BY <1>2, <3>2, <3>3, <3>4
  <2>4. \/ n \in 1 .. Len(retry) /\ retry'[n] = retry[n]
        \/ /\ \E e \in Envelope : retry' = Append(retry, e) /\ TakenRetry(e)
           /\ n = Len(retry) + 1
    BY <1>1 DEF PublishesTaken
  <2> QED BY <2>2, <2>3, <2>4
<1>3. ASSUME NEW n \in 1 .. Len(dlq'), dlq'[n].reason = RetriesExhausted,
             NEW a \in 1 .. MaxRetryPasses
      PROVE  Waited(dlq[n].payload, a, Len(retry))'
  <2>1. PICK x, N, K : x = dlq'[n].payload /\ N = Len(retry) /\ K = Len(retry')
    OBVIOUS
  <2>2. (n \in 1 .. Len(dlq) /\ dlq'[n] = dlq[n]) \/ TakenDlq(dlq'[n])
    BY <1>1, EntryOrigin DEF PublishesTaken
  <2>3. Waited(x, a, N)
    BY <1>3, <2>1, <2>2 DEF PassesTaken, TakenDlq
  <2>4. N \in 0 .. Len(retry) /\ K \in Nat /\ N <= K
    BY <1>1, <2>1
  <2>5. Waited(x, a, K)'
    BY <2>3, <2>4, WaitedStays
  <2> QED BY <2>1, <2>5 DEF Waited
<1> QED BY <1>2, <1>3 DEF PassesTaken, Classifiable

\* A failure published after all the waits it counts.
LEMMA FailureTaken ==
    ASSUME TypeInv, NEW p \in Processes, NEW attempts \in Nat, PublishFailure(p, attempts),
           \A a \in 1 .. attempts - 1 : Waited(Payload(p), a, Len(retry)),
           outcome[p] = "transient" => attempts <= 1 + MaxRetryPasses
    PROVE  PublishesTaken
<1>0. Payload(p) \in Payloads
  BY PayloadType DEF PublishFailure, InFlight, TypeInv
<1>1. CASE /\ retry' = Append(retry, MakeEnvelope(TransientExhausted, "transient", Payload(p), attempts))
           /\ dlq' = dlq
  <2>1. MakeEnvelope(TransientExhausted, "transient", Payload(p), attempts) \in Envelope
    BY <1>0, MakeEnvelopeType DEF Reasons, Failures
  <2> QED BY <1>1, <2>1 DEF PublishesTaken, TakenRetry, MakeEnvelope
<1>2. CASE /\ outcome[p] = "transient" /\ attempts >= 1 + MaxRetryPasses
           /\ dlq' = Append(dlq, MakeEnvelope(RetriesExhausted, "transient", Payload(p), attempts))
           /\ retry' = retry
  <2>1. MakeEnvelope(RetriesExhausted, "transient", Payload(p), attempts) \in Envelope
    BY <1>0, MakeEnvelopeType DEF Reasons, Failures
  <2>2. 1 .. attempts - 1 = 1 .. MaxRetryPasses
    BY <1>2, MaxRetryPassesAssumption
  <2> QED BY <1>2, <2>1, <2>2 DEF PublishesTaken, TakenDlq, MakeEnvelope
<1>3. CASE /\ dlq' = Append(dlq, MakeEnvelope(ParseFailed, "parse", Payload(p), attempts))
           /\ retry' = retry
  <2>1. MakeEnvelope(ParseFailed, "parse", Payload(p), attempts) \in Envelope
    BY <1>0, MakeEnvelopeType DEF Reasons, Failures
  <2> QED BY <1>3, <2>1 DEF PublishesTaken, TakenDlq, MakeEnvelope, ParseFailed, RetriesExhausted
<1> QED
  BY <1>1, <1>2, <1>3, MaxRetryPassesAssumption
     DEF PublishFailure, TransientTopic, TransientReason, RetryTopic, DlqTopic

\* The retrier's envelope counts one wait more than the one it took, which has
\* had its own.
LEMMA RetrierPublishTaken ==
    ASSUME OutboxInv, PassesTaken, RetrierPublish
    PROVE  PublishesTaken
<1>1. pc["retrier"] = "publish" /\ "retrier" \in Processes
  BY DEF RetrierPublish, PublishFailure, Processes
<1>2. PICK k : k = position["retrier"]
  OBVIOUS
<1>3. k \in 1 .. Len(retry) /\ Classifiable(retry[k])
  BY <1>1, <1>2, PayloadType DEF OutboxInv, ReadyToPublish, InFlight, Topic
<1>4. retry[k].attempts \in Nat /\ retry[k].attempts <= MaxRetryPasses
  <2>1. retry[k] \in Envelope
    BY <1>3 DEF OutboxInv, TypeOK, TopicsOK
  <2> QED BY <1>3, <2>1 DEF Envelope, OutboxInv, AttemptsBounded
<1>5. /\ RetrierAttempts \in Nat /\ RetrierAttempts <= retry[k].attempts + 1
      /\ outcome["retrier"] = "transient" => RetrierAttempts <= 1 + MaxRetryPasses
  BY <1>2, <1>4, MaxRetryPassesAssumption DEF RetrierAttempts
<1>6. ASSUME NEW a \in 1 .. RetrierAttempts - 1
      PROVE  Waited(Payload("retrier"), a, Len(retry))
  <2>1. a \in 1 .. retry[k].attempts
    BY <1>4, <1>5
  <2>2. Waited(retry[k].payload, a, k)
    BY <1>3, <2>1 DEF PassesTaken
  <2>3. Payload("retrier") = retry[k].payload
    BY <1>2 DEF Payload, Topic
  <2>4. PICK m \in 1 .. k : /\ Classifiable(retry[m])
                            /\ retry[m].payload = retry[k].payload /\ retry[m].attempts = a
    BY <2>2 DEF Waited
  <2>5. m \in 1 .. Len(retry)
    BY <1>3
  <2> QED BY <2>3, <2>4, <2>5 DEF Waited
<1> QED BY <1>1, <1>5, <1>6, FailureTaken DEF RetrierPublish, OutboxInv, TypeInv

\* Every step publishes such envelopes only.
LEMMA NextTaken ==
    ASSUME OutboxInv, PassesTaken, TypeOK', [Next]_vars
    PROVE  PublishesTaken
<1>1. ASSUME UNCHANGED topics \/ UNCHANGED <<retry, dlq>>
      PROVE  PublishesTaken
  BY <1>1 DEF topics, PublishesTaken
<1>2. ASSUME WorkerPublish
      PROVE  PublishesTaken
  BY <1>2, FailureTaken, MaxRetryPassesAssumption DEF WorkerPublish, Processes, OutboxInv, TypeInv
<1>3. ASSUME NEW p \in Processes, Park(p)
      PROVE  PublishesTaken
  <2>1. Payload(p) \in Payloads /\ outcome[p] \in Rejections
    BY <1>3, PayloadType DEF Park, InFlight, OutboxInv, ControlOK
  <2>2. MalformedEnvelope(outcome[p], Payload(p)) \in Envelope
    BY <2>1, MakeEnvelopeType DEF MalformedEnvelope, Reasons
  <2> QED BY <1>3, <2>2
          DEF Park, PublishesTaken, TakenDlq, MalformedEnvelope, MakeEnvelope, Malformed,
              RetriesExhausted
<1>4. ASSUME NEW e \in Edits, ProduceNewer(e)
      PROVE  PublishesTaken
  <2>1. NewerEnvelope(e) \in Envelope
    <3>1. MakeEnvelope(TransientExhausted, "transient", e, 1) \in Envelope
      BY ConsumersAssumption, MakeEnvelopeType DEF Reasons, Failures
    <3> QED BY <3>1 DEF NewerEnvelope, MakeEnvelope, Envelope
  <2> QED BY <1>4, <2>1
          DEF ProduceNewer, PublishesTaken, NewerEnvelope, MakeEnvelope, TakenRetry, TakenDlq,
              Classifiable, EnvelopeSchema, NewerSchema, TransientExhausted, RetriesExhausted
<1>5. ASSUME SweepRequeue
      PROVE  PublishesTaken
  <2>1. PICK e : dlq' = Append(dlq, e) /\ e.reason # RetriesExhausted /\ retry' = retry
    BY <1>5 DEF SweepRequeue, MakeEnvelope, ParseFailed, TransientExhausted, RetriesExhausted
  <2>2. e \in Envelope
    <3>1. dlq' \in Seq(Envelope) /\ dlq \in Seq(Envelope \cup {e})
      BY DEF OutboxInv, TypeOK, TopicsOK
    <3>2. Len(dlq) + 1 \in 1 .. Len(dlq') /\ dlq'[Len(dlq) + 1] = e
      BY <2>1, <3>1
    <3> QED BY <3>1, <3>2
  <2> QED BY <2>1, <2>2 DEF PublishesTaken, TakenDlq
<1>6. CASE WorkerStep
  <2>1. WorkerPublish \/ Park("worker") \/ UNCHANGED topics
    BY <1>6
       DEF WorkerStep, WorkerReceive, Receive, CheckStatus, Classify, ClassifyEscapes,
           WriteVerdict, WriteFailed,
           Commit, CommitAndTrip, Restart
  <2> QED BY <2>1, <1>1, <1>2, <1>3 DEF Processes
<1>7. CASE RetrierStep
  <2>1. RetrierPublish \/ Park("retrier") \/ UNCHANGED topics
    BY <1>7
       DEF RetrierStep, RetrierReceive, Receive, Classify, ClassifyEscapes, WriteVerdict,
           WriteFailed,
           Commit, CommitAndTrip, Restart
  <2> QED BY <2>1, <1>1, <1>3, RetrierPublishTaken DEF Processes
<1>8. CASE SweeperStep
  <2>1. SweepRequeue \/ UNCHANGED topics
    BY <1>8
       DEF SweeperStep, SweepReceive, Receive, Classify, ClassifyEscapes, WriteVerdict,
           SweepCommit, SweepFinish
  <2> QED BY <2>1, <1>1, <1>5
<1>9. CASE Environment
  <2>1. (\E e \in Edits : ProduceNewer(e)) \/ UNCHANGED topics \/ UNCHANGED <<retry, dlq>>
    BY <1>9
       DEF Environment, Produce, SweepStart, WorkerDisturbance, RetrierDisturbance,
           SweeperDisturbance, Crash, DropConn, WriteUnacknowledged
  <2> QED BY <2>1, <1>1, <1>4
<1>10. CASE UNCHANGED vars
  BY <1>10, <1>1 DEF vars
<1> QED BY <1>6, <1>7, <1>8, <1>9, <1>10 DEF Next

\* The passes an envelope counts were all taken, one wait on the retry topic
\* each, whatever crashes, duplicates and interleavings came between them: an
\* edit is given up only after max_retry_passes waits.
THEOREM PassesTakenCorrect == Spec => []PassesTaken
<1>1. Init => PassesTaken
  BY DEF Init, ConsumersInit, PassesTaken
<1>2. OutboxInv /\ OutboxInv' /\ PassesTaken /\ [Next]_vars => PassesTaken'
  <2> SUFFICES ASSUME OutboxInv, OutboxInv', PassesTaken, [Next]_vars
               PROVE  PassesTaken'
    OBVIOUS
  <2>1. TypeOK /\ TypeOK' /\ Grows
    BY NextAppends, AppendGrows DEF OutboxInv, TypeOK
  <2> QED BY <2>1, NextTaken, TakenStays
<1> QED BY <1>1, <1>2, OutboxInvCorrect, PTL DEF Spec

===========================================================================
