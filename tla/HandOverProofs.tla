------------------------- MODULE HandOverProofs -------------------------
(***************************************************************************)
(* Proofs about how records are handed over: the retry topic grows with    *)
(* what disturbs it and not with itself (LineageOK), the sweeper loses     *)
(* track of no edit, and the whole pipeline implements Custody.            *)
(***************************************************************************)
EXTENDS PipelineProofs, FiniteSetTheorems

---------------------------------------------------------------------------
(***************************************************************************)
(* The retry topic grows with what disturbs it, not with itself: facts     *)
(* about logs first, then what each step adds, then the count.             *)
(***************************************************************************)

\* The sets counted are finite.
LEMMA LeadingFinite ==
    ASSUME NEW log \in Seq(Envelope), NEW done \in Nat, NEW a \in Nat
    PROVE  /\ IsFiniteSet(Leading(log, done, a)) /\ Cardinality(Leading(log, done, a)) \in Nat
           /\ IsFiniteSet(Unknown(log)) /\ Cardinality(Unknown(log)) \in Nat
<1>1. IsFiniteSet(1 .. Len(log))
  <2>1. Len(log) \in Int
    OBVIOUS
  <2> QED BY <2>1, FS_Interval
<1>2. Leading(log, done, a) \in SUBSET (1 .. Len(log)) /\ Unknown(log) \in SUBSET (1 .. Len(log))
  BY DEF Leading, Unknown
<1>3. IsFiniteSet(Leading(log, done, a)) /\ IsFiniteSet(Unknown(log))
  BY <1>1, <1>2, FS_Subset
<1> QED BY <1>3, FS_CardinalityType

\* A set within a finite one with one more element has at most one more.
LEMMA OneMore ==
    ASSUME NEW S, IsFiniteSet(S), NEW x, NEW T, T \subseteq S \cup {x}
    PROVE  Cardinality(T) <= Cardinality(S) + 1
<1>1. /\ IsFiniteSet(S \cup {x})
      /\ Cardinality(S \cup {x}) = IF x \in S THEN Cardinality(S) ELSE Cardinality(S) + 1
  BY FS_AddElement
<1>2. Cardinality(T) <= Cardinality(S \cup {x})
  BY <1>1, FS_Subset
<1>3. Cardinality(S) \in Nat /\ Cardinality(T) \in Nat
  <2>1. IsFiniteSet(T)
    BY <1>1, FS_Subset
  <2> QED BY <2>1, FS_CardinalityType
<1> QED BY <1>1, <1>2, <1>3

\* Disposing of an entry removes it from those that lead on.
LEMMA LeadingShrinks ==
    ASSUME NEW log \in Seq(Envelope), NEW done \in Nat, NEW more \in Nat, done <= more,
           NEW a \in Nat
    PROVE  Leading(log, more, a) \subseteq Leading(log, done, a)
  BY DEF Leading

\* Taking one entry back brings at most that entry back.
LEMMA LeadingRegains ==
    ASSUME NEW log \in Seq(Envelope), NEW done \in Nat, NEW fewer \in Nat, done <= fewer + 1,
           NEW a \in Nat
    PROVE  Leading(log, fewer, a) \subseteq Leading(log, done, a) \cup {fewer + 1}
  BY DEF Leading

\* Appending adds at most the entry appended, and only to the sets it is for.
LEMMA LeadingAppends ==
    ASSUME NEW log \in Seq(Envelope), NEW e \in Envelope, NEW done \in Nat, NEW a \in Nat
    PROVE  /\ Leading(Append(log, e), done, a) \subseteq Leading(log, done, a) \cup {Len(log) + 1}
           /\ e.schema # EnvelopeSchema \/ e.attempts > a =>
                Leading(Append(log, e), done, a) \subseteq Leading(log, done, a)
           /\ Unknown(Append(log, e)) \subseteq Unknown(log) \cup {Len(log) + 1}
           /\ e.schema = EnvelopeSchema => Unknown(Append(log, e)) \subseteq Unknown(log)
<1> DEFINE t == Append(log, e)
<1>1. /\ Len(t) = Len(log) + 1 /\ Len(log) \in Nat
      /\ t[Len(log) + 1] = e
      /\ \A n \in 1 .. Len(log) : t[n] = log[n]
  OBVIOUS
<1>2. e.attempts \in Nat /\ e.schema \in Nat
  BY DEF Envelope, EnvelopeSchema, NewerSchema
<1> HIDE DEF t
<1>3. \A n \in 1 .. Len(t) : n \in 1 .. Len(log) \/ n = Len(log) + 1
  BY <1>1
<1>4. /\ Leading(t, done, a) \subseteq Leading(log, done, a) \cup {Len(log) + 1}
      /\ Unknown(t) \subseteq Unknown(log) \cup {Len(log) + 1}
  BY <1>1, <1>3 DEF Leading, Unknown
<1>5. ASSUME e.schema # EnvelopeSchema \/ e.attempts > a
      PROVE  Len(log) + 1 \notin Leading(t, done, a)
  BY <1>1, <1>2, <1>5 DEF Leading
<1>6. ASSUME e.schema = EnvelopeSchema
      PROVE  Len(log) + 1 \notin Unknown(t)
  BY <1>1, <1>6 DEF Unknown
<1> QED BY <1>4, <1>5, <1>6 DEF t

\* A pass put back takes the place of the entry it came from.
LEMMA LeadingReplaces ==
    ASSUME NEW log \in Seq(Envelope), NEW e \in Envelope, NEW done \in Nat, NEW a \in Nat,
           done + 1 \in 1 .. Len(log), log[done + 1].schema = EnvelopeSchema,
           e.attempts = log[done + 1].attempts + 1
    PROVE  Cardinality(Leading(Append(log, e), done + 1, a)) <= Cardinality(Leading(log, done, a))
<1>1. log[done + 1].attempts \in Nat
  <2>1. log[done + 1] \in Envelope
    OBVIOUS
  <2> QED BY <2>1 DEF Envelope
<1>2. CASE e.attempts > a
  <2>1. Leading(Append(log, e), done + 1, a) \subseteq Leading(log, done + 1, a)
    <3>1. done + 1 \in Nat /\ e.attempts \in Nat
      BY DEF Envelope
    <3>2. ~(e.attempts <= a)
      BY <1>2, <3>1
    <3> QED BY <3>1, <3>2, LeadingAppends
  <2>2. Leading(log, done + 1, a) \subseteq Leading(log, done, a)
    BY LeadingShrinks
  <2> QED BY <2>1, <2>2, LeadingFinite, FS_Subset
<1>3. CASE e.attempts <= a
  <2> DEFINE S == Leading(log, done, a)
             T == Leading(log, done + 1, a)
  <2>1. done + 1 \in S /\ done + 1 \notin T
    BY <1>1, <1>3 DEF Leading
  <2>2. T \subseteq S
    BY LeadingShrinks
  <2>3. IsFiniteSet(S) /\ Cardinality(S) \in Nat
    BY LeadingFinite
  <2>4. IsFiniteSet(T) /\ Cardinality(T) \in Nat
    <3>1. done + 1 \in Nat
      OBVIOUS
    <3> QED BY <3>1, LeadingFinite
  <2>5. Leading(Append(log, e), done + 1, a) \subseteq T \cup {Len(log) + 1}
    <3>1. done + 1 \in Nat
      OBVIOUS
    <3> QED BY <3>1, LeadingAppends
  <2>6. Cardinality(Leading(Append(log, e), done + 1, a)) <= Cardinality(T) + 1
    BY <2>4, <2>5, OneMore
  <2>7. Cardinality(T) + 1 <= Cardinality(S)
    <3>1. T \in SUBSET S /\ T # S
      BY <2>1, <2>2
    <3>2. Cardinality(T) <= Cardinality(S) /\ Cardinality(T) # Cardinality(S)
      BY <2>3, <3>1, FS_Subset
    <3> HIDE DEF S, T
    <3> QED BY <2>3, <2>4, <3>2
  <2>8. Cardinality(Leading(Append(log, e), done + 1, a)) \in Nat
    <3>1. Append(log, e) \in Seq(Envelope) /\ done + 1 \in Nat
      OBVIOUS
    <3> QED BY <3>1, LeadingFinite
  <2> HIDE DEF S, T
  <2> QED BY <2>3, <2>4, <2>6, <2>7, <2>8 DEF S
<1> QED
  <2>1. e.attempts \in Nat
    BY DEF Envelope
  <2> QED BY <1>2, <1>3, <2>1
\* What TypeOK says of the offsets a process works with.
LEMMA OffsetsType ==
    ASSUME TypeOK, NEW p \in Processes
    PROVE  /\ pc \in [Processes -> PcValues]
           /\ committed \in [Processes -> Nat] /\ position \in [Processes -> Nat]
           /\ spent \in [Disturbances -> Nat]
           /\ Disposed(p) \in Nat
           /\ InFlight(p) => position[p] = committed[p] + 1
           /\ pc[p] # "commit" => Disposed(p) = committed[p]
           /\ pc[p] = "commit" => Disposed(p) = position[p]
<1>1. InFlight(p) => position[p] = committed[p] + 1
  BY DEF TypeOK, OffsetsOK
<1>2. /\ pc \in [Processes -> PcValues]
      /\ committed \in [Processes -> Nat] /\ position \in [Processes -> Nat]
      /\ spent \in [Disturbances -> Nat]
  BY DEF TypeOK, OffsetsOK, HandlersOK
<1>3. committed[p] \in Nat
  BY <1>2
<1> QED BY <1>1, <1>2, <1>3 DEF Disposed, InFlight

\* A process takes a record back only by crashing.
LEMMA StepDisposes ==
    ASSUME TypeOK, NEW p \in {"worker", "retrier"},
           IF p = "worker" THEN WorkerMoves ELSE RetrierMoves
    PROVE  /\ spent'["foreign"] = spent["foreign"]
           /\ \/ /\ Disposed(p)' >= Disposed(p) /\ spent'["crash"] = spent["crash"]
                 /\ retry' # retry => Disposed(p)' = Disposed(p) + 1
              \/ /\ Disposed(p)' + 1 >= Disposed(p) /\ spent'["crash"] = spent["crash"] + 1
                 /\ retry' = retry
           /\ retry' # retry => \E n : PublishFailure(p, n)
<1>1. /\ pc \in [Processes -> PcValues]
      /\ committed \in [Processes -> Nat] /\ position \in [Processes -> Nat]
      /\ spent \in [Disturbances -> Nat] /\ p \in Processes
      /\ InFlight(p) => position[p] = committed[p] + 1
  BY OffsetsType DEF Processes
<1>2. committed[p] \in Nat /\ position[p] \in Nat /\ spent["crash"] \in Nat
  BY <1>1 DEF Disturbances
<1>3. CASE (\E n : PublishFailure(p, n)) \/ Park(p)
  BY <1>1, <1>2, <1>3 DEF PublishFailure, Park, Disposed, InFlight, consumer
<1>4. CASE Commit(p) \/ CommitAndTrip(p)
  BY <1>1, <1>2, <1>4 DEF Commit, CommitAndTrip, Proceed, GoDown, Disposed, InFlight, topics
<1>5. CASE Restart(p) \/ DropConn(p)
  BY <1>1, <1>2, <1>5, SMTT(30)
     DEF Restart, DropConn, Spend, Disturbances, Disposed, consumer, handler, topics
<1>6. CASE Classify(p, "writeFailed") \/ WriteFailed(p)
  BY <1>1, <1>2, <1>6
     DEF Classify, WriteFailed, UseClosedConnection, Proceed, Disposed, consumer, topics
<1>7. CASE WriteVerdict(p, "park") \/ WriteUnacknowledged(p)
  BY <1>1, <1>2, <1>7
     DEF WriteVerdict, WriteUnacknowledged, UseClosedConnection, Proceed, Spend, Disturbances,
         Disposed, consumer, handler, topics
<1>8. CASE (\E step, result : Receive(p, step, result)) \/ (CheckStatus /\ p = "worker")
  BY <1>1, <1>2, <1>8
     DEF Receive, CheckStatus, UseClosedConnection, Proceed, Disposed, consumer, topics
<1>9. CASE Crash(p) \/ ClassifyEscapes(p)
  BY <1>1, <1>2, <1>9
     DEF Crash, ClassifyEscapes, GoDown, Spend, Disturbances, Disposed, topics
<1>10. CASE p = "worker"
  BY <1>3, <1>4, <1>5, <1>6, <1>7, <1>8, <1>9, <1>10
     DEF WorkerMoves, WorkerStep, WorkerDisturbance, WorkerReceive, WorkerPublish
<1>11. CASE p = "retrier"
  <2>1. RetrierPublish => \E n : PublishFailure("retrier", n)
    BY DEF RetrierPublish, PublishFailure
  <2>2. RetrierMoves
    BY <1>11
  <2> QED
    BY <1>3, <1>4, <1>5, <1>6, <1>7, <1>8, <1>9, <1>11, <2>1, <2>2
       DEF RetrierMoves, RetrierStep, RetrierDisturbance, RetrierReceive
<1> QED BY <1>10, <1>11

\* The sweeper never writes the retry topic.
LEMMA SweeperHandsOver ==
    ASSUME TypeOK, SweeperMoves
    PROVE  /\ retry' = retry
           /\ spent["crash"] <= spent'["crash"]
           /\ spent'["foreign"] = spent["foreign"]
  BY DEF TypeOK, Disturbances, topics, SweeperMoves,
         SweeperStep, SweepReceive, Receive, Classify, WriteVerdict,
         SweepRequeue, SweepCommit, SweepFinish, SweepStart, Spend,
         SweeperDisturbance, Crash, ClassifyEscapes, DropConn, WriteUnacknowledged

\* What a step can do to the retry topic: leave it, at most by taking an entry
\* back at the price of a crash ...
Rests ==
    /\ retry' = retry
    /\ HandOvers' >= HandOvers /\ Disposed("retrier")' >= Disposed("retrier")
    /\ spent'["foreign"] >= spent["foreign"]

Repeats ==
    /\ retry' = retry
    /\ HandOvers' >= HandOvers + 1 /\ Disposed("retrier")' + 1 >= Disposed("retrier")
    /\ spent'["foreign"] >= spent["foreign"]

\* ... hand over a raw record, put back an entry, or bring an unknown one.
FirstPass(e) ==
    /\ e.schema = EnvelopeSchema /\ e.attempts = 1
    /\ HandOvers' >= HandOvers + 1 /\ Disposed("retrier")' >= Disposed("retrier")
    /\ spent'["foreign"] >= spent["foreign"]

NextPass(e) ==
    /\ Disposed("retrier") + 1 \in 1 .. Len(retry)
    /\ retry[Disposed("retrier") + 1].schema = EnvelopeSchema
    /\ e.schema = EnvelopeSchema
    /\ e.attempts = retry[Disposed("retrier") + 1].attempts + 1
    /\ HandOvers' >= HandOvers /\ Disposed("retrier")' = Disposed("retrier") + 1
    /\ spent'["foreign"] >= spent["foreign"]

NewerPass(e) ==
    /\ e.schema # EnvelopeSchema /\ e.attempts = 1
    /\ HandOvers' >= HandOvers /\ Disposed("retrier")' >= Disposed("retrier")
    /\ spent'["foreign"] >= spent["foreign"] + 1

Passes ==
    \/ Rests
    \/ Repeats
    \/ \E e : retry' = Append(retry, e) /\ (FirstPass(e) \/ NextPass(e) \/ NewerPass(e))

\* The counts of a state are numbers.
LEMMA CountsType ==
    ASSUME TypeOK
    PROVE  /\ Disposed("worker") \in Nat /\ Disposed("retrier") \in Nat
           /\ HandOvers \in Nat
           /\ spent["crash"] \in Nat /\ spent["foreign"] \in Nat
<1>1. Disposed("worker") \in Nat /\ Disposed("retrier") \in Nat
  BY OffsetsType DEF Processes
<1>2. spent["crash"] \in Nat /\ spent["foreign"] \in Nat
  BY DEF TypeOK, Disturbances
<1> QED BY <1>1, <1>2 DEF HandOvers

\* Every step does one of these.
LEMMA NextPasses ==
    ASSUME OutboxInv, TypeOK', [Next]_vars
    PROVE  Passes
<1> USE DEF Passes
<1>1. TypeOK
  BY DEF OutboxInv
<1>2. /\ Disposed("worker") \in Nat /\ Disposed("retrier") \in Nat /\ HandOvers \in Nat
      /\ spent["crash"] \in Nat /\ spent["foreign"] \in Nat
  BY <1>1, CountsType
<1>3. /\ Disposed("worker")' \in Nat /\ Disposed("retrier")' \in Nat /\ HandOvers' \in Nat
      /\ spent'["crash"] \in Nat /\ spent'["foreign"] \in Nat
  <2>1. committed' \in [Processes -> Nat] /\ spent' \in [Disturbances -> Nat]
    BY DEF TypeOK, OffsetsOK
  <2>2. /\ committed'["worker"] \in Nat /\ committed'["retrier"] \in Nat
        /\ spent'["crash"] \in Nat /\ spent'["foreign"] \in Nat
    BY <2>1 DEF Processes, Disturbances
  <2> QED BY <2>2 DEF Disposed, HandOvers
<1>4. /\ HandOvers = Disposed("worker") + spent["crash"]
      /\ HandOvers' = Disposed("worker")' + spent'["crash"]
  BY DEF HandOvers
<1>5. CASE WorkerMoves
  <2>1. Disposed("retrier")' = Disposed("retrier")
    BY <1>1, <1>5, WorkerMovesAlone DEF Undisturbed, Disposed
  <2>2. /\ spent'["foreign"] = spent["foreign"]
        /\ \/ /\ Disposed("worker")' >= Disposed("worker") /\ spent'["crash"] = spent["crash"]
              /\ retry' # retry => Disposed("worker")' = Disposed("worker") + 1
           \/ /\ Disposed("worker")' + 1 >= Disposed("worker")
              /\ spent'["crash"] = spent["crash"] + 1
              /\ retry' = retry
    BY <1>1, <1>5, StepDisposes
  <2>3. CASE retry' = retry
    <3>1. \/ Disposed("worker")' >= Disposed("worker") /\ spent'["crash"] = spent["crash"]
          \/ /\ Disposed("worker")' + 1 >= Disposed("worker")
             /\ spent'["crash"] = spent["crash"] + 1
      BY <2>2
    <3>2. HandOvers' >= HandOvers
      BY <1>2, <1>3, <1>4, <3>1
    <3> QED BY <1>2, <2>1, <2>2, <2>3, <3>2 DEF Rests
  <2>4. CASE retry' # retry
    <3>1. PICK e : retry' = Append(retry, e) /\ e.schema = EnvelopeSchema /\ e.attempts = 1
      BY <1>5, <2>4
         DEF WorkerMoves, WorkerStep, WorkerReceive, Receive, CheckStatus, Classify, WriteVerdict,
             WriteFailed, WorkerPublish, PublishFailure, Park, Commit, CommitAndTrip, Restart,
             WorkerDisturbance, Crash, ClassifyEscapes, DropConn, WriteUnacknowledged, topics,
             MakeEnvelope
    <3>2. HandOvers' >= HandOvers + 1
      BY <1>2, <1>3, <1>4, <2>2, <2>4
    <3>3. FirstPass(e)
      BY <1>2, <2>1, <2>2, <3>1, <3>2 DEF FirstPass
    <3> QED BY <3>1, <3>3
  <2> QED BY <2>3, <2>4
<1>6. CASE RetrierMoves
  <2>1. Disposed("worker")' = Disposed("worker")
    BY <1>1, <1>6, RetrierMovesAlone DEF Undisturbed, Disposed
  <2>2. /\ spent'["foreign"] = spent["foreign"]
        /\ \/ /\ Disposed("retrier")' >= Disposed("retrier") /\ spent'["crash"] = spent["crash"]
              /\ retry' # retry => Disposed("retrier")' = Disposed("retrier") + 1
           \/ /\ Disposed("retrier")' + 1 >= Disposed("retrier")
              /\ spent'["crash"] = spent["crash"] + 1
              /\ retry' = retry
    BY <1>1, <1>6, StepDisposes
  <2>3. CASE retry' = retry
    <3>1. CASE spent'["crash"] = spent["crash"] /\ Disposed("retrier")' >= Disposed("retrier")
      BY <1>2, <1>3, <1>4, <2>1, <2>2, <2>3, <3>1 DEF Rests
    <3>2. CASE spent'["crash"] = spent["crash"] + 1 /\ Disposed("retrier")' + 1 >= Disposed("retrier")
      BY <1>2, <1>3, <1>4, <2>1, <2>2, <2>3, <3>2 DEF Repeats
    <3> QED BY <2>2, <3>1, <3>2
  <2>4. CASE retry' # retry
    <3>1. RetrierPublish
      BY <1>6, <2>4
         DEF RetrierMoves, RetrierStep, RetrierReceive, Receive, Classify, WriteVerdict,
             WriteFailed, Park, Commit, CommitAndTrip, Restart,
             RetrierDisturbance, Crash, ClassifyEscapes, DropConn, WriteUnacknowledged, topics
    <3>2. pc["retrier"] = "publish" /\ outcome["retrier"] = "transient"
      BY <2>4, <3>1 DEF RetrierPublish, PublishFailure
    <3>3. PICK e : /\ retry' = Append(retry, e) /\ e.schema = EnvelopeSchema
                   /\ e.attempts = retry[position["retrier"]].attempts + 1
      BY <2>4, <3>1, <3>2
         DEF RetrierPublish, PublishFailure, RetrierAttempts, MakeEnvelope
    <3>4. InFlight("retrier") /\ "retrier" \in Processes
      BY <3>2 DEF InFlight, Processes
    <3>5. position["retrier"] = Disposed("retrier") + 1
      BY <1>1, <3>2, <3>4, OffsetsType
    <3>6. position["retrier"] \in 1 .. Len(retry)
      BY <1>1, <3>4, PayloadType DEF Topic
    <3>7. retry[position["retrier"]].schema = EnvelopeSchema
      BY <3>2, <3>4 DEF OutboxInv, ReadyToPublish, Classifiable
    <3>8. HandOvers' = HandOvers
      BY <1>4, <2>1, <2>2, <2>4
    <3>9. NextPass(e)
      BY <1>2, <2>2, <2>4, <3>3, <3>5, <3>6, <3>7, <3>8 DEF NextPass
    <3> QED BY <3>3, <3>9
  <2> QED BY <2>3, <2>4
<1>7. CASE SweeperMoves
  <2>1. Disposed("worker")' = Disposed("worker") /\ Disposed("retrier")' = Disposed("retrier")
    BY <1>1, <1>7, SweeperMovesAlone DEF Undisturbed, Disposed
  <2>2. /\ retry' = retry /\ spent["crash"] <= spent'["crash"]
        /\ spent'["foreign"] = spent["foreign"]
    BY <1>1, <1>7, SweeperHandsOver
  <2> QED BY <1>2, <1>3, <1>4, <2>1, <2>2 DEF Rests
<1>8. CASE Produces \/ UNCHANGED vars
  <2>1. Disposed("worker")' = Disposed("worker") /\ Disposed("retrier")' = Disposed("retrier")
    BY <1>8, ProducesAlone DEF Undisturbed, Disposed
  <2>2. CASE (\E x \in Payloads : Produce(x)) \/ UNCHANGED vars
    <3>1. retry' = retry /\ spent' = spent
      BY <2>2 DEF Produce, vars, topics
    <3> QED BY <1>2, <1>4, <2>1, <3>1 DEF Rests
  <2>3. ASSUME NEW x \in Edits, ProduceNewer(x)
        PROVE  Passes
    <3>1. spent'["crash"] = spent["crash"] /\ spent'["foreign"] = spent["foreign"] + 1
      BY <1>1, <2>3 DEF ProduceNewer, Spend, TypeOK, Disturbances
    <3>2. HandOvers' = HandOvers
      BY <1>4, <2>1, <3>1
    <3>3. CASE retry' = retry
      BY <1>2, <2>1, <3>1, <3>2, <3>3 DEF Rests
    <3>4. CASE retry' = Append(retry, NewerEnvelope(x))
      <4>1. PICK e : e = NewerEnvelope(x)
        OBVIOUS
      <4>2. e.schema # EnvelopeSchema /\ e.attempts = 1
        BY <4>1 DEF NewerEnvelope, MakeEnvelope, EnvelopeSchema, NewerSchema
      <4>3. NewerPass(e)
        BY <1>2, <2>1, <3>1, <3>2, <4>2 DEF NewerPass
      <4> QED BY <3>4, <4>1, <4>3
    <3> QED BY <2>3, <3>3, <3>4 DEF ProduceNewer
  <2> QED BY <1>8, <2>2, <2>3 DEF Produces
<1> QED
  BY <1>5, <1>6, <1>7, <1>8
     DEF Next, Environment, WorkerMoves, RetrierMoves, SweeperMoves, Produces
\* So the counts of entries stay within what was handed over.
LEMMA LineageStep ==
    ASSUME OutboxInv, LineageOK, TypeOK', [Next]_vars
    PROVE  LineageOK'
<1> DEFINE d == Disposed("retrier")
           h == HandOvers
           f == spent["foreign"]
<1>1. d \in Nat /\ h \in Nat /\ f \in Nat
  BY CountsType DEF OutboxInv
<1>2. PICK d2 \in Nat, h2 \in Nat, f2 \in Nat :
        d2 = Disposed("retrier")' /\ h2 = HandOvers' /\ f2 = spent'["foreign"]
  <2>1. committed' \in [Processes -> Nat] /\ spent' \in [Disturbances -> Nat]
    BY DEF TypeOK, OffsetsOK
  <2>2. /\ committed'["worker"] \in Nat /\ committed'["retrier"] \in Nat
        /\ spent'["crash"] \in Nat /\ spent'["foreign"] \in Nat
    BY <2>1 DEF Processes, Disturbances
  <2> QED BY <2>2 DEF Disposed, HandOvers
<1>3. PICK s \in Seq(Envelope), t \in Seq(Envelope) : s = retry /\ t = retry'
  BY DEF OutboxInv, TypeOK, TopicsOK
<1>4. /\ \A n \in 1 .. Len(s) : s[n].attempts >= 1
      /\ \A a \in 1 .. MaxRetryPasses : Cardinality(Leading(s, d, a)) <= h
      /\ Cardinality(Unknown(s)) <= f
  BY <1>3 DEF LineageOK
<1>5. SUFFICES /\ \A n \in 1 .. Len(t) : t[n].attempts >= 1
               /\ \A a \in 1 .. MaxRetryPasses : Cardinality(Leading(t, d2, a)) <= h2
               /\ Cardinality(Unknown(t)) <= f2
  BY <1>2, <1>3 DEF LineageOK
<1>6. \A n \in 1 .. Len(s) : s[n] \in Envelope /\ s[n].attempts \in Nat
  <2>1. \A n \in 1 .. Len(s) : s[n] \in Envelope
    OBVIOUS
  <2> QED BY <2>1 DEF Envelope
<1>7. ASSUME NEW a \in 1 .. MaxRetryPasses
      PROVE  /\ IsFiniteSet(Leading(s, d, a)) /\ IsFiniteSet(Leading(s, d2, a))
             /\ Cardinality(Leading(s, d, a)) \in Nat
             /\ Cardinality(Leading(t, d2, a)) \in Nat
             /\ Cardinality(Leading(s, d, a)) <= h
  <2>1. a \in Nat
    BY MaxRetryPassesAssumption
  <2> QED BY <1>1, <1>2, <1>4, <2>1, LeadingFinite
<1>8. /\ IsFiniteSet(Unknown(s)) /\ Cardinality(Unknown(s)) \in Nat
       /\ Cardinality(Unknown(t)) \in Nat
  BY <1>1, LeadingFinite
<1> HIDE DEF d, h, f
<1>9. CASE Rests
  <2>1. t = s /\ h2 >= h /\ d2 >= d /\ f2 >= f
    BY <1>2, <1>3, <1>9 DEF Rests, d, h, f
  <2>2. ASSUME NEW a \in 1 .. MaxRetryPasses
        PROVE  Cardinality(Leading(t, d2, a)) <= h2
    <3>1. Leading(s, d2, a) \subseteq Leading(s, d, a)
      BY <1>1, <2>1, LeadingShrinks, MaxRetryPassesAssumption
    <3>2. Cardinality(Leading(s, d2, a)) <= Cardinality(Leading(s, d, a))
      BY <1>1, <1>7, <3>1, FS_Subset
    <3> QED BY <1>1, <1>7, <2>1, <3>2
  <2> QED BY <1>1, <1>4, <1>8, <2>1, <2>2
<1>10. CASE Repeats
  <2>1. t = s /\ h2 >= h + 1 /\ d2 + 1 >= d /\ f2 >= f
    BY <1>2, <1>3, <1>10 DEF Repeats, d, h, f
  <2>2. ASSUME NEW a \in 1 .. MaxRetryPasses
        PROVE  Cardinality(Leading(t, d2, a)) <= h2
    <3>1. Leading(s, d2, a) \subseteq Leading(s, d, a) \cup {d2 + 1}
      BY <1>1, <2>1, LeadingRegains, MaxRetryPassesAssumption
    <3>2. Cardinality(Leading(s, d2, a)) <= Cardinality(Leading(s, d, a)) + 1
      BY <1>1, <1>7, <3>1, OneMore
    <3> QED BY <1>1, <1>7, <2>1, <3>2
  <2> QED BY <1>1, <1>4, <1>8, <2>1, <2>2
<1>11. ASSUME NEW e, t = Append(s, e), FirstPass(e) \/ NextPass(e) \/ NewerPass(e)
       PROVE  /\ \A n \in 1 .. Len(t) : t[n].attempts >= 1
              /\ \A a \in 1 .. MaxRetryPasses : Cardinality(Leading(t, d2, a)) <= h2
              /\ Cardinality(Unknown(t)) <= f2
  <2>1. e \in Envelope
    <3>1. Len(s) \in Nat /\ Len(t) = Len(s) + 1 /\ t[Len(s) + 1] = e
      <4>1. s \in Seq(Envelope \cup {e})
        OBVIOUS
      <4> QED BY <1>11, <4>1
    <3>2. Len(s) + 1 \in 1 .. Len(t)
      BY <3>1
    <3>3. \A n \in 1 .. Len(t) : t[n] \in Envelope
      OBVIOUS
    <3> QED BY <3>1, <3>2, <3>3
  <2>2. e.attempts >= 1
    <3>1. NextPass(e) => e.attempts >= 1
      <4>1. NextPass(e) => d + 1 \in 1 .. Len(s) /\ e.attempts = s[d + 1].attempts + 1
        BY <1>3 DEF NextPass, d
      <4> QED BY <1>6, <4>1
    <3> QED BY <1>11, <3>1 DEF FirstPass, NewerPass
  <2>3. ASSUME NEW n \in 1 .. Len(t)
        PROVE  t[n].attempts >= 1
    <3>1. (n \in 1 .. Len(s) /\ t[n] = s[n]) \/ t[n] = e
      BY <1>11, EntryOrigin
    <3> QED BY <1>4, <2>2, <3>1
  <2>4. CASE FirstPass(e)
    <3>1. e.schema = EnvelopeSchema /\ h2 >= h + 1 /\ d2 >= d /\ f2 >= f
      BY <1>2, <2>4 DEF FirstPass, d, h, f
    <3>2. ASSUME NEW a \in 1 .. MaxRetryPasses
          PROVE  Cardinality(Leading(t, d2, a)) <= h2
      <4>1. Leading(s, d2, a) \subseteq Leading(s, d, a)
        BY <1>1, <3>1, LeadingShrinks, MaxRetryPassesAssumption
      <4>2. Leading(t, d2, a) \subseteq Leading(s, d2, a) \cup {Len(s) + 1}
        BY <1>11, <2>1, LeadingAppends, MaxRetryPassesAssumption
      <4>3. Cardinality(Leading(t, d2, a)) <= Cardinality(Leading(s, d, a)) + 1
        <5>1. Leading(t, d2, a) \subseteq Leading(s, d, a) \cup {Len(s) + 1}
          BY <4>1, <4>2
        <5> QED BY <1>1, <1>7, <5>1, OneMore
      <4> QED BY <1>1, <1>7, <3>1, <4>3
    <3>3. Cardinality(Unknown(t)) <= f2
      <4>1. Unknown(t) \subseteq Unknown(s)
        BY <1>1, <1>11, <2>1, <3>1, LeadingAppends
      <4>2. Cardinality(Unknown(t)) <= Cardinality(Unknown(s))
        BY <4>1, <1>8, FS_Subset
      <4> QED BY <1>1, <1>4, <1>8, <3>1, <4>2
    <3> QED BY <2>3, <3>2, <3>3
  <2>5. CASE NextPass(e)
    <3>1. /\ d + 1 \in 1 .. Len(s) /\ s[d + 1].schema = EnvelopeSchema
          /\ e.schema = EnvelopeSchema /\ e.attempts = s[d + 1].attempts + 1
          /\ h2 >= h /\ d2 = d + 1 /\ f2 >= f
      BY <1>2, <1>3, <2>5 DEF NextPass, d, h, f
    <3>2. ASSUME NEW a \in 1 .. MaxRetryPasses
          PROVE  Cardinality(Leading(t, d2, a)) <= h2
      <4>1. Cardinality(Leading(t, d2, a)) <= Cardinality(Leading(s, d, a))
        BY <1>1, <1>11, <2>1, <3>1, LeadingReplaces, MaxRetryPassesAssumption
      <4> QED BY <1>1, <1>7, <3>1, <4>1
    <3>3. Cardinality(Unknown(t)) <= f2
      <4>1. Unknown(t) \subseteq Unknown(s)
        BY <1>1, <1>11, <2>1, <3>1, LeadingAppends
      <4>2. Cardinality(Unknown(t)) <= Cardinality(Unknown(s))
        BY <4>1, <1>8, FS_Subset
      <4> QED BY <1>1, <1>4, <1>8, <3>1, <4>2
    <3> QED BY <2>3, <3>2, <3>3
  <2>6. CASE NewerPass(e)
    <3>1. e.schema # EnvelopeSchema /\ h2 >= h /\ d2 >= d /\ f2 >= f + 1
      BY <1>2, <2>6 DEF NewerPass, d, h, f
    <3>2. ASSUME NEW a \in 1 .. MaxRetryPasses
          PROVE  Cardinality(Leading(t, d2, a)) <= h2
      <4>1. Leading(s, d2, a) \subseteq Leading(s, d, a)
        BY <1>1, <3>1, LeadingShrinks, MaxRetryPassesAssumption
      <4>2. Leading(t, d2, a) \subseteq Leading(s, d2, a)
        BY <1>11, <2>1, <3>1, LeadingAppends, MaxRetryPassesAssumption
      <4>3. Cardinality(Leading(t, d2, a)) <= Cardinality(Leading(s, d, a))
        BY <1>1, <1>7, <4>1, <4>2, FS_Subset
      <4> QED BY <1>1, <1>7, <3>1, <4>3
    <3>3. Cardinality(Unknown(t)) <= f2
      <4>1. Unknown(t) \subseteq Unknown(s) \cup {Len(s) + 1}
        BY <1>1, <1>11, <2>1, LeadingAppends
      <4>2. Cardinality(Unknown(t)) <= Cardinality(Unknown(s)) + 1
        BY <4>1, <1>8, OneMore
      <4> QED BY <1>1, <1>4, <1>8, <3>1, <4>2
    <3> QED BY <2>3, <3>2, <3>3
  <2> QED BY <1>11, <2>4, <2>5, <2>6
<1>12. ASSUME NEW e, retry' = Append(retry, e), FirstPass(e) \/ NextPass(e) \/ NewerPass(e)
       PROVE  /\ \A n \in 1 .. Len(t) : t[n].attempts >= 1
              /\ \A a \in 1 .. MaxRetryPasses : Cardinality(Leading(t, d2, a)) <= h2
              /\ Cardinality(Unknown(t)) <= f2
  <2>1. t = Append(s, e)
    BY <1>3, <1>12
  <2> QED BY <1>11, <1>12, <2>1
<1>13. Passes
  BY NextPasses
<1> QED BY <1>9, <1>10, <1>12, <1>13 DEF Passes
\* Entries with a known schema are as many as their pass numbers and their
\* places among the entries of their pass number can distinguish.
LEMMA KnownEntries ==
    ASSUME NEW log \in Seq(Envelope), NEW k \in Nat, NEW m \in Nat, NEW done \in Nat,
           \A n \in 1 .. Len(log) : log[n].schema = EnvelopeSchema => log[n].attempts \in 1 .. k,
           \A a \in 1 .. k : Cardinality(Leading(log, done, a)) <= m
    PROVE  Cardinality((1 .. Len(log)) \ Unknown(log)) <= k * m
<1> DEFINE Known == {n \in 1 .. Len(log) : log[n].schema = EnvelopeSchema}
           Before(n) == {j \in 1 .. n : /\ log[j].schema = EnvelopeSchema
                                       /\ log[j].attempts = log[n].attempts}
           place == [n \in Known |-> <<log[n].attempts, Cardinality(Before(n))>>]
           Places == (1 .. k) \X (1 .. m)
<1>1. Known = (1 .. Len(log)) \ Unknown(log)
  BY DEF Unknown
<1>2. \A n \in Known : n \in Nat /\ n \in 1 .. Len(log) /\ log[n].attempts \in 1 .. k
  OBVIOUS
<1>3. ASSUME NEW n \in Known
      PROVE  /\ IsFiniteSet(Before(n)) /\ n \in Before(n)
             /\ Cardinality(Before(n)) \in 1 .. m
  <2>1. IsFiniteSet(1 .. n) /\ Before(n) \in SUBSET (1 .. n)
    BY <1>2, FS_Interval
  <2>2. IsFiniteSet(Before(n)) /\ Cardinality(Before(n)) \in Nat
    BY <2>1, FS_Subset, FS_CardinalityType
  <2>3. n \in Before(n)
    BY <1>2
  <2>4. Cardinality(Before(n)) # 0
    BY <2>2, <2>3, FS_EmptySet
  <2>5. PICK a \in 1 .. k : a = log[n].attempts
    BY <1>2
  <2>6. a \in Nat
    OBVIOUS
  <2>7. Before(n) \in SUBSET Leading(log, done, a)
    BY <1>2, <2>5 DEF Leading
  <2>8. /\ IsFiniteSet(Leading(log, done, a)) /\ Cardinality(Leading(log, done, a)) \in Nat
        /\ Cardinality(Leading(log, done, a)) <= m
    BY <2>5, <2>6, LeadingFinite
  <2>9. Cardinality(Before(n)) <= Cardinality(Leading(log, done, a))
    BY <2>7, <2>8, FS_Subset
  <2> HIDE DEF Before
  <2> QED BY <2>2, <2>3, <2>4, <2>8, <2>9
<1>4. ASSUME NEW n \in Known, NEW j \in Known, n < j, place[n] = place[j]
      PROVE  FALSE
  <2>1. log[n].attempts = log[j].attempts /\ Cardinality(Before(n)) = Cardinality(Before(j))
    BY <1>4
  <2>2. Before(n) \subseteq Before(j) /\ j \notin Before(n)
    BY <1>2, <1>4, <2>1
  <2>3. Before(n) \in SUBSET Before(j) /\ Before(n) # Before(j)
    BY <1>3, <2>2
  <2> QED BY <1>3, <2>1, <2>3, FS_Subset
<1>5. place \in Injection(Known, Places)
  <2>1. place \in [Known -> Places]
    BY <1>2, <1>3
  <2>2. \A n, j \in Known : n < j \/ j < n \/ n = j
    BY <1>2
  <2>3. \A n, j \in Known : place[n] = place[j] => n = j
    BY <1>4, <2>2
  <2> QED BY <2>1, <2>3 DEF Injection, IsInjective
<1>6. IsFiniteSet(Places) /\ Cardinality(Places) = k * m
  <2>1. /\ IsFiniteSet(1 .. k) /\ Cardinality(1 .. k) = k
        /\ IsFiniteSet(1 .. m) /\ Cardinality(1 .. m) = m
    BY FS_Interval
  <2> QED BY <2>1, FS_Product
<1> HIDE DEF place, Places, Known
<1> QED BY <1>1, <1>5, <1>6, FS_Injection
\* What was handed over bounds the retry topic.
LEMMA LineageBounds ==
    ASSUME AmplificationInv
    PROVE  AmplificationBounded
<1> DEFINE k == MaxRetryPasses
           m == Len(raw) + spent["crash"]
           d == Disposed("retrier")
           f == spent["foreign"]
<1>1. TypeOK /\ retry \in Seq(Envelope) /\ Len(raw) \in Nat /\ Len(retry) \in Nat
  BY DEF AmplificationInv, OutboxInv, TypeOK, TopicsOK
<1>2. /\ Disposed("worker") \in Nat /\ d \in Nat /\ HandOvers \in Nat
      /\ spent["crash"] \in Nat /\ f \in Nat /\ k \in Nat /\ m \in Nat
  BY <1>1, CountsType, MaxRetryPassesAssumption
<1>3. HandOvers <= m
  <2>1. "worker" \in Processes /\ Topic("worker") = raw
    BY DEF Processes, Topic
  <2>2. Disposed("worker") <= position["worker"] /\ position["worker"] \in Nat
    <3>1. /\ committed["worker"] \in Nat /\ position["worker"] \in Nat
          /\ pc["worker"] = "commit" => Disposed("worker") = position["worker"]
          /\ pc["worker"] # "commit" => Disposed("worker") = committed["worker"]
      BY <1>1, <2>1, OffsetsType
    <3>2. position["worker"]
              = committed["worker"] + (IF InFlight("worker") THEN 1 ELSE 0)
      BY <1>1, <2>1 DEF TypeOK, OffsetsOK
    <3> QED BY <3>1, <3>2
  <2>3. position["worker"] <= Len(raw)
    BY <1>1, <2>1 DEF TypeOK, OffsetsOK
  <2> QED BY <1>1, <1>2, <2>2, <2>3 DEF HandOvers
<1>4. ASSUME NEW n \in 1 .. Len(retry), retry[n].schema = EnvelopeSchema
      PROVE  retry[n].attempts \in 1 .. k
  <2>1. retry[n] \in Envelope
    BY <1>1
  <2>2. retry[n].attempts \in Nat
    BY <2>1 DEF Envelope
  <2>3. Classifiable(retry[n])
    BY <1>4
       DEF AmplificationInv, OutboxInv, RetryReasonsOK, Classifiable, TransientExhausted, Malformed
  <2>4. retry[n].attempts >= 1 /\ retry[n].attempts <= k
    BY <2>3 DEF AmplificationInv, OutboxInv, AttemptsBounded, LineageOK
  <2> QED BY <1>2, <2>2, <2>4
<1>5. ASSUME NEW a \in 1 .. k
      PROVE  Cardinality(Leading(retry, d, a)) <= m
  <2>1. a \in Nat
    BY <1>2
  <2>2. Cardinality(Leading(retry, d, a)) \in Nat
    BY <1>1, <1>2, <2>1, LeadingFinite
  <2>3. Cardinality(Leading(retry, d, a)) <= HandOvers
    BY DEF AmplificationInv, LineageOK
  <2> HIDE DEF m, d, k
  <2> QED BY <1>2, <1>3, <2>2, <2>3
<1> HIDE DEF k, m, d, f
<1>6. Cardinality((1 .. Len(retry)) \ Unknown(retry)) <= k * m
  BY <1>1, <1>2, <1>4, <1>5, KnownEntries
<1>7. Cardinality(Unknown(retry)) <= f
  BY DEF AmplificationInv, LineageOK, f
<1>8. Len(retry) <= Cardinality((1 .. Len(retry)) \ Unknown(retry)) + Cardinality(Unknown(retry))
  <2> DEFINE All == 1 .. Len(retry)
             U == Unknown(retry)
  <2>1. IsFiniteSet(All) /\ Cardinality(All) = Len(retry)
    <3>1. PICK l \in Nat : l = Len(retry)
      BY <1>1
    <3>2. IsFiniteSet(1 .. l) /\ Cardinality(1 .. l) = l
      BY FS_Interval
    <3> QED BY <3>1, <3>2
  <2>2. U \in SUBSET All /\ All \ U \in SUBSET All
    BY DEF Unknown
  <2> HIDE DEF All, U
  <2>3. IsFiniteSet(U) /\ IsFiniteSet(All \ U)
    BY <2>1, <2>2, FS_Subset
  <2>4. (All \ U) \cup U = All /\ (All \ U) \cap U = {}
    BY <2>2
  <2>5. Cardinality(All) = Cardinality(All \ U) + Cardinality(U) - Cardinality((All \ U) \cap U)
    BY <2>3, <2>4, FS_Union
  <2>6. Cardinality((All \ U) \cap U) = 0
    BY <2>4, FS_EmptySet
  <2>7. Cardinality(All \ U) \in Nat /\ Cardinality(U) \in Nat
    BY <2>3, FS_CardinalityType
  <2> QED BY <2>1, <2>5, <2>6, <2>7 DEF All, U
<1>9. Len(retry) <= k * m + f
  <2>1. /\ Cardinality((1 .. Len(retry)) \ Unknown(retry)) \in Nat
        /\ Cardinality(Unknown(retry)) \in Nat
    <3>1. Len(retry) \in Int
      BY <1>1
    <3>2. /\ (1 .. Len(retry)) \ Unknown(retry) \in SUBSET (1 .. Len(retry))
          /\ Unknown(retry) \in SUBSET (1 .. Len(retry))
      BY DEF Unknown
    <3>3. IsFiniteSet((1 .. Len(retry)) \ Unknown(retry)) /\ IsFiniteSet(Unknown(retry))
      <4>1. IsFiniteSet(1 .. Len(retry))
        BY <3>1, FS_Interval
      <4> QED BY <3>2, <4>1, FS_Subset
    <3> QED BY <3>3, FS_CardinalityType
  <2>2. PICK x \in Int : x = k * m
    BY <1>2
  <2> QED BY <1>1, <1>2, <1>6, <1>7, <1>8, <2>1, <2>2
<1> QED BY <1>9 DEF AmplificationBounded, k, m, f

\* The inductive invariant behind the bound on the retry topic, over all edits
\* together: the entries with a given number of passes, with those that can
\* still lead to one, are no more than the records handed over (one for each
\* record disposed of, one for each crash), and the entries of an unknown version
\* no more than newer producers published.
THEOREM AmplificationInvCorrect == Spec => []AmplificationInv
<1>1. Init => AmplificationInv
  <2> SUFFICES ASSUME Init PROVE AmplificationInv
    OBVIOUS
  <2>1. retry = <<>> /\ spent["foreign"] = 0
    BY DEF Init, ConsumersInit, Disturbances
  <2>2. /\ TypeInv
        /\ RowBeforeEnvelope /\ AttemptsBounded /\ RetryReasonsOK /\ ReadyToPublish
    BY TypeInit
       DEF Init, ConsumersInit, RowBeforeEnvelope, AttemptsBounded, RetryReasonsOK,
           ReadyToPublish, InFlight, Processes
  <2>3. OutboxInv
    BY <2>2 DEF OutboxInv, TypeInv
  <2>4. Unknown(retry) = {} /\ \A a : Leading(retry, Disposed("retrier"), a) = {}
    BY <2>1 DEF Unknown, Leading
  <2>5. HandOvers \in Nat
    BY <2>3, CountsType DEF OutboxInv
  <2>6. LineageOK
    <3>1. Cardinality(Unknown(retry)) = 0
      BY <2>4, FS_EmptySet
    <3>2. \A a : Cardinality(Leading(retry, Disposed("retrier"), a)) = 0
      BY <2>4, FS_EmptySet
    <3>3. 1 .. Len(retry) = {}
      BY <2>1
    <3> QED BY <2>1, <2>5, <3>1, <3>2, <3>3 DEF LineageOK
  <2> QED BY <2>3, <2>6 DEF AmplificationInv
<1>2. AmplificationInv /\ OutboxInv' /\ [Next]_vars => AmplificationInv'
  BY LineageStep DEF AmplificationInv, OutboxInv
<1> QED BY <1>1, <1>2, OutboxInvCorrect, PTL DEF Spec

\* An outage cannot feed itself: whatever crashes, is redelivered or published
\* twice, the retry topic is at most max_retry_passes envelopes long per record
\* produced and per crash, for every budget of passes and of crashes.
THEOREM AmplificationBoundedCorrect == Spec => []AmplificationBounded
<1>1. AmplificationInv => AmplificationBounded
  BY LineageBounds
<1> QED BY <1>1, AmplificationInvCorrect, PTL

---------------------------------------------------------------------------
(***************************************************************************)
(* What is written off, and why.                                           *)
(***************************************************************************)

\* The five variables of p that CauseOK(p) reads stay.
SameAt(p) ==
    /\ pc'[p] = pc[p] /\ outcome'[p] = outcome[p] /\ position'[p] = position[p]
    /\ conn'[p] = conn[p] /\ swapped'[p] = swapped[p]

\* The shared state only grows: a cause, once there, stays.
Onward == Grows /\ spent["drop"] <= spent'["drop"]

\* What may be appended to the DLQ.
HasCause(e) ==
    e.reason = Malformed =>
        \/ e.error = "decode" /\ Undecodable(e.payload)
        \/ e.error = "data" /\ Refusable(e.payload)
        \/ /\ e.error = "closed" /\ spent["drop"] > 0
           /\ \E m \in 1 .. Len(dlq) : ReportsRefusal(m)


\* Entries of the retry topic and of the DLQ stay where they are.
LEMMA EntriesStay ==
    ASSUME TopicsOK, TopicsOK', Grows
    PROVE  /\ Len(dlq) \in Nat /\ Len(dlq') \in Nat /\ Len(dlq) <= Len(dlq')
           /\ Len(retry) \in Nat /\ Len(retry') \in Nat /\ Len(retry) <= Len(retry')
           /\ \A n \in 1 .. Len(dlq) : dlq'[n] = dlq[n]
           /\ \A n \in 1 .. Len(retry) : retry'[n] = retry[n]
<1>1. /\ Topic("retrier") = retry /\ Topic("retrier")' = retry'
      /\ Topic("sweeper") = dlq /\ Topic("sweeper")' = dlq'
  BY DEF Topic
<1> QED BY <1>1 DEF Grows, Processes, TopicsOK

\* A cause stays one.
LEMMA CausesStay ==
    ASSUME TypeOK, TypeOK', Onward
    PROVE  /\ spent["drop"] > 0 => spent'["drop"] > 0
           /\ \A p \in Processes : Refused(p) => Refused(p)'
           /\ \A x : Undecodable(x) => Undecodable(x)'
           /\ \A m \in 1 .. Len(dlq) : ReportsRefusal(m) => ReportsRefusal(m)'
<1>1. /\ Len(dlq) \in Nat /\ Len(dlq') \in Nat /\ Len(dlq) <= Len(dlq')
      /\ Len(retry) \in Nat /\ Len(retry') \in Nat /\ Len(retry) <= Len(retry')
      /\ \A n \in 1 .. Len(dlq) : dlq'[n] = dlq[n]
      /\ \A n \in 1 .. Len(retry) : retry'[n] = retry[n]
  BY EntriesStay DEF TypeOK, Onward
<1>2. spent["drop"] > 0 => spent'["drop"] > 0
  BY DEF TypeOK, Disturbances, Onward
<1>3. \A m \in 1 .. Len(dlq) : ReportsRefusal(m) => ReportsRefusal(m)'
  BY <1>1 DEF ReportsRefusal
<1>4. \A p \in Processes : Refused(p) => Refused(p)'
  BY <1>1, <1>3 DEF Refused, Refusable
<1>5. \A x : Undecodable(x) => Undecodable(x)'
  BY <1>1 DEF Undecodable
<1> QED BY <1>2, <1>3, <1>4, <1>5

\* Nothing of p's changes: what it holds keeps its cause.
LEMMA SameStaysCaused ==
    ASSUME TypeOK, TypeOK', Onward, NEW p \in Processes, CauseOK(p), SameAt(p)
    PROVE  CauseOK(p)'
<1>1. InFlight(p) => InFlight(p)' /\ Payload(p)' = Payload(p)
  BY PayloadStays DEF InFlight, SameAt, Onward
<1>2. outcome[p] \in Rejections => Payload(p)' = Payload(p)
  BY <1>1 DEF CauseOK, InFlight
<1>3. PICK x, y : x = Payload(p) /\ y = Payload(p)'
  OBVIOUS
<1>4. Undecodable(x) => Undecodable(x)'
  BY CausesStay
<1> QED
  BY <1>1, <1>2, <1>3, <1>4, CausesStay
     DEF CauseOK, SameAt, Rejections, Refusable, Undecodable

\* The causes of the DLQ's entries, if what is appended has one.
LEMMA EntriesStayCaused ==
    ASSUME TypeOK, TypeOK', Onward, MalformedForCause,
           dlq' = dlq \/ \E e : dlq' = Append(dlq, e) /\ HasCause(e)
    PROVE  MalformedForCause'
<1>1. /\ Len(dlq) \in Nat /\ Len(dlq') \in Nat /\ Len(dlq) <= Len(dlq')
      /\ \A n \in 1 .. Len(dlq) : dlq'[n] = dlq[n]
  BY EntriesStay DEF TypeOK, Onward
<1>2. dlq \in Seq(Envelope) /\ dlq' \in Seq(Envelope)
  BY DEF TypeOK, TopicsOK
<1>3. SUFFICES ASSUME NEW n \in 1 .. Len(dlq'), dlq'[n].reason = Malformed
               PROVE  \/ dlq'[n].error = "decode" /\ Undecodable(dlq[n].payload)'
                      \/ dlq'[n].error = "data" /\ Refusable(dlq[n].payload)'
                      \/ /\ dlq'[n].error = "closed" /\ spent'["drop"] > 0
                         /\ \E m \in 1 .. n - 1 : ReportsRefusal(m)'
  BY DEF MalformedForCause
<1>4. PICK x : x = dlq'[n].payload
  OBVIOUS
<1>5. \/ dlq'[n].error = "decode" /\ Undecodable(x)
      \/ dlq'[n].error = "data" /\ Refusable(x)
      \/ /\ dlq'[n].error = "closed" /\ spent["drop"] > 0
         /\ \E m \in 1 .. n - 1 : m \in 1 .. Len(dlq) /\ ReportsRefusal(m)
  <2>1. CASE n \in 1 .. Len(dlq)
    BY <1>1, <1>3, <1>4, <2>1 DEF MalformedForCause
  <2>2. CASE n = Len(dlq) + 1
    <3>1. PICK e : dlq' = Append(dlq, e) /\ HasCause(e)
      BY <1>1, <2>2
    <3>2. dlq'[n] = e
      <4>1. dlq \in Seq(Envelope \cup {e})
        BY <1>2
      <4> QED BY <2>2, <3>1, <4>1
    <3> QED BY <1>1, <1>3, <1>4, <2>2, <3>1, <3>2 DEF HasCause
  <2>3. n \in 1 .. Len(dlq) \/ n = Len(dlq) + 1
    <3>1. Len(dlq') = Len(dlq) \/ Len(dlq') = Len(dlq) + 1
      <4>1. ASSUME NEW e, dlq' = Append(dlq, e)
            PROVE  Len(dlq') = Len(dlq) + 1
        <5>1. dlq \in Seq(Envelope \cup {e})
          BY <1>2
        <5> QED BY <4>1, <5>1
      <4> QED BY <4>1
    <3> QED BY <1>1, <3>1
  <2> QED BY <2>1, <2>2, <2>3
<1>6. Undecodable(x) => Undecodable(x)'
  BY CausesStay
<1> QED BY <1>4, <1>5, <1>6, CausesStay DEF Refusable, Undecodable

\* A step of p's own that keeps the causes.
Caused(p) ==
    /\ \A q \in Processes \ {p} : SameAt(q)
    /\ CauseOK(p)'
    /\ dlq' = dlq \/ \E e : dlq' = Append(dlq, e) /\ HasCause(e)

\* What the types say of p alone.
LEMMA ControlType ==
    ASSUME TypeOK
    PROVE  /\ pc \in [Processes -> PcValues] /\ outcome \in [Processes -> Outcomes]
           /\ position \in [Processes -> Nat]
           /\ conn \in [Processes -> {"open", "dropped", "closed"}]
           /\ swapped \in [Processes -> BOOLEAN]
BY DEF TypeOK, OffsetsOK, HandlersOK

\* A process that goes down holds nothing, and gets a new connection.
LEMMA DownCaused ==
    ASSUME TypeOK, NEW p \in Processes,
           Crash(p) \/ ClassifyEscapes(p) \/ CommitAndTrip(p) \/ (SweepFinish /\ p = "sweeper")
    PROVE  Caused(p)
<1>1. PICK offset : GoDown(p, offset)
  BY DEF Crash, ClassifyEscapes, CommitAndTrip, SweepFinish
<1>2. dlq' = dlq
  BY DEF Crash, ClassifyEscapes, CommitAndTrip, SweepFinish, topics
<1>3. \A q \in Processes \ {p} : SameAt(q)
  BY <1>1, ControlType DEF GoDown, SameAt
<1>4. /\ conn'[p] = "open" /\ swapped'[p] = FALSE /\ outcome'[p] = "none"
  BY <1>1, ControlType DEF GoDown
<1> QED BY <1>2, <1>3, <1>4 DEF Caused, CauseOK, Rejections

\* A process that starts has not touched its connection yet.
LEMMA StartCaused ==
    ASSUME TypeOK, TypeOK', Onward, NEW p \in Processes, CauseOK(p),
           Restart(p) \/ (SweepStart /\ p = "sweeper")
    PROVE  Caused(p)
<1>1. /\ pc[p] = "down" /\ pc' = [pc EXCEPT ![p] = "idle"]
      /\ UNCHANGED <<position, outcome, conn, swapped, dlq>>
  BY DEF Restart, SweepStart, consumer, database, topics
<1>2. \A q \in Processes \ {p} : SameAt(q)
  BY <1>1, ControlType DEF SameAt
<1>3. CauseOK(p)'
  BY <1>1, ControlType, CausesStay DEF CauseOK, InFlight, Rejections
<1> QED BY <1>1, <1>2, <1>3 DEF Caused

\* A connection is lost at the price of a drop.
LEMMA LossCaused ==
    ASSUME TypeOK, TypeOK', Onward, NEW p \in Processes, CauseOK(p),
           DropConn(p) \/ WriteUnacknowledged(p)
    PROVE  Caused(p)
<1>1. /\ conn' = [conn EXCEPT ![p] = "dropped"] /\ Spend("drop")
      /\ UNCHANGED <<position, pc, outcome, swapped, dlq>>
  BY DEF DropConn, WriteUnacknowledged, consumer, handler, topics
<1>2. \A q \in Processes \ {p} : SameAt(q)
  BY <1>1, ControlType DEF SameAt
<1>3. spent'["drop"] > 0
  BY <1>1 DEF Spend, TypeOK, Disturbances
<1>4. conn'[p] = "dropped"
  BY <1>1, ControlType
<1>5. CauseOK(p)'
  <2>1. outcome[p] \in Rejections => Payload(p)' = Payload(p)
    BY <1>1, PayloadStays DEF CauseOK, InFlight, Onward
  <2>2. PICK x : x = Payload(p)
    OBVIOUS
  <2>3. Undecodable(x) => Undecodable(x)'
    BY CausesStay
  <2>4. outcome[p] = "decode" => Undecodable(Payload(p))'
    BY <2>1, <2>2, <2>3 DEF CauseOK, Undecodable, Rejections
  <2>5. InFlight(p)' = InFlight(p)
    BY <1>1 DEF InFlight
  <2> QED BY <1>1, <1>3, <1>4, <2>1, <2>4, <2>5, CausesStay DEF CauseOK, Rejections, Refusable
<1> QED BY <1>1, <1>2, <1>5 DEF Caused

\* A process takes a record with its connection not swapped, and rejects at
\* once only what cannot be decoded.
LEMMA ReceiveCaused ==
    ASSUME TypeOK, TypeOK', Onward, NEW p \in Processes, CauseOK(p),
           NEW step \in {"check", "classify", "park", "commit"},
           NEW result \in {"none", "skip", "decode"},
           Receive(p, step, result),
           result = "decode" => step = "park" /\ Undecodable(Payload(p))'
    PROVE  Caused(p)
<1>1. /\ pc[p] = "idle" /\ pc' = [pc EXCEPT ![p] = step]
      /\ outcome' = [outcome EXCEPT ![p] = result]
      /\ position' = [position EXCEPT ![p] = @ + 1]
      /\ UNCHANGED <<conn, swapped, dlq>>
  BY DEF Receive, database, topics
<1>2. \A q \in Processes \ {p} : SameAt(q)
  BY <1>1, ControlType DEF SameAt
<1>3. swapped[p] = FALSE
  BY <1>1, ControlType DEF CauseOK, InFlight
<1>4. /\ swapped'[p] = FALSE /\ conn'[p] = conn[p] /\ pc'[p] = step /\ outcome'[p] = result
  BY <1>1, <1>3, ControlType
<1>5. CauseOK(p)'
  BY <1>4, CausesStay DEF CauseOK, Rejections
<1> QED BY <1>1, <1>2, <1>5 DEF Caused

\* A classification touches no connection.
LEMMA ClassifyCaused ==
    ASSUME TypeOK, TypeOK', Onward, NEW p \in Processes, CauseOK(p),
           NEW onFailure \in {"writeFailed", "publish"}, Classify(p, onFailure)
    PROVE  Caused(p)
<1>1. PICK step \in {"write", "writeFailed", "publish"}, result \in {"ok"} \cup Failures :
          /\ pc[p] = "classify" /\ pc' = [pc EXCEPT ![p] = step]
          /\ outcome' = [outcome EXCEPT ![p] = result]
          /\ UNCHANGED <<position, conn, swapped, dlq>>
  BY DEF Classify, Proceed, consumer, database, topics
<1>2. \A q \in Processes \ {p} : SameAt(q)
  BY <1>1, ControlType DEF SameAt
<1>3. /\ swapped'[p] = swapped[p] /\ conn'[p] = conn[p] /\ pc'[p] = step /\ outcome'[p] = result
      /\ result \notin Rejections
  BY <1>1, ControlType DEF Failures, Rejections
<1>4. InFlight(p)'
  BY <1>3 DEF InFlight
<1>5. CauseOK(p)'
  BY <1>3, <1>4, CausesStay DEF CauseOK, Rejections
<1> QED BY <1>1, <1>2, <1>5 DEF Caused

\* Whatever a statement came to, on a connection that was not closed, or on one
\* that was.
LEMMA StatementCaused ==
    ASSUME TypeOK, TypeOK', Onward, NEW p \in Processes, CauseOK(p), InFlight(p),
           outcome[p] \notin Rejections,
           NEW step \in {"classify", "commit", "publish", "park"}, NEW result \in Outcomes,
           pc' = [pc EXCEPT ![p] = step], outcome' = [outcome EXCEPT ![p] = result],
           UNCHANGED <<position, dlq>>,
           result \in Rejections => step \in {"park", "commit"},
           \/ UseConnection(p) /\ result \notin {"decode", "closed"}
           \/ conn[p] = "closed" /\ UNCHANGED database /\ result = "closed",
           result = "data" => Refusable(Payload(p)) /\ (step = "commit" => Refused(p))
    PROVE  Caused(p)
<1>1. /\ \A q \in Processes \ {p} : SameAt(q)
      /\ pc'[p] = step /\ outcome'[p] = result
  BY ControlType DEF SameAt, UseConnection, database
<1>2. InFlight(p)' /\ Payload(p)' = Payload(p)
  BY <1>1, PayloadStays DEF InFlight, Onward
<1>3. CASE UseConnection(p) /\ result \notin {"decode", "closed"}
  <2>1. conn'[p] = "open" /\ (swapped'[p] => spent["drop"] > 0)
    BY <1>3, ControlType DEF UseConnection, CauseOK
  <2> QED BY <1>1, <1>2, <1>3, <2>1, CausesStay DEF Caused, CauseOK, Rejections, Refusable
<1>4. CASE conn[p] = "closed" /\ UNCHANGED database /\ result = "closed"
  <2>1. conn'[p] = "closed" /\ swapped'[p] = swapped[p] /\ spent["drop"] > 0 /\ Refused(p)
    BY <1>4 DEF database, CauseOK
  <2> QED BY <1>1, <1>2, <1>4, <2>1, CausesStay DEF Caused, CauseOK, Rejections
<1> QED BY <1>3, <1>4

\* A verdict is refused only if Postgres can refuse it.
LEMMA WriteVerdictCaused ==
    ASSUME OutboxInv, TypeOK', Onward, NEW p \in Processes, CauseOK(p),
           NEW step \in {"commit", "park"}, step = "commit" => p = "sweeper",
           WriteVerdict(p, step)
    PROVE  Caused(p)
<1>1. /\ pc[p] = "write" /\ InFlight(p) /\ outcome[p] \notin Rejections
      /\ UNCHANGED <<position, dlq>> /\ TypeOK /\ Payload(p) \in Edits
  BY DEF WriteVerdict, InFlight, CauseOK, consumer, topics, OutboxInv, ControlOK
<1>2. CASE UseConnection(p) /\ Proceed(p, "commit", "ok")
  BY <1>1, <1>2, StatementCaused DEF Proceed, Outcomes, Rejections
<1>3. CASE UseConnection(p) /\ ~VerdictFits(Payload(p), verdict[p]) /\ Proceed(p, step, "data")
  <2>1. verdict[p] \in Verdicts \cup {NoVerdict}
    BY <1>1 DEF TypeOK, HandlersOK
  <2>2. Refusable(Payload(p))
    BY <1>3 DEF Refusable, VerdictFits
  <2>3. step = "commit" => Refused(p)
    BY <1>1, <2>2 DEF Refused
  <2> QED BY <1>1, <1>3, <2>2, <2>3, StatementCaused DEF Proceed, Outcomes, Rejections
<1>4. CASE UseClosedConnection(p, step)
  <2>1. conn[p] = "closed" /\ UNCHANGED database /\ Proceed(p, step, "closed")
    BY <1>4 DEF UseClosedConnection
  <2> QED BY <1>1, <2>1, StatementCaused DEF Proceed, Outcomes, Rejections
<1> QED BY <1>2, <1>3, <1>4 DEF WriteVerdict

\* So is a failed row.
LEMMA WriteFailedCaused ==
    ASSUME OutboxInv, TypeOK', Onward, NEW p \in Processes, CauseOK(p), WriteFailed(p)
    PROVE  Caused(p)
<1>1. /\ pc[p] = "writeFailed" /\ InFlight(p) /\ outcome[p] \notin Rejections
      /\ outcome \in [Processes -> Outcomes]
      /\ UNCHANGED <<position, dlq>> /\ TypeOK
  BY DEF WriteFailed, InFlight, CauseOK, consumer, topics, OutboxInv, TypeOK, HandlersOK
<1>2. CASE UseConnection(p) /\ pc' = [pc EXCEPT ![p] = "publish"] /\ UNCHANGED outcome
  <2>1. outcome' = [outcome EXCEPT ![p] = outcome[p]] /\ outcome[p] \in Outcomes
    BY <1>1, <1>2
  <2> QED BY <1>1, <1>2, <2>1, StatementCaused DEF Rejections
<1>3. CASE UseConnection(p) /\ ~FailedRowFits(Payload(p)) /\ Proceed(p, "park", "data")
  <2>1. Refusable(Payload(p))
    BY <1>3 DEF Refusable, FailedRowFits
  <2> QED BY <1>1, <1>3, <2>1, StatementCaused DEF Proceed, Outcomes, Rejections
<1>4. CASE UseClosedConnection(p, "park")
  <2>1. conn[p] = "closed" /\ UNCHANGED database /\ Proceed(p, "park", "closed")
    BY <1>4 DEF UseClosedConnection
  <2> QED BY <1>1, <2>1, StatementCaused DEF Proceed, Outcomes, Rejections
<1> QED BY <1>2, <1>3, <1>4 DEF WriteFailed

\* The pre-check is never refused.
LEMMA CheckStatusCaused ==
    ASSUME TypeOK, TypeOK', Onward, CauseOK("worker"), CheckStatus
    PROVE  Caused("worker")
<1>1. /\ "worker" \in Processes /\ pc["worker"] = "check" /\ InFlight("worker")
      /\ outcome["worker"] \notin Rejections /\ UNCHANGED <<position, dlq>>
  BY DEF CheckStatus, InFlight, CauseOK, consumer, topics, Processes
<1>2. CASE UseConnection("worker") /\ Proceed("worker", "commit", "skip")
  BY <1>1, <1>2, StatementCaused DEF Proceed, Outcomes, Rejections
<1>3. CASE UseConnection("worker") /\ Proceed("worker", "classify", "none")
  BY <1>1, <1>3, StatementCaused DEF Proceed, Outcomes, Rejections
<1>4. CASE UseClosedConnection("worker", "park")
  <2>1. /\ conn["worker"] = "closed" /\ UNCHANGED database
        /\ Proceed("worker", "park", "closed")
    BY <1>4 DEF UseClosedConnection
  <2> QED BY <1>1, <2>1, StatementCaused DEF Proceed, Outcomes, Rejections
<1> QED BY <1>2, <1>3, <1>4 DEF CheckStatus

\* What the DLQ is told of a classifier's failure blames nobody.
LEMMA PublishCaused ==
    ASSUME OutboxInv, TypeOK', Onward, NEW p \in Processes, CauseOK(p),
           (\E attempts : PublishFailure(p, attempts)) \/ (SweepRequeue /\ p = "sweeper")
    PROVE  Caused(p)
<1>1. /\ pc[p] = "publish" /\ pc' = [pc EXCEPT ![p] = "commit"]
      /\ UNCHANGED <<position, outcome, conn, swapped>> /\ TypeOK
  BY DEF PublishFailure, SweepRequeue, consumer, database, OutboxInv
<1>2. outcome[p] \in Failures
  BY <1>1 DEF OutboxInv, ControlOK
<1>3. dlq' = dlq \/ \E e : dlq' = Append(dlq, e) /\ HasCause(e)
  <2>1. ASSUME NEW reason \in Reasons \ {Malformed}, NEW error, NEW x, NEW attempts
        PROVE  HasCause(MakeEnvelope(reason, error, x, attempts))
    BY DEF HasCause, MakeEnvelope
  <2>2. {TransientExhausted, ParseFailed, RetriesExhausted} \subseteq Reasons \ {Malformed}
    BY DEF Reasons, TransientExhausted, ParseFailed, RetriesExhausted, Malformed
  <2>3. CASE \E attempts : PublishFailure(p, attempts)
    <3>1. PICK attempts : PublishFailure(p, attempts)
      BY <2>3
    <3>2. TransientReason(attempts) \in Reasons \ {Malformed}
      BY <2>2 DEF TransientReason
    <3> QED BY <2>1, <2>2, <3>1, <3>2 DEF PublishFailure
  <2>4. CASE SweepRequeue
    BY <2>1, <2>2, <2>4 DEF SweepRequeue
  <2> QED BY <2>3, <2>4
<1>4. \A q \in Processes \ {p} : SameAt(q)
  BY <1>1, ControlType DEF SameAt
<1>5. pc'[p] = "commit" /\ InFlight(p)'
  BY <1>1, ControlType DEF InFlight
<1>6. CauseOK(p)'
  BY <1>1, <1>2, <1>5, CausesStay DEF CauseOK, Failures, Rejections
<1> QED BY <1>3, <1>4, <1>6 DEF Caused

\* What park_malformed writes off has the cause its handler found.
LEMMA ParkCaused ==
    ASSUME OutboxInv, TypeOK', Onward, NEW p \in Processes, CauseOK(p), Park(p)
    PROVE  Caused(p)
<1>1. /\ pc[p] = "park" /\ pc' = [pc EXCEPT ![p] = "commit"]
      /\ UNCHANGED <<position, outcome, conn, swapped>> /\ TypeOK
      /\ InFlight(p) /\ p # "sweeper" /\ outcome[p] \in Rejections
  BY DEF Park, consumer, database, OutboxInv, InFlight, ControlOK, TypeOK, HandlersOK, SweeperPcs
<1>2. PICK e : dlq' = Append(dlq, e) /\ e = MalformedEnvelope(outcome[p], Payload(p))
  BY DEF Park
<1>3. e.reason = Malformed /\ e.error = outcome[p] /\ e.payload = Payload(p)
  BY <1>2 DEF MalformedEnvelope, MakeEnvelope
<1>4. HasCause(e)
  BY <1>1, <1>3 DEF HasCause, CauseOK, Refused, Rejections
<1>5. \A q \in Processes \ {p} : SameAt(q)
  BY <1>1, ControlType DEF SameAt
<1>6. pc'[p] = "commit" /\ InFlight(p)' /\ Payload(p)' = Payload(p)
  BY <1>1, ControlType, PayloadStays DEF InFlight, Onward
<1>7. outcome[p] = "data" => Refused(p)'
  <2>1. Len(dlq) + 1 \in 1 .. Len(dlq') /\ dlq'[Len(dlq) + 1] = e
    <3>1. dlq \in Seq(Envelope \cup {e})
      BY <1>1 DEF TypeOK, TopicsOK
    <3> QED BY <1>2, <3>1
  <2> QED BY <1>1, <1>3, <2>1 DEF Refused, ReportsRefusal
<1>8. outcome[p] = "decode" => Undecodable(Payload(p))'
  <2>1. PICK x : x = Payload(p)
    OBVIOUS
  <2>2. Undecodable(x) => Undecodable(x)'
    BY <1>1, CausesStay
  <2> QED BY <1>6, <2>1, <2>2 DEF CauseOK, Undecodable
<1>9. CauseOK(p)'
  BY <1>1, <1>6, <1>7, <1>8, CausesStay DEF CauseOK, Rejections, Refusable
<1> QED BY <1>2, <1>4, <1>5, <1>9 DEF Caused

\* The connection carried on is closed only after a refusal, with a drop.
LEMMA CommitCaused ==
    ASSUME TypeOK, TypeOK', Onward, NEW p \in Processes, CauseOK(p),
           Commit(p) \/ (SweepCommit /\ p = "sweeper")
    PROVE  Caused(p)
<1>1. /\ pc[p] = "commit" /\ Proceed(p, "idle", "none")
      /\ conn' = [conn EXCEPT ![p] = CarriedConn(p)]
      /\ swapped' = [swapped EXCEPT ![p] = FALSE]
      /\ UNCHANGED <<position, dlq>>
  BY DEF Commit, SweepCommit, topics
<1>2. \A q \in Processes \ {p} : SameAt(q)
  BY <1>1, ControlType DEF SameAt, Proceed
<1>3. /\ outcome'[p] = "none" /\ swapped'[p] = FALSE /\ conn'[p] = CarriedConn(p)
  BY <1>1, ControlType DEF Proceed
<1>4. /\ CarriedConn(p) # "open" => spent["drop"] > 0
      /\ CarriedConn(p) = "closed" => Refused(p)
  BY <1>1 DEF CarriedConn, CauseOK, Rejections
<1> QED BY <1>1, <1>2, <1>3, <1>4, CausesStay DEF Caused, CauseOK, Rejections

\* Drops are counted, and no more than their budget.
LEMMA DropsCounted ==
    ASSUME TypeOK, [Next]_vars, spent["drop"] <= Budget["drop"]
    PROVE  spent["drop"] <= spent'["drop"] /\ spent'["drop"] <= Budget["drop"]
<1>1. spent["drop"] \in Nat /\ Budget["drop"] \in Nat
  BY ConsumersAssumption DEF TypeOK, Disturbances
<1>2. ASSUME NEW kind \in Disturbances, Spend(kind)
      PROVE  spent["drop"] <= spent'["drop"] /\ spent'["drop"] <= Budget["drop"]
  BY <1>1, <1>2, ConsumersAssumption DEF Spend, TypeOK, Disturbances
<1>3. UNCHANGED spent \/ \E kind \in Disturbances : Spend(kind)
  <2>1. CASE WorkerMoves
    BY <2>1
       DEF Disturbances, WorkerMoves, WorkerStep, WorkerReceive, Receive, CheckStatus, Classify,
           WriteVerdict, WriteFailed, WorkerPublish, PublishFailure, Park, Commit, CommitAndTrip,
           Restart, WorkerDisturbance, Crash, ClassifyEscapes, DropConn, WriteUnacknowledged
  <2>2. CASE RetrierMoves
    BY <2>2
       DEF Disturbances, RetrierMoves, RetrierStep, RetrierReceive, Receive, Classify,
           WriteVerdict, WriteFailed, RetrierPublish, PublishFailure, Park, Commit, CommitAndTrip,
           Restart, RetrierDisturbance, Crash, ClassifyEscapes, DropConn, WriteUnacknowledged
  <2>3. CASE SweeperMoves
    BY <2>3
       DEF Disturbances, SweeperMoves, SweeperStep, SweepReceive, Receive, Classify, WriteVerdict,
           SweepRequeue, SweepCommit, SweepFinish, SweepStart,
           SweeperDisturbance, Crash, ClassifyEscapes, DropConn, WriteUnacknowledged
  <2>4. CASE Produces \/ UNCHANGED vars
    BY <2>4 DEF Produces, Produce, ProduceNewer, vars, Disturbances
  <2> QED BY <2>1, <2>2, <2>3, <2>4
          DEF Next, Environment, WorkerMoves, RetrierMoves, SweeperMoves, Produces
<1> QED BY <1>1, <1>2, <1>3

\* Every step of a process keeps the causes.
LEMMA MovesCaused ==
    ASSUME OutboxInv, TypeInv', Onward, \A p \in Processes : CauseOK(p)
    PROVE  /\ WorkerMoves => Caused("worker")
           /\ RetrierMoves => Caused("retrier")
           /\ SweeperMoves => Caused("sweeper")
<1>1. /\ TypeOK /\ TypeOK' /\ {"worker", "retrier", "sweeper"} \subseteq Processes
      /\ CauseOK("worker") /\ CauseOK("retrier") /\ CauseOK("sweeper")
  BY DEF OutboxInv, TypeInv, Processes
<1>2. ASSUME NEW p \in Processes,
             \/ Restart(p) \/ Crash(p) \/ ClassifyEscapes(p) \/ CommitAndTrip(p) \/ Commit(p)
             \/ DropConn(p) \/ WriteUnacknowledged(p) \/ WriteFailed(p) \/ Park(p)
             \/ \E step \in {"writeFailed", "publish"} : Classify(p, step)
             \/ \E attempts : PublishFailure(p, attempts)
      PROVE  Caused(p)
  BY <1>1, <1>2, DownCaused, StartCaused, LossCaused, CommitCaused, WriteFailedCaused, ParkCaused,
     ClassifyCaused, PublishCaused
<1>3. ASSUME WorkerReceive
      PROVE  Caused("worker")
  <2>1. PICK step, result :
            /\ Receive("worker", step, result)
            /\ \/ step = "check" /\ result = "none"
               \/ /\ step = "park" /\ result = "decode"
                  /\ raw[position["worker"] + 1] \notin Edits
    BY <1>3 DEF WorkerReceive
  <2>2. position'["worker"] = position["worker"] + 1 /\ raw' = raw
    BY <1>1, <2>1, ControlType DEF Receive, topics
  <2>3. result = "decode" => Undecodable(Payload("worker"))'
    BY <2>1, <2>2 DEF Undecodable, Payload
  <2> QED BY <1>1, <2>1, <2>3, ReceiveCaused
<1>4. ASSUME RetrierReceive
      PROVE  Caused("retrier")
  <2>1. PICK step, result :
            /\ Receive("retrier", step, result)
            /\ \/ step = "classify" /\ result = "none"
               \/ /\ step = "park" /\ result = "decode"
                  /\ retry[position["retrier"] + 1].schema # EnvelopeSchema
            /\ position["retrier"] < Len(retry)
    BY <1>4 DEF RetrierReceive
  <2>2. /\ position'["retrier"] = position["retrier"] + 1 /\ retry' = retry
        /\ position["retrier"] + 1 \in 1 .. Len(retry)
    <3>1. position["retrier"] \in Nat /\ Len(retry) \in Nat
      BY <1>1 DEF TypeOK, OffsetsOK, TopicsOK
    <3> QED BY <1>1, <2>1, <3>1, ControlType DEF Receive, topics
  <2>3. result = "decode" => Undecodable(Payload("retrier"))'
    BY <2>1, <2>2 DEF Undecodable, Payload, Topic
  <2> QED BY <1>1, <2>1, <2>3, ReceiveCaused
<1>5. ASSUME SweepReceive
      PROVE  Caused("sweeper")
  BY <1>1, <1>5, ReceiveCaused DEF SweepReceive
<1>6. WorkerMoves => Caused("worker")
  BY <1>1, <1>2, <1>3, WriteVerdictCaused, CheckStatusCaused
     DEF WorkerMoves, WorkerStep, WorkerPublish, WorkerDisturbance
<1>7. RetrierMoves => Caused("retrier")
  BY <1>1, <1>2, <1>4, WriteVerdictCaused
     DEF RetrierMoves, RetrierStep, RetrierPublish, RetrierDisturbance
<1>8. SweeperMoves => Caused("sweeper")
  BY <1>1, <1>2, <1>5, WriteVerdictCaused, PublishCaused, CommitCaused, DownCaused, StartCaused
     DEF SweeperMoves, SweeperStep, SweeperDisturbance
<1> QED BY <1>6, <1>7, <1>8

\* Nothing is written off without a cause: the inductive invariant.
THEOREM CauseInvCorrect == Spec => []CauseInv
<1>1. Init /\ OutboxInv => CauseInv
  BY ConsumersAssumption
     DEF Init, ConsumersInit, CauseInv, MalformedForCause, CauseOK, Rejections, Processes, Disturbances
<1>2. CauseInv /\ OutboxInv' /\ [Next]_vars => CauseInv'
  <2> SUFFICES ASSUME CauseInv, OutboxInv', [Next]_vars
               PROVE  CauseInv'
    OBVIOUS
  <2>1. /\ TypeOK /\ TypeOK' /\ OutboxInv /\ TypeInv' /\ Onward
        /\ MalformedForCause /\ \A p \in Processes : CauseOK(p)
        /\ spent'["drop"] <= Budget["drop"]
    BY NextAppends, AppendGrows, DropsCounted DEF CauseInv, OutboxInv, TypeInv, TypeOK, Onward
  <2>2. ASSUME NEW p \in Processes, Caused(p)
        PROVE  MalformedForCause' /\ \A q \in Processes : CauseOK(q)'
    <3>1. \A q \in Processes \ {p} : CauseOK(q)'
      BY <2>1, <2>2, SameStaysCaused DEF Caused
    <3> QED BY <2>1, <2>2, <3>1, EntriesStayCaused DEF Caused
  <2>3. CASE Produces \/ UNCHANGED vars
    <3>1. \A p \in Processes : SameAt(p)
      BY <2>3 DEF Produces, Produce, ProduceNewer, vars, SameAt, handler, consumer, database
    <3>2. dlq' = dlq \/ \E e : dlq' = Append(dlq, e) /\ HasCause(e)
      <4>1. \A x : HasCause(NewerEnvelope(x))
        BY DEF HasCause, NewerEnvelope, MakeEnvelope, TransientExhausted, Malformed
      <4>2. dlq' = dlq \/ \E x : dlq' = Append(dlq, NewerEnvelope(x))
        BY <2>3 DEF Produces, Produce, ProduceNewer, vars, topics
      <4> QED BY <4>1, <4>2
    <3>3. \A p \in Processes : CauseOK(p)'
      BY <2>1, <3>1, SameStaysCaused
    <3> QED BY <2>1, <3>2, <3>3, EntriesStayCaused DEF CauseInv
  <2>4. CASE WorkerMoves \/ RetrierMoves \/ SweeperMoves
    BY <2>1, <2>2, <2>4, MovesCaused DEF CauseInv, Processes
  <2> QED BY <2>3, <2>4 DEF Next, Environment, WorkerMoves, RetrierMoves, SweeperMoves, Produces
<1> QED BY <1>1, <1>2, OutboxInvCorrect, PTL DEF Spec

\* A record is written off as malformed only because it cannot be decoded,
\* because Postgres can refuse it, or, after such a refusal and a lost
\* connection, because the handler was given a closed one (guard_schema_error
\* of routing.py): for every interleaving, crash and number of drops.
THEOREM MalformedForCauseCorrect == Spec => []MalformedForCause
<1>1. CauseInv => MalformedForCause
  BY DEF CauseInv
<1> QED BY <1>1, CauseInvCorrect, PTL

---------------------------------------------------------------------------
(***************************************************************************)
(* What the sweeper commits past.                                          *)
(***************************************************************************)

\* The edit of the n-th DLQ entry is accounted for, unless a value or the
\* connection was refused.
Accounted(n) ==
    \/ InTable(dlq[n].payload)
    \/ \E m \in n + 1 .. Len(dlq) : dlq[m].payload = dlq[n].payload
    \/ outcome["sweeper"] \in {"data", "closed"}

SweepReady ==
    pc["sweeper"] = "commit" /\ Classifiable(dlq[position["sweeper"]]) =>
        Accounted(position["sweeper"])

\* The sweeper comes to the commit with an edit accounted for by this very
\* step, unless the entry is not one to classify.
ComesAccounted ==
    \/ SweepReceive /\ ~Classifiable(dlq[position["sweeper"] + 1])
    \/ SweepRequeue
    \/ /\ WriteVerdict("sweeper", "commit")
       /\ position'["sweeper"] = position["sweeper"] /\ dlq' = dlq
       /\ \/ rows' = UpsertEdit(rows, Payload("sweeper"), verdict["sweeper"])
          \/ outcome'["sweeper"] \in {"data", "closed"}

StaysAtCommit ==
    /\ pc["sweeper"] = "commit"
    /\ position'["sweeper"] = position["sweeper"]
    /\ outcome'["sweeper"] = outcome["sweeper"]

\* What can take the sweeper to the commit, and past it.
LEMMA SweeperCommits ==
    ASSUME TypeOK, [Next]_vars
    PROVE  /\ pc'["sweeper"] = "commit" => StaysAtCommit \/ ComesAccounted
           /\ committed'["sweeper"] # committed["sweeper"] =>
                pc["sweeper"] = "commit" /\ committed'["sweeper"] = position["sweeper"]
<1>1. CASE SweeperMoves
  <2> USE DEF TypeOK, OffsetsOK, HandlersOK, Processes, StaysAtCommit, ComesAccounted
  <2>1. CASE SweepReceive
    BY <2>1 DEF SweepReceive, Receive
  <2>2. CASE SweepRequeue
    BY <2>2 DEF SweepRequeue, consumer
  <2>3. CASE WriteVerdict("sweeper", "commit")
    BY <2>3 DEF WriteVerdict, UseClosedConnection, Proceed, consumer, topics
  <2>4. CASE Classify("sweeper", "publish")
    BY <2>4 DEF Classify, Proceed, consumer
  <2>5. CASE SweepCommit \/ SweepFinish \/ SweepStart \/ ClassifyEscapes("sweeper")
    BY <2>5 DEF SweepCommit, SweepFinish, SweepStart, ClassifyEscapes, Proceed, GoDown, consumer
  <2>6. CASE SweeperDisturbance
    BY <2>6
       DEF SweeperDisturbance, Crash, DropConn, WriteUnacknowledged, GoDown,
           consumer, handler
  <2> QED BY <1>1, <2>1, <2>2, <2>3, <2>4, <2>5, <2>6 DEF SweeperMoves, SweeperStep
<1>2. CASE WorkerMoves
  BY <1>2
     DEF TypeOK, OffsetsOK, HandlersOK, Processes, handler, consumer, StaysAtCommit, WorkerMoves,
         WorkerStep, WorkerReceive, Receive, CheckStatus, Classify, WriteVerdict, WriteFailed,
         WorkerPublish, PublishFailure, Park, Commit, CommitAndTrip, Restart,
         UseClosedConnection, Proceed, GoDown,
         WorkerDisturbance, Crash, ClassifyEscapes, DropConn, WriteUnacknowledged
<1>3. CASE RetrierMoves
  BY <1>3
     DEF TypeOK, OffsetsOK, HandlersOK, Processes, handler, consumer, StaysAtCommit, RetrierMoves,
         RetrierStep, RetrierReceive, Receive, Classify, WriteVerdict, WriteFailed,
         RetrierPublish, PublishFailure, Park, Commit, CommitAndTrip, Restart,
         UseClosedConnection, Proceed, GoDown,
         RetrierDisturbance, Crash, ClassifyEscapes, DropConn, WriteUnacknowledged
<1>4. CASE Produces \/ UNCHANGED vars
  BY <1>4 DEF Produces, Produce, ProduceNewer, handler, consumer, vars, StaysAtCommit
<1> QED
  BY <1>1, <1>2, <1>3, <1>4
     DEF Next, Environment, WorkerMoves, RetrierMoves, SweeperMoves, Produces

\* It commits only what is accounted for, and what is stays so.
LEMMA SweepReadyStep ==
    ASSUME OutboxInv, TypeInv', SweepReady, [Next]_vars
    PROVE  SweepReady'
<1>1. TypeOK /\ Grows
  BY NextAppends, AppendGrows DEF OutboxInv, TypeOK
<1>2. /\ Len(dlq) \in Nat /\ Len(dlq') \in Nat /\ Len(dlq) <= Len(dlq')
      /\ \A m \in 1 .. Len(dlq) : dlq'[m] = dlq[m]
  <2>1. TopicsOK /\ TopicsOK'
    BY <1>1 DEF TypeInv, TypeOK
  <2> QED BY <1>1, <2>1 DEF Grows, Topic, Processes, TopicsOK
<1>3. SUFFICES ASSUME pc'["sweeper"] = "commit", Classifiable(dlq'[position'["sweeper"]])
               PROVE  Accounted(position["sweeper"])'
  BY DEF SweepReady, Accounted
<1>4. \A e \in Edits : InTable(e) => InTable(e)'
  BY <1>1, ClassifiedStays DEF TypeOK
<1>5. PICK k : k = position["sweeper"]
  OBVIOUS
<1>6. "sweeper" \in Processes /\ Topic("sweeper") = dlq
  BY DEF Processes, Topic
<1>7. CASE StaysAtCommit
  <2>1. k \in 1 .. Len(dlq) /\ k \in Nat
    BY <1>1, <1>5, <1>6, <1>7, PayloadType DEF StaysAtCommit, InFlight
  <2>2. dlq'[k] = dlq[k] /\ position'["sweeper"] = k
    BY <1>2, <1>5, <1>7, <2>1 DEF StaysAtCommit
  <2>3. Accounted(k)
    BY <1>3, <1>5, <1>7, <2>2 DEF StaysAtCommit, SweepReady
  <2>4. CASE InTable(dlq[k].payload)
    <3>1. PICK x \in Edits : x = dlq[k].payload
      BY <2>4 DEF InTable
    <3>2. InTable(x)'
      BY <1>4, <2>4, <3>1
    <3> QED BY <2>2, <3>1, <3>2 DEF Accounted, InTable
  <2>5. CASE \E m \in k + 1 .. Len(dlq) : dlq[m].payload = dlq[k].payload
    <3>1. PICK m \in k + 1 .. Len(dlq) : dlq[m].payload = dlq[k].payload
      BY <2>5
    <3>2. m \in 1 .. Len(dlq) /\ m \in k + 1 .. Len(dlq')
      BY <1>2, <2>1, <3>1
    <3> QED BY <1>2, <2>2, <3>1, <3>2 DEF Accounted
  <2>6. CASE outcome["sweeper"] \in {"data", "closed"}
    BY <1>7, <2>6 DEF StaysAtCommit, Accounted
  <2> QED BY <2>3, <2>4, <2>5, <2>6 DEF Accounted
<1>8. CASE SweepReceive /\ ~Classifiable(dlq[k + 1])
  <2>1. position'["sweeper"] = k + 1 /\ dlq' = dlq
    BY <1>1, <1>5, <1>8
       DEF SweepReceive, Receive, TypeOK, OffsetsOK, Processes, topics
  <2> QED BY <1>3, <1>8, <2>1
<1>9. CASE SweepRequeue
  <2>1. pc["sweeper"] = "publish" /\ position'["sweeper"] = k
    BY <1>5, <1>9 DEF SweepRequeue, consumer
  <2>2. k \in 1 .. Len(dlq) /\ k \in Nat
    BY <1>1, <1>5, <1>6, <2>1, PayloadType DEF InFlight
  <2>3. PICK e : dlq' = Append(dlq, e) /\ e.payload = dlq[k].payload
    BY <1>5, <1>9 DEF SweepRequeue, MakeEnvelope, Payload, Topic
  <2>4. Len(dlq') = Len(dlq) + 1 /\ dlq'[Len(dlq) + 1] = e
    <3>1. dlq \in Seq(Envelope \cup {e})
      BY <1>1 DEF TypeOK, TopicsOK
    <3> QED BY <2>3, <3>1
  <2>5. Len(dlq) + 1 \in k + 1 .. Len(dlq') /\ dlq'[k] = dlq[k]
    BY <1>2, <2>2, <2>4
  <2> QED BY <2>1, <2>3, <2>4, <2>5 DEF Accounted
<1>10. CASE /\ WriteVerdict("sweeper", "commit")
            /\ position'["sweeper"] = position["sweeper"] /\ dlq' = dlq
            /\ \/ rows' = UpsertEdit(rows, Payload("sweeper"), verdict["sweeper"])
               \/ outcome'["sweeper"] \in {"data", "closed"}
  <2>1. CASE outcome'["sweeper"] \in {"data", "closed"}
    BY <2>1 DEF Accounted
  <2>2. CASE rows' = UpsertEdit(rows, Payload("sweeper"), verdict["sweeper"])
    <3>1. PICK x \in Edits : x = Payload("sweeper") /\ x = dlq'[position'["sweeper"]].payload
      <4>1. Payload("sweeper") = dlq[position["sweeper"]].payload
        BY DEF Payload, Topic
      <4>2. Payload("sweeper") \in Edits
        BY <1>6, <1>10 DEF OutboxInv, ControlOK, WriteVerdict
      <4> QED BY <1>10, <4>1, <4>2
    <3>2. rows'[x].status = "classified"
      BY <1>1, <2>2, <3>1 DEF TypeOK, Table, UpsertEdit, ClassifiedRow
    <3> QED BY <3>1, <3>2 DEF Accounted, InTable
  <2> QED BY <1>10, <2>1, <2>2
<1> QED BY <1>1, <1>3, <1>5, <1>7, <1>8, <1>9, <1>10, SweeperCommits DEF ComesAccounted

\* What the sweeper commits past is classified, further on in the DLQ, or
\* refused for one of the causes of CauseInv, for every interleaving, crash
\* and number of drops.
THEOREM SweepSkipsForCauseCorrect == Spec => SweepSkipsForCause
<1>1. Init => SweepReady
  BY DEF Init, ConsumersInit, SweepReady, Processes
<1>2. OutboxInv /\ OutboxInv' /\ SweepReady /\ [Next]_vars => SweepReady'
  BY SweepReadyStep DEF OutboxInv, TypeInv
<1>3. CauseInv /\ SweepReady /\ [Next]_vars =>
        [LET n == committed'["sweeper"] IN
         n > committed["sweeper"] /\ Classifiable(dlq[n]) =>
             \/ InTable(dlq[n].payload)
             \/ \E m \in n + 1 .. Len(dlq) : dlq[m].payload = dlq[n].payload
             \/ outcome["sweeper"] = "data" /\ Refusable(dlq[n].payload)
             \/ /\ outcome["sweeper"] = "closed" /\ spent["drop"] > 0
                /\ \E e \in Edits : Refusable(e)]_vars
  <2> DEFINE n == position["sweeper"]
  <2> SUFFICES ASSUME CauseInv, SweepReady, [Next]_vars,
                      committed'["sweeper"] > committed["sweeper"],
                      Classifiable(dlq[committed'["sweeper"]])
               PROVE  /\ committed'["sweeper"] = n
                      /\ \/ InTable(dlq[n].payload)
                         \/ \E m \in n + 1 .. Len(dlq) : dlq[m].payload = dlq[n].payload
                         \/ outcome["sweeper"] = "data" /\ Refusable(dlq[n].payload)
                         \/ /\ outcome["sweeper"] = "closed" /\ spent["drop"] > 0
                            /\ \E e \in Edits : Refusable(e)
    OBVIOUS
  <2>1. TypeOK /\ CauseOK("sweeper")
    BY DEF CauseInv, OutboxInv, Processes
  <2>2. committed["sweeper"] \in Nat
    BY <2>1 DEF TypeOK, OffsetsOK, Processes
  <2>3. committed'["sweeper"] # committed["sweeper"]
    BY <2>2
  <2>4. pc["sweeper"] = "commit" /\ committed'["sweeper"] = n
    BY <2>1, <2>3, SweeperCommits
  <2>5. Accounted(n)
    BY <2>4 DEF SweepReady
  <2>6. outcome["sweeper"] = "data" => Refusable(dlq[n].payload)
    BY <2>1 DEF CauseOK, Payload, Topic
  <2>7. outcome["sweeper"] = "closed" =>
            spent["drop"] > 0 /\ \E e \in Edits : Refusable(e)
    BY <2>1 DEF CauseOK, Refused
  <2> QED BY <2>4, <2>5, <2>6, <2>7 DEF Accounted
<1> QED
  BY <1>1, <1>2, <1>3, OutboxInvCorrect, CauseInvCorrect, PTL DEF Spec, SweepSkipsForCause

\* While no connection is lost, the sweeper loses track of no edit: what it
\* commits past is classified, further on in the DLQ, or refused by Postgres
\* (the run closed_connection_skips shows what happens when one is lost).
THEOREM SweepAccountedCorrect ==
    ASSUME Budget["drop"] = 0
    PROVE  Spec => SweepAccounted
<1>1. CauseInv /\
      [LET n == committed'["sweeper"] IN
       n > committed["sweeper"] /\ Classifiable(dlq[n]) =>
           \/ InTable(dlq[n].payload)
           \/ \E m \in n + 1 .. Len(dlq) : dlq[m].payload = dlq[n].payload
           \/ outcome["sweeper"] = "data" /\ Refusable(dlq[n].payload)
           \/ /\ outcome["sweeper"] = "closed" /\ spent["drop"] > 0
              /\ \E e \in Edits : Refusable(e)]_vars
      => [LET n == committed'["sweeper"] IN
          n > committed["sweeper"] /\ Classifiable(dlq[n]) =>
              \/ InTable(dlq[n].payload)
              \/ \E m \in n + 1 .. Len(dlq) : dlq[m].payload = dlq[n].payload
              \/ outcome["sweeper"] = "data"]_vars
  <2> SUFFICES ASSUME CauseInv
               PROVE  ~(spent["drop"] > 0)
    OBVIOUS
  <2>1. spent["drop"] \in Nat /\ spent["drop"] <= 0
    BY DEF CauseInv, OutboxInv, TypeOK, Disturbances
  <2> QED BY <2>1
<1> QED
  BY <1>1, SweepSkipsForCauseCorrect, CauseInvCorrect, PTL
     DEF SweepSkipsForCause, SweepAccounted

---------------------------------------------------------------------------
(***************************************************************************)
(* Pipeline implements Custody: each of its steps accepts one payload,     *)
(* hands one on, releases one, or leaves every payload where it is.        *)
(***************************************************************************)

\* The value Custody's variable has under the refinement mapping.
Mapped == [x \in Payloads |-> Holders(x)]

Everywhere == {"raw", "retry", "dlq", "table"}

---------------------------------------------------------------------------
(***************************************************************************)
(* How the mapping changes, when what holds what changes.                  *)
(***************************************************************************)

\* Nothing moves: Custody stutters.
LEMMA NothingMoves ==
    ASSUME \A q \in Everywhere, y \in Payloads : Holds(q, y)' <=> Holds(q, y)
    PROVE  Mapped' = Mapped
<1>1. \A y \in Payloads : Holders(y)' = Holders(y)
  BY DEF Holders, Everywhere
<1> QED BY <1>1 DEF Mapped

\* One place gains one payload.
LEMMA OneGained ==
    ASSUME NEW place \in Everywhere, NEW x \in Payloads,
           \A q \in Everywhere, y \in Payloads :
               Holds(q, y)' <=> Holds(q, y) \/ (q = place /\ y = x)
    PROVE  Mapped' = [Mapped EXCEPT ![x] = @ \cup {place}]
<1>1. \A y \in Payloads : Holders(y)' = Holders(y) \cup (IF y = x THEN {place} ELSE {})
  BY DEF Holders, Everywhere
<1> QED BY <1>1 DEF Mapped

\* One place loses one payload.
LEMMA OneLost ==
    ASSUME NEW place \in Everywhere, NEW x \in Payloads,
           \A q \in Everywhere, y \in Payloads :
               Holds(q, y)' <=> Holds(q, y) /\ ~(q = place /\ y = x)
    PROVE  Mapped' = [Mapped EXCEPT ![x] = @ \ {place}]
<1>1. \A y \in Payloads : Holders(y)' = IF y = x THEN Holders(y) \ {place} ELSE Holders(y)
  BY DEF Holders, Everywhere
<1> QED BY <1>1 DEF Mapped

\* A payload that some place gains is accepted, if it comes from outside, or
\* handed on, if some place held it.
LEMMA GainRefines ==
    ASSUME NEW place \in Everywhere, NEW x \in Payloads,
           Mapped' = [Mapped EXCEPT ![x] = @ \cup {place}],
           place \in {"raw", "retry"} \/ \E q \in Everywhere : Holds(q, x)
    PROVE  C!Next
<1>1. CASE place \in {"raw", "retry"}
  <2>1. C!Accept(x, place)
    BY <1>1 DEF C!Accept, C!Inboxes, Mapped, Everywhere
  <2> QED BY <2>1 DEF C!Next, C!Places, C!Inboxes, C!Archives, Everywhere
<1>2. CASE place \notin {"raw", "retry"} /\ \E q \in Everywhere : Holds(q, x)
  <2>1. Mapped[x] # {}
    BY <1>2 DEF Mapped, Holders, Everywhere
  <2>2. C!HandOn(x, place)
    BY <1>2, <2>1 DEF C!HandOn, C!Places, C!Inboxes, C!Archives, Mapped, Everywhere
  <2> QED BY <2>2 DEF C!Next, C!Places, C!Inboxes, C!Archives, Everywhere
<1> QED BY <1>1, <1>2

\* A payload that a topic loses is released, if another place holds it.
LEMMA LossRefines ==
    ASSUME NEW place \in {"raw", "retry"}, NEW x \in Payloads,
           Mapped' = [Mapped EXCEPT ![x] = @ \ {place}],
           \E q \in Everywhere \ {place} : Holds(q, x)
    PROVE  C!Next
<1>1. Mapped[x] \ {place} # {}
  BY DEF Mapped, Holders, Everywhere
<1>2. C!Release(x, place)
  BY <1>1 DEF C!Release, C!Inboxes, Mapped
<1> QED BY <1>2 DEF C!Next, C!Places, C!Inboxes, C!Archives

---------------------------------------------------------------------------
(***************************************************************************)
(* What each kind of change does to who holds what.                        *)
(***************************************************************************)

\* A step that appends to no topic, commits nothing and leaves verdicts alone
\* moves nothing.
LEMMA QuietStep ==
    ASSUME UNCHANGED topics, UNCHANGED <<committed["worker"], committed["retrier"]>>,
           \A e \in Edits : InTable(e)' <=> InTable(e)
    PROVE  Mapped' = Mapped
<1>1. \A y \in Payloads : /\ Unread(y)' <=> Unread(y)
                          /\ PendingRetry(y, committed["retrier"])'
                                <=> PendingRetry(y, committed["retrier"])
                          /\ InDlq(y)' <=> InDlq(y)
                          /\ InTable(y)' <=> InTable(y)
  BY DEF Unread, PendingRetry, InDlq, InTable, topics
<1> QED BY <1>1, NothingMoves DEF Holds

\* A record appended to raw is unread there.
LEMMA RawGains ==
    ASSUME TypeOK, NEW x \in Payloads, raw' = Append(raw, x),
           UNCHANGED <<retry, dlq, rows, committed>>
    PROVE  C!Next
<1>1. /\ raw \in Seq(Payloads) /\ committed["worker"] \in Nat /\ committed["worker"] <= Len(raw)
      /\ Len(raw) \in Nat
  <2>1. "worker" \in Processes
    BY DEF Processes
  <2>2. position["worker"] <= Len(raw) /\ committed["worker"] <= position["worker"]
    BY <2>1 DEF TypeOK, OffsetsOK, Topic
  <2> QED BY <2>1, <2>2 DEF TypeOK, TopicsOK, OffsetsOK
<1>2. /\ Len(raw') = Len(raw) + 1 /\ raw'[Len(raw) + 1] = x
      /\ \A n \in 1 .. Len(raw) : raw'[n] = raw[n]
  BY <1>1
<1>3. ASSUME NEW y \in Payloads
      PROVE  Unread(y)' <=> Unread(y) \/ y = x
  <2>1. Unread(y)' => Unread(y) \/ y = x
    <3> SUFFICES ASSUME NEW n \in 1 .. Len(raw'), committed["worker"] < n, raw'[n] = y
                 PROVE  Unread(y) \/ y = x
      BY DEF Unread
    <3>1. n \in 1 .. Len(raw) \/ n = Len(raw) + 1
      BY <1>1, <1>2
    <3> QED BY <1>2, <3>1 DEF Unread
  <2>2. Unread(y) => Unread(y)'
    <3> SUFFICES ASSUME NEW n \in 1 .. Len(raw), committed["worker"] < n, raw[n] = y
                 PROVE  Unread(y)'
      BY DEF Unread
    <3>1. n \in 1 .. Len(raw') /\ raw'[n] = y
      BY <1>1, <1>2
    <3> QED BY <3>1 DEF Unread
  <2>3. y = x => Unread(y)'
    <3>1. Len(raw) + 1 \in 1 .. Len(raw') /\ committed["worker"] < Len(raw) + 1
      BY <1>1, <1>2
    <3> QED BY <1>2, <3>1 DEF Unread
  <2> QED BY <2>1, <2>2, <2>3
<1>4. ASSUME NEW y \in Payloads
      PROVE  /\ PendingRetry(y, committed["retrier"])' <=> PendingRetry(y, committed["retrier"])
             /\ InDlq(y)' <=> InDlq(y)
             /\ InTable(y)' <=> InTable(y)
  BY DEF PendingRetry, InDlq, InTable
<1>5. Mapped' = [Mapped EXCEPT ![x] = @ \cup {"raw"}]
  BY <1>3, <1>4, OneGained DEF Holds, Everywhere
<1> QED BY <1>5, GainRefines DEF Everywhere

\* An envelope appended to the retry topic is ahead of the retrier.
LEMMA RetryGains ==
    ASSUME TypeOK, NEW e, e.payload \in Payloads, retry' = Append(retry, e),
           UNCHANGED <<raw, dlq, rows, committed>>
    PROVE  C!Next
<1> DEFINE c == committed["retrier"]
           x == e.payload
<1>1. retry \in Seq(Envelope) /\ c \in Nat /\ c <= Len(retry) /\ Len(retry) \in Nat
  <2>1. "retrier" \in Processes
    BY DEF Processes
  <2>2. position["retrier"] <= Len(retry) /\ c <= position["retrier"]
    BY <2>1 DEF TypeOK, OffsetsOK, Topic
  <2> QED BY <2>1, <2>2 DEF TypeOK, TopicsOK, OffsetsOK
<1>2. /\ Len(retry') = Len(retry) + 1 /\ retry'[Len(retry) + 1] = e
      /\ \A n \in 1 .. Len(retry) : retry'[n] = retry[n]
  <2>1. retry \in Seq(Envelope \cup {e})
    BY <1>1
  <2> QED BY <2>1
<1>3. ASSUME NEW y \in Payloads
      PROVE  PendingRetry(y, c)' <=> PendingRetry(y, c) \/ y = x
  <2>1. PendingRetry(y, c)' => PendingRetry(y, c) \/ y = x
    <3> SUFFICES ASSUME NEW n \in 1 .. Len(retry'), c < n, retry'[n].payload = y
                 PROVE  PendingRetry(y, c) \/ y = x
      BY DEF PendingRetry
    <3>1. n \in 1 .. Len(retry) \/ n = Len(retry) + 1
      BY <1>1, <1>2
    <3> QED BY <1>2, <3>1 DEF PendingRetry
  <2>2. PendingRetry(y, c) => PendingRetry(y, c)'
    <3> SUFFICES ASSUME NEW n \in 1 .. Len(retry), c < n, retry[n].payload = y
                 PROVE  PendingRetry(y, c)'
      BY DEF PendingRetry
    <3>1. n \in 1 .. Len(retry') /\ retry'[n].payload = y
      BY <1>1, <1>2
    <3> QED BY <3>1 DEF PendingRetry
  <2>3. y = x => PendingRetry(y, c)'
    <3>1. Len(retry) + 1 \in 1 .. Len(retry') /\ c < Len(retry) + 1
      BY <1>1, <1>2
    <3> QED BY <1>2, <3>1 DEF PendingRetry
  <2> QED BY <2>1, <2>2, <2>3
<1>4. ASSUME NEW y \in Payloads
      PROVE  (Unread(y)' <=> Unread(y)) /\ (InDlq(y)' <=> InDlq(y)) /\ (InTable(y)' <=> InTable(y))
  BY DEF Unread, InDlq, InTable
<1>5. Mapped' = [Mapped EXCEPT ![x] = @ \cup {"retry"}]
  BY <1>3, <1>4, OneGained DEF Holds, Everywhere
<1> QED BY <1>5, GainRefines DEF Everywhere

\* An envelope appended to the DLQ holds its payload if this code can read it,
\* and otherwise changes nothing.
LEMMA DlqGains ==
    ASSUME TypeOK, NEW e, e.payload \in Payloads, dlq' = Append(dlq, e),
           UNCHANGED <<raw, retry, rows, committed>>,
           e.schema = EnvelopeSchema => \E q \in Everywhere : Holds(q, e.payload)
    PROVE  C!Next \/ Mapped' = Mapped
<1> DEFINE x == e.payload
<1>1. dlq \in Seq(Envelope) /\ Len(dlq) \in Nat
  BY DEF TypeOK, TopicsOK
<1>2. /\ Len(dlq') = Len(dlq) + 1 /\ dlq'[Len(dlq) + 1] = e
      /\ \A n \in 1 .. Len(dlq) : dlq'[n] = dlq[n]
  <2>1. dlq \in Seq(Envelope \cup {e})
    BY <1>1
  <2> QED BY <2>1
<1>3. ASSUME NEW y \in Payloads
      PROVE  InDlq(y)' <=> InDlq(y) \/ (e.schema = EnvelopeSchema /\ y = x)
  <2>1. InDlq(y)' => InDlq(y) \/ (e.schema = EnvelopeSchema /\ y = x)
    <3> SUFFICES ASSUME NEW n \in 1 .. Len(dlq'), dlq'[n].schema = EnvelopeSchema, dlq'[n].payload = y
                 PROVE  InDlq(y) \/ (e.schema = EnvelopeSchema /\ y = x)
      BY DEF InDlq
    <3>1. n \in 1 .. Len(dlq) \/ n = Len(dlq) + 1
      BY <1>1, <1>2
    <3> QED BY <1>2, <3>1 DEF InDlq
  <2>2. InDlq(y) => InDlq(y)'
    <3> SUFFICES ASSUME NEW n \in 1 .. Len(dlq), dlq[n].schema = EnvelopeSchema, dlq[n].payload = y
                 PROVE  InDlq(y)'
      BY DEF InDlq
    <3>1. n \in 1 .. Len(dlq') /\ dlq'[n] = dlq[n]
      BY <1>1, <1>2
    <3> QED BY <3>1 DEF InDlq
  <2>3. e.schema = EnvelopeSchema /\ y = x => InDlq(y)'
    <3>1. Len(dlq) + 1 \in 1 .. Len(dlq')
      BY <1>1, <1>2
    <3> QED BY <1>2, <3>1 DEF InDlq
  <2> QED BY <2>1, <2>2, <2>3
<1>4. ASSUME NEW y \in Payloads
      PROVE  /\ Unread(y)' <=> Unread(y)
             /\ PendingRetry(y, committed["retrier"])' <=> PendingRetry(y, committed["retrier"])
             /\ InTable(y)' <=> InTable(y)
  BY DEF Unread, PendingRetry, InTable
<1>5. CASE e.schema = EnvelopeSchema
  <2>1. Mapped' = [Mapped EXCEPT ![x] = @ \cup {"dlq"}]
    BY <1>3, <1>4, <1>5, OneGained DEF Holds, Everywhere
  <2> QED BY <1>5, <2>1, GainRefines DEF Everywhere
<1>6. CASE e.schema # EnvelopeSchema
  BY <1>3, <1>4, <1>6, NothingMoves DEF Holds
<1> QED BY <1>5, <1>6

\* A verdict written to the table holds its edit there.
LEMMA TableGains ==
    ASSUME TypeOK, NEW e \in Edits, NEW v, rows' = UpsertEdit(rows, e, v),
           UNCHANGED <<topics, committed>>,
           \E q \in Everywhere : Holds(q, e)
    PROVE  C!Next
<1>1. e \in Payloads
  BY ConsumersAssumption
<1>2. ASSUME NEW y \in Payloads
      PROVE  InTable(y)' <=> InTable(y) \/ y = e
  BY DEF TypeOK, Table, InTable, UpsertEdit, ClassifiedRow
<1>3. ASSUME NEW y \in Payloads
      PROVE  /\ Unread(y)' <=> Unread(y)
             /\ PendingRetry(y, committed["retrier"])' <=> PendingRetry(y, committed["retrier"])
             /\ InDlq(y)' <=> InDlq(y)
  BY DEF Unread, PendingRetry, InDlq, topics
<1>4. Mapped' = [Mapped EXCEPT ![e] = @ \cup {"table"}]
  BY <1>1, <1>2, <1>3, OneGained DEF Holds, Everywhere
<1> QED BY <1>1, <1>4, GainRefines DEF Everywhere

\* A failed row is not a verdict, and takes none back.
LEMMA FailedRowQuiet ==
    ASSUME rows \in Table, NEW d, rows' = rows \/ rows' = UpsertFailedEdit(rows, d)
    PROVE  \A e \in Edits : InTable(e)' <=> InTable(e)
  BY DEF Table, InTable, UpsertFailedEdit, FailedRow

\* When the worker commits, its topic lets go of the record, which by then has
\* another home (HandedOn), unless another copy is still unread.
LEMMA WorkerCommitRefines ==
    ASSUME CustodyInv, pc["worker"] = "commit",
           committed' = [committed EXCEPT !["worker"] = position["worker"]],
           UNCHANGED <<topics, rows>>
    PROVE  C!Next \/ Mapped' = Mapped
<1> DEFINE c == committed["worker"]
<1> PICK x : x = raw[position["worker"]]
  OBVIOUS
<1>1. /\ c \in Nat /\ position["worker"] = c + 1 /\ position["worker"] \in 1 .. Len(raw)
      /\ x \in Payloads /\ committed'["worker"] = c + 1
      /\ committed'["retrier"] = committed["retrier"]
  <2>1. "worker" \in Processes /\ "retrier" \in Processes /\ InFlight("worker")
    BY DEF Processes, InFlight
  <2>2. c \in Nat /\ position["worker"] = c + 1 /\ committed \in [Processes -> Nat]
    BY <2>1 DEF CustodyInv, TypeOK, OffsetsOK
  <2>3. position["worker"] \in 1 .. Len(raw) /\ x \in Payloads
    BY <2>1, PayloadType DEF CustodyInv, Topic, Payload
  <2> QED BY <2>1, <2>2, <2>3
<1>2. ASSUME NEW y \in Payloads
      PROVE  /\ Unread(y)' => Unread(y)
             /\ y # x => (Unread(y)' <=> Unread(y))
  <2>1. Len(raw) \in Nat /\ raw' = raw
    BY DEF CustodyInv, TypeOK, TopicsOK, topics
  <2> QED BY <1>1, <2>1 DEF Unread
<1>3. ASSUME NEW y \in Payloads
      PROVE  /\ PendingRetry(y, committed["retrier"])' <=> PendingRetry(y, committed["retrier"])
             /\ InDlq(y)' <=> InDlq(y)
             /\ InTable(y)' <=> InTable(y)
  BY <1>1 DEF PendingRetry, InDlq, InTable, topics
<1>4. CASE Unread(x)'
  <2>1. Unread(x)
    BY <1>1, <1>2, <1>4
  <2>2. \A y \in Payloads : Unread(y)' <=> Unread(y)
    BY <1>2, <1>4, <2>1
  <2> QED BY <1>3, <2>2, NothingMoves DEF Holds
<1>5. CASE ~Unread(x)'
  <2>1. Mapped' = [Mapped EXCEPT ![x] = @ \ {"raw"}]
    <3>1. \A q \in Everywhere, y \in Payloads : Holds(q, y)' <=> Holds(q, y) /\ ~(q = "raw" /\ y = x)
      BY <1>2, <1>3, <1>5 DEF Holds, Everywhere
    <3> QED BY <1>1, <3>1, OneLost DEF Everywhere
  <2>2. \E q \in Everywhere \ {"raw"} : Holds(q, x)
    BY DEF CustodyInv, HandedOn, Kept, Holds, Everywhere
  <2> QED BY <1>1, <2>1, <2>2, LossRefines
<1> QED BY <1>4, <1>5

\* The same of the retrier, whose record's other home is not the envelope being
\* committed.
LEMMA RetrierCommitRefines ==
    ASSUME CustodyInv, pc["retrier"] = "commit",
           committed' = [committed EXCEPT !["retrier"] = position["retrier"]],
           UNCHANGED <<topics, rows>>
    PROVE  C!Next \/ Mapped' = Mapped
<1> DEFINE x == retry[position["retrier"]].payload
           c == committed["retrier"]
<1>1. /\ c \in Nat /\ position["retrier"] = c + 1 /\ position["retrier"] \in 1 .. Len(retry)
      /\ x \in Payloads /\ committed'["retrier"] = c + 1
      /\ committed'["worker"] = committed["worker"]
  <2>1. "worker" \in Processes /\ "retrier" \in Processes /\ InFlight("retrier")
    BY DEF Processes, InFlight
  <2>2. c \in Nat /\ position["retrier"] = c + 1 /\ committed \in [Processes -> Nat]
    BY <2>1 DEF CustodyInv, TypeOK, OffsetsOK
  <2>3. position["retrier"] \in 1 .. Len(retry) /\ x \in Payloads
    BY <2>1, PayloadType DEF CustodyInv, Topic, Payload
  <2> QED BY <2>1, <2>2, <2>3
<1>2. ASSUME NEW y \in Payloads
      PROVE  /\ PendingRetry(y, c + 1) => PendingRetry(y, c)
             /\ y # x => (PendingRetry(y, c + 1) <=> PendingRetry(y, c))
  <2>1. Len(retry) \in Nat
    BY DEF CustodyInv, TypeOK, TopicsOK
  <2> QED BY <1>1, <2>1 DEF PendingRetry
<1>3. ASSUME NEW y \in Payloads
      PROVE  /\ PendingRetry(y, committed["retrier"])' <=> PendingRetry(y, c + 1)
             /\ Unread(y)' <=> Unread(y)
             /\ InDlq(y)' <=> InDlq(y)
             /\ InTable(y)' <=> InTable(y)
  BY <1>1 DEF PendingRetry, Unread, InDlq, InTable, topics
<1>4. Kept(x, c + 1)
  BY <1>1 DEF CustodyInv, HandedOn
<1>5. CASE PendingRetry(x, c + 1)
  <2>1. \A y \in Payloads : PendingRetry(y, c + 1) <=> PendingRetry(y, c)
    BY <1>2, <1>5
  <2> QED BY <1>3, <2>1, NothingMoves DEF Holds
<1>6. CASE ~PendingRetry(x, c + 1)
  <2>1. Mapped' = [Mapped EXCEPT ![x] = @ \ {"retry"}]
    <3>1. \A q \in Everywhere, y \in Payloads : Holds(q, y)' <=> Holds(q, y) /\ ~(q = "retry" /\ y = x)
      BY <1>2, <1>3, <1>6 DEF Holds, Everywhere
    <3> QED BY <1>1, <3>1, OneLost DEF Everywhere
  <2>2. \E q \in Everywhere \ {"retry"} : Holds(q, x)
    BY <1>4, <1>6 DEF Kept, Holds, Everywhere
  <2> QED BY <1>1, <2>1, <2>2, LossRefines
<1> QED BY <1>5, <1>6

---------------------------------------------------------------------------
(***************************************************************************)
(* Every step maps to a step of Custody, or to a stutter.                  *)
(***************************************************************************)

\* The record in flight is held by the topic it was taken from.
LEMMA FlightHeld ==
    ASSUME CustodyInv, OutboxInv, NEW p \in Processes, InFlight(p),
           p = "sweeper" => Understood(p)
    PROVE  \E q \in Everywhere : Holds(q, Payload(p))
<1>1. /\ position[p] \in 1 .. Len(Topic(p)) /\ committed[p] \in Nat
      /\ position[p] = committed[p] + 1
  BY PayloadType DEF CustodyInv, TypeOK, OffsetsOK
<1>2. CASE p = "worker"
  <2>1. Unread(Payload(p))
    BY <1>1, <1>2 DEF Unread, Payload, Topic
  <2> QED BY <2>1 DEF Holds, Everywhere
<1>3. CASE p = "retrier"
  <2>1. PendingRetry(Payload(p), committed["retrier"])
    BY <1>1, <1>3 DEF PendingRetry, Payload, Topic
  <2> QED BY <2>1 DEF Holds, Everywhere
<1>4. CASE p = "sweeper"
  <2>1. Classifiable(dlq[position[p]])
    BY <1>4 DEF OutboxInv, ReadyToPublish, Understood
  <2>2. InDlq(Payload(p))
    BY <1>1, <1>4, <2>1 DEF InDlq, Payload, Topic, Classifiable
  <2> QED BY <2>2 DEF Holds, Everywhere
<1> QED BY <1>2, <1>3, <1>4 DEF Processes

\* Writing a verdict hands its edit on to the table; writing a failed row moves
\* nothing.
LEMMA WriteRefines ==
    ASSUME CustodyInv, OutboxInv, NEW p \in Processes, NEW step,
           WriteVerdict(p, step) \/ WriteFailed(p) \/ WriteUnacknowledged(p)
    PROVE  C!Next \/ Mapped' = Mapped
<1>1. pc[p] \in {"write", "writeFailed"} /\ UNCHANGED <<topics, committed>>
  BY DEF WriteVerdict, WriteFailed, WriteUnacknowledged, consumer
<1>2. InFlight(p) /\ Understood(p) /\ Payload(p) \in Edits
  BY <1>1 DEF InFlight, Understood, CustodyInv, ControlOK
<1>3. CASE rows' = UpsertEdit(rows, Payload(p), verdict[p])
  <2>1. \E q \in Everywhere : Holds(q, Payload(p))
    BY <1>2, FlightHeld
  <2> QED BY <1>1, <1>2, <1>3, <2>1, TableGains DEF CustodyInv
<1>4. CASE rows' = rows \/ rows' = UpsertFailedEdit(rows, Payload(p))
  BY <1>1, <1>4, FailedRowQuiet, QuietStep DEF CustodyInv, TypeOK
<1> QED
  BY <1>3, <1>4 DEF WriteVerdict, WriteFailed, WriteUnacknowledged, UseClosedConnection

\* Publishing a failure, or parking, hands the record on to a topic.
LEMMA PublishRefines ==
    ASSUME CustodyInv, OutboxInv, NEW p \in {"worker", "retrier"}, NEW attempts,
           PublishFailure(p, attempts) \/ Park(p)
    PROVE  C!Next \/ Mapped' = Mapped
<1>1. p \in Processes /\ p # "sweeper" /\ InFlight(p) /\ UNCHANGED <<raw, rows, committed>>
  BY DEF PublishFailure, Park, InFlight, Processes, consumer
<1>2. PICK x : x = Payload(p)
  OBVIOUS
<1>3. x \in Payloads /\ \E q \in Everywhere : Holds(q, x)
  BY <1>1, <1>2, PayloadType, FlightHeld DEF CustodyInv
<1>4. PICK e : /\ e.payload = x
               /\ \/ retry' = Append(retry, e) /\ dlq' = dlq
                  \/ dlq' = Append(dlq, e) /\ retry' = retry
  <2>1. /\ MakeEnvelope(TransientExhausted, "transient", x, attempts).payload = x
        /\ MakeEnvelope(TransientReason(attempts), "transient", x, attempts).payload = x
        /\ MakeEnvelope(ParseFailed, "parse", x, attempts).payload = x
        /\ MalformedEnvelope(outcome[p], x).payload = x
    BY DEF MakeEnvelope, MalformedEnvelope
  <2> QED BY <1>2, <2>1 DEF PublishFailure, Park
<1> QED BY <1>1, <1>3, <1>4, RetryGains, DlqGains DEF CustodyInv

\* The sweeper's requeue leaves its edit in the DLQ.
LEMMA RequeueRefines ==
    ASSUME CustodyInv, OutboxInv, SweepRequeue
    PROVE  C!Next \/ Mapped' = Mapped
<1>1. /\ "sweeper" \in Processes /\ InFlight("sweeper") /\ Understood("sweeper")
      /\ UNCHANGED <<raw, retry, rows, committed>>
  BY DEF SweepRequeue, Processes, InFlight, Understood, consumer
<1>2. PICK x : x = Payload("sweeper")
  OBVIOUS
<1>3. x \in Payloads /\ \E q \in Everywhere : Holds(q, x)
  BY <1>1, <1>2, PayloadType, FlightHeld DEF CustodyInv
<1>4. PICK e : e.payload = x /\ dlq' = Append(dlq, e)
  BY <1>2 DEF SweepRequeue, MakeEnvelope
<1> QED BY <1>1, <1>3, <1>4, DlqGains DEF CustodyInv

\* A producer's record is accepted, and so is a newer release's envelope for
\* the retrier; one in the DLQ that this code cannot read holds nothing.
LEMMA ProduceRefines ==
    ASSUME CustodyInv, Produces
    PROVE  C!Next \/ Mapped' = Mapped
<1>1. CASE \E x \in Payloads : Produce(x)
  BY <1>1, RawGains DEF CustodyInv, Produce, consumer
<1>2. ASSUME NEW x \in Edits, ProduceNewer(x)
      PROVE  C!Next \/ Mapped' = Mapped
  <2>1. /\ NewerEnvelope(x).payload = x /\ NewerEnvelope(x).schema # EnvelopeSchema
        /\ x \in Payloads
    BY ConsumersAssumption DEF NewerEnvelope, MakeEnvelope, NewerSchema, EnvelopeSchema
  <2>2. PICK e : e = NewerEnvelope(x)
    OBVIOUS
  <2> QED BY <1>2, <2>1, <2>2, RetryGains, DlqGains DEF CustodyInv, ProduceNewer, consumer
<1> QED BY <1>1, <1>2 DEF Produces

\* Committing, by the worker or the retrier, releases the record or moves
\* nothing; a sweeper's commit moves nothing.
LEMMA CommitRefines ==
    ASSUME CustodyInv, NEW p \in {"worker", "retrier"}, Commit(p) \/ CommitAndTrip(p)
    PROVE  C!Next \/ Mapped' = Mapped
<1>1. /\ pc[p] = "commit" /\ committed' = [committed EXCEPT ![p] = position[p]]
      /\ UNCHANGED <<topics, rows>>
  BY DEF Commit, CommitAndTrip, GoDown
<1> QED BY <1>1, WorkerCommitRefines, RetrierCommitRefines

\* The steps between the code's effects, and processes coming and going.
LEMMA OtherRefines ==
    ASSUME CustodyInv, NEW p \in Processes,
           \/ \E step, result : Receive(p, step, result)
           \/ \E step : Classify(p, step)
           \/ CheckStatus \/ Restart(p) \/ Crash(p) \/ ClassifyEscapes(p) \/ DropConn(p)
           \/ SweepStart \/ SweepCommit \/ SweepFinish
    PROVE  Mapped' = Mapped
<1>1. committed \in [Processes -> Nat] /\ "worker" \in Processes /\ "retrier" \in Processes
  BY DEF CustodyInv, TypeOK, OffsetsOK, Processes
<1>2. UNCHANGED topics /\ rows' = rows
  BY DEF Receive, Classify, CheckStatus, UseClosedConnection, Restart, Crash, ClassifyEscapes,
         DropConn, SweepStart, SweepCommit, SweepFinish
<1>3. UNCHANGED <<committed["worker"], committed["retrier"]>>
  BY <1>1
     DEF Receive, Classify, CheckStatus, Restart, Crash, ClassifyEscapes, DropConn, GoDown,
         SweepStart, SweepCommit, SweepFinish, consumer
<1>4. \A e \in Edits : InTable(e)' <=> InTable(e)
  BY <1>2 DEF InTable
<1> QED BY <1>2, <1>3, <1>4, QuietStep

\* Every step of the service is a step of Custody, or a stutter.
LEMMA NextRefines ==
    ASSUME CustodyInv, OutboxInv, [Next]_vars
    PROVE  C!Next \/ Mapped' = Mapped
<1>1. "worker" \in Processes /\ "retrier" \in Processes /\ "sweeper" \in Processes
  BY DEF Processes
<1>2. CASE WorkerMoves
  <2>1. WorkerReceive => \E step, result : Receive("worker", step, result)
    BY DEF WorkerReceive
  <2> QED
    BY <1>1, <1>2, <2>1, OtherRefines, WriteRefines, PublishRefines, CommitRefines
       DEF WorkerMoves, WorkerStep, WorkerDisturbance, WorkerPublish
<1>3. CASE RetrierMoves
  <2>1. RetrierReceive => \E step, result : Receive("retrier", step, result)
    BY DEF RetrierReceive
  <2> QED
    BY <1>1, <1>3, <2>1, OtherRefines, WriteRefines, PublishRefines, CommitRefines
       DEF RetrierMoves, RetrierStep, RetrierDisturbance, RetrierPublish
<1>4. CASE SweeperMoves
  <2>1. SweepReceive => \E step, result : Receive("sweeper", step, result)
    BY DEF SweepReceive
  <2> QED
    BY <1>1, <1>4, <2>1, OtherRefines, WriteRefines, RequeueRefines
       DEF SweeperMoves, SweeperStep, SweeperDisturbance
<1>5. CASE Produces
  BY <1>5, ProduceRefines
<1>6. CASE UNCHANGED vars
  BY <1>6, QuietStep DEF vars, consumer, InTable
<1> QED
  BY <1>2, <1>3, <1>4, <1>5, <1>6
     DEF Next, Environment, WorkerMoves, RetrierMoves, SweeperMoves, Produces

\* The service implements Custody: whatever is accepted is always held
\* somewhere, and no topic lets go of a payload nothing else holds.
THEOREM CustodyKeptCorrect == Spec => CustodyKept
<1>1. Init => C!Init
  BY DEF Init, ConsumersInit, C!Init, Holders, Holds, Unread, PendingRetry, InDlq, InTable,
         AbsentRow
<1>2. CustodyInv /\ OutboxInv /\ [Next]_vars => [C!Next]_Mapped
  BY NextRefines
<1>3. CustodyInv /\ OutboxInv /\ [Next]_vars => [C!Next]_([x \in Payloads |-> Holders(x)])
  BY <1>2 DEF Mapped
<1> QED BY <1>1, <1>3, CustodyInvCorrect, OutboxInvCorrect, PTL DEF Spec, CustodyKept, C!Spec
===========================================================================
