----------------------------- MODULE Pipeline -----------------------------
(***************************************************************************)
(* The whole service: the ingest side that fills wiki.edits.raw, the       *)
(* worker, the retrier and the sweeper over the shared topics and table,   *)
(* and the disturbances they meet.                                         *)
(***************************************************************************)
EXTENDS Worker, Retrier, Sweeper, FiniteSets

CONSTANT MaxRaw      \* bound on the records produced

ASSUME MaxRawAssumption == MaxRaw \in Nat

Garbage == Payloads \ Edits

---------------------------------------------------------------------------
(***************************************************************************)
(* The environment.                                                        *)
(***************************************************************************)

\* The ingest pipeline appends a record; it is at-least-once, so the same
\* edit may come again.
Produce(x) ==
    /\ Len(raw) < MaxRaw
    /\ raw' = Append(raw, x)
    /\ UNCHANGED <<retry, dlq, rows, consumer, handler, database, breaker,
                   sweepEnd, spent>>

NewerEnvelope(x) == [MakeEnvelope(TransientExhausted, "transient", x, 1)
                        EXCEPT !.schema = NewerSchema]

\* A newer release's producer, running beside these consumers, writes an
\* envelope of a version they do not know.
ProduceNewer(x) ==
    /\ Spend("foreign")
    /\ \/ retry' = Append(retry, NewerEnvelope(x)) /\ UNCHANGED dlq
       \/ dlq' = Append(dlq, NewerEnvelope(x)) /\ UNCHANGED retry
    /\ UNCHANGED <<raw, rows, consumer, handler, database, breaker, sweepEnd>>

Environment ==
    \/ \E x \in Payloads : Produce(x)
    \/ \E e \in Edits : ProduceNewer(e)
    \/ WorkerDisturbance
    \/ RetrierDisturbance
    \/ SweeperDisturbance
    \/ SweepStart

Init == ConsumersInit

Next == WorkerStep \/ RetrierStep \/ SweeperStep \/ Environment

Spec == Init /\ [][Next]_vars

\* A running process takes its next step, Docker restarts a process that
\* exited, and a sweep once started is not suspended.  Nothing obliges anyone
\* to produce, to disturb, or to start a sweep.
Fairness == /\ WF_vars(WorkerStep)
            /\ WF_vars(RetrierStep)
            /\ WF_vars(SweeperStep)

FairSpec == Spec /\ Fairness

---------------------------------------------------------------------------
(***************************************************************************)
(* Types.                                                                  *)
(***************************************************************************)

RetrierPcs == PcValues \ {"check"}
SweeperPcs == PcValues \ {"check", "writeFailed", "park"}

InFlight(p) == pc[p] \notin {"down", "idle"}

TopicsOK ==
    /\ raw \in Seq(Payloads)
    /\ retry \in Seq(Envelope)
    /\ dlq \in Seq(Envelope)

OffsetsOK ==
    /\ committed \in [Processes -> Nat]
    /\ position \in [Processes -> Nat]
    /\ sweepEnd \in 0 .. Len(dlq)
    /\ \A p \in Processes :
        /\ position[p] <= Len(Topic(p))
        /\ position[p] = committed[p] + (IF InFlight(p) THEN 1 ELSE 0)

HandlersOK ==
    /\ pc \in [Processes -> PcValues]
    /\ pc["retrier"] \in RetrierPcs
    /\ pc["sweeper"] \in SweeperPcs
    /\ outcome \in [Processes -> Outcomes]
    /\ verdict \in [Processes -> Verdicts \cup {NoVerdict}]
    /\ conn \in [Processes -> {"open", "dropped", "closed"}]
    /\ swapped \in [Processes -> BOOLEAN]
    /\ breaker \in [Processes -> 0 .. BreakerThreshold - 1]

\* Every variable keeps its type; offsets stay within their topics, a process
\* has at most one uncommitted record, the one in flight, and a breaker at
\* its threshold is never left running.
TypeOK ==
    /\ TopicsOK
    /\ rows \in Table
    /\ OffsetsOK
    /\ HandlersOK
    /\ spent \in [Disturbances -> Nat]

---------------------------------------------------------------------------
(***************************************************************************)
(* Safety.                                                                 *)
(***************************************************************************)

Produced(x) == \E n \in 1 .. Len(raw) : raw[n] = x

\* x is an edit whose verdict is in the table.
InTable(x) == x \in Edits /\ rows[x].status = "classified"

\* x has an envelope this code can read in the DLQ, which never expires.
InDlq(x) ==
    \E n \in 1 .. Len(dlq) : dlq[n].schema = EnvelopeSchema /\ dlq[n].payload = x

\* The table shows x, failed or classified.
HasRow(x) == rows[x].status # "absent"

\* x has an envelope on the retry topic past the first n.
PendingRetry(x, n) ==
    \E m \in 1 .. Len(retry) : n < m /\ retry[m].payload = x

\* With the first n retry envelopes disposed of, x still has a home.
Kept(x, n) == InTable(x) \/ InDlq(x) \/ PendingRetry(x, n)

\* A committed record is never lost: whatever the worker or the retrier has
\* committed past is classified in the table, waits on the retry topic, or is
\* in the DLQ (handle_message: "a duplicate envelope, never a lost message").
NoLoss ==
    /\ \A n \in 1 .. committed["worker"] : Kept(raw[n], committed["retrier"])
    /\ \A n \in 1 .. committed["retrier"] :
            Kept(retry[n].payload, committed["retrier"])

\* A failure, however stale, never takes back a classified row
\* (FAILED_UPSERT_STMT's guard, against redelivery and against the three
\* processes writing the same row).
NoDowngrade ==
    [][\A e \in Edits : InTable(e) => InTable(e)']_vars

\* The DB write comes before the publish: an envelope for a classifier
\* failure is never visible on a topic before its edit has a row.
RowBeforeEnvelope ==
    /\ \A n \in 1 .. Len(retry) :
            Classifiable(retry[n]) => HasRow(retry[n].payload)
    /\ \A n \in 1 .. Len(dlq) :
            Classifiable(dlq[n]) => HasRow(dlq[n].payload)

\* No edit is put back for a pass beyond the budget, and one given up has had
\* exactly its budget: 1 + max_retry_passes passes.
AttemptsBounded ==
    /\ \A n \in 1 .. Len(retry) :
            Classifiable(retry[n]) => retry[n].attempts <= MaxRetryPasses
    /\ \A n \in 1 .. Len(dlq) :
            dlq[n].reason = RetriesExhausted =>
                dlq[n].attempts = 1 + MaxRetryPasses

\* An outage cannot feed itself: whatever is redelivered or duplicated, the
\* retry topic grows by at most max_retry_passes envelopes per record produced
\* and per crash.  A breaker trip costs none, because it commits first.
AmplificationBounded ==
    Len(retry) <=
        MaxRetryPasses * (Len(raw) + spent["crash"]) + spent["foreign"]

\* The sweeper commits past a classifiable envelope only when its edit is
\* classified, stands again further on in the DLQ, or was refused by Postgres
\* ("this record can never be persisted; skip it").
SweepAccounted ==
    [][LET n == committed'["sweeper"] IN
       n > committed["sweeper"] /\ Classifiable(dlq[n]) =>
           \/ InTable(dlq[n].payload)
           \/ \E m \in n + 1 .. Len(dlq) : dlq[m].payload = dlq[n].payload
           \/ outcome["sweeper"] = "data"]_vars

\* Postgres can refuse what a handler writes for x: x itself, or the answer the
\* model gives for it.
Refusable(x) == x \in UnfitEdits \/ UnstorableVerdicts # {}

\* The n-th DLQ entry reports a value that Postgres refused.
ReportsRefusal(n) == dlq[n].reason = Malformed /\ dlq[n].error = "data"

\* x came as something no handler can decode: not an edit, or in an envelope of
\* a version the retrier does not know.
Undecodable(x) ==
    \/ x \notin Edits
    \/ \E m \in 1 .. Len(retry) :
            retry[m].schema # EnvelopeSchema /\ retry[m].payload = x

\* A record is written off as malformed only for cause: it cannot be decoded,
\* Postgres can refuse it, or it is a victim of the connection guard_schema_error
\* hands back.  A victim comes after the refusal that poisoned the connection,
\* and there is none while no connection is lost.
MalformedForCause ==
    \A n \in 1 .. Len(dlq) : dlq[n].reason = Malformed =>
        \/ dlq[n].error = "decode" /\ Undecodable(dlq[n].payload)
        \/ dlq[n].error = "data" /\ Refusable(dlq[n].payload)
        \/ /\ dlq[n].error = "closed" /\ spent["drop"] > 0
           /\ \E m \in 1 .. n - 1 : ReportsRefusal(m)

\* The sweeper passes a classifiable envelope by, neither classified nor put
\* back, only for the same causes.
SweepSkipsForCause ==
    [][LET n == committed'["sweeper"] IN
       n > committed["sweeper"] /\ Classifiable(dlq[n]) =>
           \/ InTable(dlq[n].payload)
           \/ \E m \in n + 1 .. Len(dlq) : dlq[m].payload = dlq[n].payload
           \/ outcome["sweeper"] = "data" /\ Refusable(dlq[n].payload)
           \/ /\ outcome["sweeper"] = "closed" /\ spent["drop"] > 0
              /\ \E e \in Edits : Refusable(e)]_vars

\* One of the first n retry envelopes put x back after a passes.
Waited(x, a, n) ==
    \E m \in 1 .. n : /\ Classifiable(retry[m])
                       /\ retry[m].payload = x /\ retry[m].attempts = a

\* The passes an envelope counts were all taken: before an edit waits for its
\* a-th pass it has waited for every earlier one, and before it is given up it
\* has waited for all of them.
PassesTaken ==
    /\ \A n \in 1 .. Len(retry) : Classifiable(retry[n]) =>
            \A a \in 1 .. retry[n].attempts : Waited(retry[n].payload, a, n)
    /\ \A n \in 1 .. Len(dlq) : dlq[n].reason = RetriesExhausted =>
            \A a \in 1 .. MaxRetryPasses : Waited(dlq[n].payload, a, Len(retry))

---------------------------------------------------------------------------
(***************************************************************************)
(* The invariant that NoLoss follows from, inductive with TypeOK.          *)
(***************************************************************************)

\* What a handler knows of the record it is working on: a failure before a
\* publish, a rejection before a park, and an edit wherever one is classified.
ControlOK ==
    /\ \A p \in Processes :
        /\ pc[p] \in {"writeFailed", "publish"} => outcome[p] \in Failures
        /\ pc[p] = "park" => outcome[p] \in Rejections
        /\ pc[p] \in {"check", "classify", "write", "writeFailed", "publish"} =>
                Payload(p) \in Edits
    /\ \A n \in 1 .. Len(retry) : retry[n].payload \in Edits
    /\ \A n \in 1 .. Len(dlq) : Classifiable(dlq[n]) => dlq[n].payload \in Edits

\* A record about to be committed already has its other home; for the retrier,
\* one that does not count the very envelope being committed.
HandedOn ==
    /\ pc["worker"] = "commit" =>
            Kept(raw[position["worker"]], committed["retrier"])
    /\ pc["retrier"] = "commit" =>
            Kept(retry[position["retrier"]].payload, position["retrier"])

CustodyInv == TypeOK /\ ControlOK /\ NoLoss /\ HandedOn

---------------------------------------------------------------------------
(***************************************************************************)
(* The invariant that RowBeforeEnvelope and AttemptsBounded follow from.   *)
(***************************************************************************)

\* A handler about to publish a failure has written its row; the retrier and
\* the sweeper work only on envelopes they understand.
ReadyToPublish ==
    /\ \A p \in {"worker", "retrier"} : pc[p] = "publish" => HasRow(Payload(p))
    /\ InFlight("retrier") /\ pc["retrier"] \notin {"park", "commit"} =>
            Classifiable(retry[position["retrier"]])
    /\ InFlight("sweeper") /\ pc["sweeper"] # "commit" =>
            Classifiable(dlq[position["sweeper"]])

\* Only transient failures wait on the retry topic.
RetryReasonsOK ==
    \A n \in 1 .. Len(retry) : retry[n].reason = TransientExhausted

OutboxInv ==
    /\ TypeOK /\ ControlOK
    /\ RowBeforeEnvelope /\ AttemptsBounded
    /\ ReadyToPublish /\ RetryReasonsOK

---------------------------------------------------------------------------
(***************************************************************************)
(* The invariant that MalformedForCause and SweepSkipsForCause follow      *)
(* from.                                                                   *)
(***************************************************************************)

\* p was refused a value before: the DLQ shows it, except for the sweeper, which
\* passes such a record by.
Refused(p) ==
    IF p = "sweeper" THEN \E e \in Edits : Refusable(e)
                     ELSE \E m \in 1 .. Len(dlq) : ReportsRefusal(m)

\* p's connection, and what p holds against the record in flight, have a cause.
CauseOK(p) ==
    /\ conn[p] # "open" \/ swapped[p] => spent["drop"] > 0
    /\ swapped[p] => InFlight(p)
    /\ conn[p] = "closed" => Refused(p)
    /\ outcome[p] \in Rejections => pc[p] \in {"park", "commit"}
    /\ outcome[p] = "decode" => ~swapped[p] /\ Undecodable(Payload(p))
    /\ outcome[p] = "data" => Refusable(Payload(p)) /\ (pc[p] = "commit" => Refused(p))
    /\ outcome[p] = "closed" => Refused(p) /\ spent["drop"] > 0

CauseInv ==
    /\ OutboxInv /\ MalformedForCause
    /\ \A p \in Processes : CauseOK(p)
    /\ spent["drop"] <= Budget["drop"]

---------------------------------------------------------------------------
(***************************************************************************)
(* The invariant that AmplificationBounded follows from.  The entries of   *)
(* the retry topic descend from one another: each is the first attempt of  *)
(* a record the worker took, or one pass more than an entry the retrier    *)
(* took.  So a pass number occurs at most once per taking of a raw record, *)
(* and a taking costs an advance of the worker or a crash.                 *)
(***************************************************************************)

\* Records p's handler is done with, the one about to be committed included.
Disposed(p) == committed[p] + (IF pc[p] = "commit" THEN 1 ELSE 0)

\* How often a record can have been handed over, counting every crash as one
\* that made a process repeat itself.
HandOvers == Disposed("worker") + spent["crash"]

\* Entries of the retry log with `attempts` passes behind them, or that can
\* still lead to one once the first `done` entries are disposed of.
Leading(log, done, attempts) ==
    {n \in 1 .. Len(log) :
        /\ log[n].schema = EnvelopeSchema
        /\ \/ log[n].attempts = attempts
           \/ log[n].attempts < attempts /\ done < n}

\* Entries of a version the retrier does not know.
Unknown(log) == {n \in 1 .. Len(log) : log[n].schema # EnvelopeSchema}

LineageOK ==
    /\ \A n \in 1 .. Len(retry) : retry[n].attempts >= 1
    /\ \A a \in 1 .. MaxRetryPasses :
            Cardinality(Leading(retry, Disposed("retrier"), a)) <= HandOvers
    /\ Cardinality(Unknown(retry)) <= spent["foreign"]

AmplificationInv == OutboxInv /\ LineageOK

---------------------------------------------------------------------------
(***************************************************************************)
(* Liveness.                                                               *)
(***************************************************************************)

\* In the end no classify() raises what no handler catches.
ClassifyReturns == <>[][\A p \in Processes : ~ClassifyEscapes(p)]_vars

\* Unless classify() raises the uncaught for ever, every record produced is in
\* the end classified or in the DLQ: retries stop, the breaker's crash loop gets
\* through its backlog, and redelivery after a crash or after any number of
\* escapes resumes where it left off.
EventuallySettled ==
    ClassifyReturns =>
        \A x \in Payloads : Produced(x) ~> (InTable(x) \/ InDlq(x))

\* A sweep ends, although it writes to the topic it reads.
SweepEnds == pc["sweeper"] # "down" ~> pc["sweeper"] = "down"

---------------------------------------------------------------------------
(***************************************************************************)
(* The pipeline implements Custody.                                        *)
(***************************************************************************)

\* The worker's group still has to read x.
Unread(x) ==
    \E n \in 1 .. Len(raw) : committed["worker"] < n /\ raw[n] = x

Holds(place, x) ==
    \/ place = "raw" /\ Unread(x)
    \/ place = "retry" /\ PendingRetry(x, committed["retrier"])
    \/ place = "dlq" /\ InDlq(x)
    \/ place = "table" /\ InTable(x)

Holders(x) == {place \in {"raw", "retry", "dlq", "table"} : Holds(place, x)}

C == INSTANCE Custody WITH holders <- [x \in Payloads |-> Holders(x)]

CustodyKept == C!Spec
===========================================================================
