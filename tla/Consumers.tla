---------------------------- MODULE Consumers ----------------------------
(***************************************************************************)
(* What the worker, the retrier and the sweeper share: the three Kafka     *)
(* topics, the edits table, and for each process the handler's program     *)
(* counter and local state.  The modules Worker, Retrier and Sweeper put   *)
(* these steps in the order of their own handlers.                         *)
(*                                                                         *)
(* A topic is an immutable log (rpk topic create: one partition, the DLQ   *)
(* with retention.ms=-1).  A process reads the record at position[p], the  *)
(* in-flight one, and resumes after a restart from committed[p].           *)
(***************************************************************************)
EXTENDS Envelopes, EditsTable, Sequences

CONSTANTS
    BreakerThreshold,  \* settings.breaker_threshold
    Budget,            \* bound on each kind of disturbance
    DlqCap             \* bound on the DLQ the sweeper still requeues to

Disturbances == {"crash", "drop", "foreign", "sweep"}

ASSUME ConsumersAssumption ==
    /\ Edits \subseteq Payloads
    /\ BreakerThreshold \in Nat \ {0}
    /\ Budget \in [Disturbances -> Nat]
    /\ DlqCap \in Nat

Processes == {"worker", "retrier", "sweeper"}

VARIABLES
    raw,        \* wiki.edits.raw: payloads
    retry,      \* wiki.edits.retry: envelopes
    dlq,        \* wiki.edits.dlq: envelopes
    rows,       \* the edits table
    committed,  \* records each consumer group has committed
    position,   \* records each process has taken from its topic
    pc,         \* where each handler is
    outcome,    \* what became of the record in flight
    verdict,    \* the classification about to be written
    conn,       \* the Postgres connection object the handler uses
    swapped,    \* whether the handler reconnected during this record
    breaker,    \* consecutive_failures of each circuit breaker
    sweepEnd,   \* where this sweep stops
    spent       \* disturbances so far

topics   == <<raw, retry, dlq>>
consumer == <<committed, position>>
handler  == <<pc, outcome, verdict>>
database == <<conn, swapped>>
vars     == <<topics, rows, consumer, handler, database, breaker, sweepEnd,
              spent>>

PcValues == {"down", "idle", "check", "classify", "write", "writeFailed",
             "publish", "park", "commit"}
Outcomes == {"none", "ok", "skip"} \cup Failures \cup Rejections

\* The log a process consumes.
Topic(p) == IF p = "worker" THEN raw ELSE IF p = "retrier" THEN retry ELSE dlq

\* The original payload of the record in flight.
Payload(p) ==
    IF p = "worker" THEN raw[position[p]] ELSE Topic(p)[position[p]].payload

Spend(kind) ==
    /\ spent[kind] < Budget[kind]
    /\ spent' = [spent EXCEPT ![kind] = @ + 1]

---------------------------------------------------------------------------
(***************************************************************************)
(* Processes coming and going.                                             *)
(***************************************************************************)

ConsumersInit ==
    /\ raw = <<>> /\ retry = <<>> /\ dlq = <<>>
    /\ rows = [e \in Edits |-> AbsentRow]
    /\ committed = [p \in Processes |-> 0]
    /\ position  = [p \in Processes |-> 0]
    /\ pc = [p \in Processes |-> "down"]
    /\ outcome = [p \in Processes |-> "none"]
    /\ verdict = [p \in Processes |-> NoVerdict]
    /\ conn = [p \in Processes |-> "open"]
    /\ swapped = [p \in Processes |-> FALSE]
    /\ breaker = [p \in Processes |-> 0]
    /\ sweepEnd = 0
    /\ spent = [k \in Disturbances |-> 0]

\* The process dies with `offset` as its group's committed offset: everything
\* it held in memory is gone, and a new one starts from that offset with a
\* fresh connection and a fresh breaker.
GoDown(p, offset) ==
    /\ pc' = [pc EXCEPT ![p] = "down"]
    /\ committed' = [committed EXCEPT ![p] = offset]
    /\ position' = [position EXCEPT ![p] = offset]
    /\ outcome' = [outcome EXCEPT ![p] = "none"]
    /\ verdict' = [verdict EXCEPT ![p] = NoVerdict]
    /\ conn' = [conn EXCEPT ![p] = "open"]
    /\ swapped' = [swapped EXCEPT ![p] = FALSE]
    /\ breaker' = [breaker EXCEPT ![p] = 0]
    /\ sweepEnd' = IF p = "sweeper" THEN 0 ELSE sweepEnd

\* Killed at any point between two steps: a signal, the OOM killer, a Kafka
\* error nobody catches, a Postgres that stays away through db.connect's
\* retries.  A publish or a write whose acknowledgement never came is the
\* step followed by this one.
Crash(p) ==
    /\ pc[p] # "down"
    /\ Spend("crash")
    /\ GoDown(p, committed[p])
    /\ UNCHANGED <<topics, rows>>

\* restart: unless-stopped.
Restart(p) ==
    /\ pc[p] = "down"
    /\ pc' = [pc EXCEPT ![p] = "idle"]
    /\ UNCHANGED <<topics, rows, consumer, outcome, verdict, database, breaker,
                   sweepEnd, spent>>

\* Postgres or the network drops a connection; the process notices only when
\* it next runs a statement on it.
DropConn(p) ==
    /\ pc[p] # "down" /\ conn[p] = "open"
    /\ Spend("drop")
    /\ conn' = [conn EXCEPT ![p] = "dropped"]
    /\ UNCHANGED <<topics, rows, consumer, handler, swapped, breaker, sweepEnd>>

---------------------------------------------------------------------------
(***************************************************************************)
(* The steps of a handler.                                                 *)
(***************************************************************************)

\* (Bug variant: the offset is committed when the record is taken.)
ReceiveCommitted(p, step, result) ==
    /\ pc[p] = "idle"
    /\ position' = [position EXCEPT ![p] = @ + 1]
    /\ committed' = position'
    /\ pc' = [pc EXCEPT ![p] = step]
    /\ outcome' = [outcome EXCEPT ![p] = result]
    /\ UNCHANGED <<topics, rows, verdict, database, breaker, sweepEnd, spent>>

\* Take the next record and go to `step`, with `result` as what is already
\* known of it.
Receive(p, step, result) ==
    /\ pc[p] = "idle"
    /\ position' = [position EXCEPT ![p] = @ + 1]
    /\ pc' = [pc EXCEPT ![p] = step]
    /\ outcome' = [outcome EXCEPT ![p] = result]
    /\ UNCHANGED <<topics, rows, committed, verdict, database, breaker, sweepEnd,
                   spent>>

\* Move the record in flight to `step` with `result`.
Proceed(p, step, result) ==
    /\ pc' = [pc EXCEPT ![p] = step]
    /\ outcome' = [outcome EXCEPT ![p] = result]

\* A statement reaches Postgres: directly on an open connection, or on the new
\* one that write_with_reconnect (read_with_reconnect) opens after closing the
\* one that was dropped.
UseConnection(p) ==
    /\ conn[p] # "closed"
    /\ conn' = [conn EXCEPT ![p] = "open"]
    /\ swapped' = [swapped EXCEPT ![p] = @ \/ conn[p] = "dropped"]

\* A statement on a connection object somebody closed raises
\* ResourceClosedError, which is not in CONNECTION_ERRORS: no reconnect, and
\* the handler takes its data-error path to `step`.
UseClosedConnection(p, step) ==
    /\ conn[p] = "closed"
    /\ Proceed(p, step, "closed")
    /\ UNCHANGED <<rows, database>>

\* (Bug variant: publish a failure without writing its row first.)
ClassifyPublishFirst(p, onFailure) ==
    /\ pc[p] = "classify"
    /\ \/ /\ Proceed(p, "write", "ok")
          /\ \E v \in Verdicts : verdict' = [verdict EXCEPT ![p] = v]
       \/ /\ \E f \in Failures : Proceed(p, "publish", f)
          /\ UNCHANGED verdict
    /\ UNCHANGED <<topics, rows, consumer, database, breaker, sweepEnd, spent>>

\* classify() returns a verdict, or raises ModelUnavailableError or
\* ClassificationParseError, which the handler takes to `onFailure`.  What else
\* it may raise is ClassifyEscapes.
Classify(p, onFailure) ==
    /\ pc[p] = "classify"
    /\ \/ /\ Proceed(p, "write", "ok")
          /\ \E v \in Verdicts : verdict' = [verdict EXCEPT ![p] = v]
       \/ /\ \E f \in Failures : Proceed(p, onFailure, f)
          /\ UNCHANGED verdict
    /\ UNCHANGED <<topics, rows, consumer, database, breaker, sweepEnd, spent>>

\* classify() raises what no handler catches: ModelConfigError, the TypeError of
\* call_model that is not about the key, or the TypeError (a label that is a
\* list or an object) or OverflowError (an integer too large for a float) of
\* normalize.  The process exits with nothing written and nothing committed,
\* and meets the same record when it is back, any number of times.
ClassifyEscapes(p) ==
    /\ pc[p] = "classify"
    /\ GoDown(p, committed[p])
    /\ UNCHANGED <<topics, rows, spent>>

\* upsert_edit with the verdict; data that does not fit takes the handler to
\* `onDataError`.
WriteVerdict(p, onDataError) ==
    /\ pc[p] = "write"
    /\ \/ /\ UseConnection(p)
          /\ VerdictFits(Payload(p), verdict[p])
          /\ rows' = UpsertEdit(rows, Payload(p), verdict[p])
          /\ Proceed(p, "commit", "ok")
       \/ /\ UseConnection(p)
          /\ ~VerdictFits(Payload(p), verdict[p])
          /\ Proceed(p, onDataError, "data")
          /\ UNCHANGED rows
       \/ UseClosedConnection(p, onDataError)
    /\ verdict' = [verdict EXCEPT ![p] = NoVerdict]
    /\ UNCHANGED <<topics, consumer, breaker, sweepEnd, spent>>

\* upsert_failed_edit, with the failure's provenance, before anything is
\* published.
WriteFailed(p) ==
    /\ pc[p] = "writeFailed"
    /\ \/ /\ UseConnection(p)
          /\ FailedRowFits(Payload(p))
          /\ rows' = UpsertFailedEdit(rows, Payload(p))
          /\ pc' = [pc EXCEPT ![p] = "publish"]
          /\ UNCHANGED outcome
       \/ /\ UseConnection(p)
          /\ ~FailedRowFits(Payload(p))
          /\ Proceed(p, "park", "data")
          /\ UNCHANGED rows
       \/ UseClosedConnection(p, "park")
    /\ UNCHANGED <<topics, consumer, verdict, breaker, sweepEnd, spent>>

\* Postgres applies a write and the connection drops before the answer: the
\* handler is still at the write, and reconnects and repeats it.
WriteUnacknowledged(p) ==
    /\ conn[p] = "open"
    /\ \/ /\ pc[p] = "write"
          /\ VerdictFits(Payload(p), verdict[p])
          /\ rows' = UpsertEdit(rows, Payload(p), verdict[p])
       \/ /\ pc[p] = "writeFailed"
          /\ FailedRowFits(Payload(p))
          /\ rows' = UpsertFailedEdit(rows, Payload(p))
    /\ Spend("drop")
    /\ conn' = [conn EXCEPT ![p] = "dropped"]
    /\ UNCHANGED <<topics, consumer, handler, swapped, breaker, sweepEnd>>

\* Publish the envelope of a classifier failure and wait for the broker's ack.
\* Unusable output goes to the DLQ at once; a transient failure goes where
\* transient_destination says.
PublishFailure(p, attempts) ==
    /\ pc[p] = "publish"
    /\ \/ /\ outcome[p] = "transient"
          /\ TransientTopic(attempts) = RetryTopic
          /\ retry' = Append(retry, MakeEnvelope(TransientExhausted, "transient",
                                                 Payload(p), attempts))
          /\ UNCHANGED dlq
       \/ /\ outcome[p] = "transient"
          /\ TransientTopic(attempts) = DlqTopic
          /\ dlq' = Append(dlq, MakeEnvelope(TransientReason(attempts), "transient",
                                             Payload(p), attempts))
          /\ UNCHANGED retry
       \/ /\ outcome[p] = "parse"
          /\ dlq' = Append(dlq, MakeEnvelope(ParseFailed, "parse",
                                             Payload(p), attempts))
          /\ UNCHANGED retry
    /\ pc' = [pc EXCEPT ![p] = "commit"]
    /\ UNCHANGED <<raw, rows, consumer, outcome, verdict, database, breaker,
                   sweepEnd, spent>>

\* park_malformed's publish: the record's bytes go to the DLQ.
Park(p) ==
    /\ pc[p] = "park"
    /\ dlq' = Append(dlq, MalformedEnvelope(outcome[p], Payload(p)))
    /\ pc' = [pc EXCEPT ![p] = "commit"]
    /\ UNCHANGED <<raw, retry, rows, consumer, outcome, verdict, database,
                   breaker, sweepEnd, spent>>

\* (Bug variant: the connection from before the handler, whatever the outcome.)
CarriedStale(p) == IF swapped[p] THEN "closed" ELSE conn[p]

\* The connection the loop carries to its next record.  After a data error the
\* handler returns the connection it was called with: if it reconnected on the
\* way, that one has been closed.
CarriedConn(p) ==
    IF swapped[p] /\ outcome[p] \in Rejections THEN "closed" ELSE conn[p]

\* The breaker after this record: a transient failure counts, a verdict or
\* unusable output proves the API reachable, the rest says nothing.
BreakerAfter(p) ==
    CASE outcome[p] = "transient"      -> breaker[p] + 1
      [] outcome[p] \in {"ok", "parse"} -> 0
      [] OTHER                          -> breaker[p]

\* (Bug variant: the breaker trips one failure late.)
CommitLateTrip(p) ==
    /\ pc[p] = "commit"
    /\ BreakerAfter(p) <= BreakerThreshold
    /\ committed' = [committed EXCEPT ![p] = position[p]]
    /\ conn' = [conn EXCEPT ![p] = CarriedConn(p)]
    /\ swapped' = [swapped EXCEPT ![p] = FALSE]
    /\ breaker' = [breaker EXCEPT ![p] = BreakerAfter(p)]
    /\ Proceed(p, "idle", "none")
    /\ UNCHANGED <<topics, rows, position, verdict, sweepEnd, spent>>

\* consumer.commit(), the breaker, and back to the loop.
Commit(p) ==
    /\ pc[p] = "commit"
    /\ BreakerAfter(p) < BreakerThreshold
    /\ committed' = [committed EXCEPT ![p] = position[p]]
    /\ conn' = [conn EXCEPT ![p] = CarriedConn(p)]
    /\ swapped' = [swapped EXCEPT ![p] = FALSE]
    /\ breaker' = [breaker EXCEPT ![p] = BreakerAfter(p)]
    /\ Proceed(p, "idle", "none")
    /\ UNCHANGED <<topics, rows, position, verdict, sweepEnd, spent>>

\* (Bug variant: raise SystemExit before the commit.)
TripUncommitted(p) ==
    /\ pc[p] = "commit"
    /\ BreakerAfter(p) >= BreakerThreshold
    /\ GoDown(p, committed[p])
    /\ UNCHANGED <<topics, rows, spent>>

\* The failure that trips the breaker is committed first; then the process
\* exits.
CommitAndTrip(p) ==
    /\ pc[p] = "commit"
    /\ BreakerAfter(p) >= BreakerThreshold
    /\ GoDown(p, position[p])
    /\ UNCHANGED <<topics, rows, spent>>
==========================================================================
