------------------------------ MODULE Worker ------------------------------
(***************************************************************************)
(* service/app/worker.py: consume wiki.edits.raw, classify each edit, and  *)
(* write the verdict or hand the edit on.  At most one record is in        *)
(* flight; every failure path is write, publish, commit, breaker.          *)
(***************************************************************************)
EXTENDS Consumers

\* Take the next record; a value that is not an edit object is parked.
WorkerReceive ==
    /\ position["worker"] < Len(raw)
    /\ \/ /\ raw[position["worker"] + 1] \in Edits
          /\ Receive("worker", "check", "none")
       \/ /\ raw[position["worker"] + 1] \notin Edits
          /\ Receive("worker", "park", "decode")

\* (Bug variant: skip on any row, a failed one included.)
SkipAnyRow ==
    /\ pc["worker"] = "check"
    /\ \/ /\ UseConnection("worker")
          /\ FetchEditStatus(rows, Payload("worker")) # "absent"
          /\ Proceed("worker", "commit", "skip")
       \/ /\ UseConnection("worker")
          /\ FetchEditStatus(rows, Payload("worker")) = "absent"
          /\ Proceed("worker", "classify", "none")
       \/ UseClosedConnection("worker", "park")
    /\ UNCHANGED <<topics, rows, consumer, verdict, breaker, sweepEnd, spent>>

\* The redelivery pre-check: an edit whose row is classified is committed
\* without another model call.
CheckStatus ==
    /\ pc["worker"] = "check"
    /\ \/ /\ UseConnection("worker")
          /\ FetchEditStatus(rows, Payload("worker")) = "classified"
          /\ Proceed("worker", "commit", "skip")
       \/ /\ UseConnection("worker")
          /\ FetchEditStatus(rows, Payload("worker")) # "classified"
          /\ Proceed("worker", "classify", "none")
       \/ UseClosedConnection("worker", "park")
    /\ UNCHANGED <<topics, rows, consumer, verdict, breaker, sweepEnd, spent>>

\* The worker's failures are all first attempts.
WorkerPublish == PublishFailure("worker", 1)

WorkerStep ==
    \/ WorkerReceive
    \/ CheckStatus
    \/ Classify("worker", "writeFailed")
    \/ ClassifyEscapes("worker")
    \/ WriteVerdict("worker", "park")
    \/ WriteFailed("worker")
    \/ WorkerPublish
    \/ Park("worker")
    \/ Commit("worker")
    \/ CommitAndTrip("worker")
    \/ Restart("worker")

WorkerDisturbance ==
    \/ Crash("worker")
    \/ DropConn("worker")
    \/ WriteUnacknowledged("worker")
===========================================================================
