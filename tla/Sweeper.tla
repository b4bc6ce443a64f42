------------------------------ MODULE Sweeper ------------------------------
(***************************************************************************)
(* service/app/sweeper.py: an operator's one-shot pass over wiki.edits.dlq. *)
(* It classifies what can be classified, puts what still fails at the end  *)
(* of the same topic, and stops at the end it saw when it started.         *)
(***************************************************************************)
EXTENDS Consumers

\* The operator starts a sweep.  It stops at the snapshot of the end offset,
\* or earlier: at --limit envelopes, or when the consumer times out.
SweepStart ==
    /\ pc["sweeper"] = "down"
    /\ Spend("sweep")
    /\ pc' = [pc EXCEPT !["sweeper"] = "idle"]
    /\ sweepEnd' \in committed["sweeper"] .. Len(dlq)
    /\ UNCHANGED <<topics, rows, consumer, outcome, verdict, database, breaker>>

\* (Bug variant: read up to the live end of the topic.)
SweepLiveEnd ==
    /\ position["sweeper"] < Len(dlq)
    /\ \/ /\ Classifiable(dlq[position["sweeper"] + 1])
          /\ Receive("sweeper", "classify", "none")
       \/ /\ ~Classifiable(dlq[position["sweeper"] + 1])
          /\ Receive("sweeper", "commit", "skip")

\* Take the next envelope before the boundary; what cannot be classified is
\* logged and skipped.
SweepReceive ==
    /\ position["sweeper"] < sweepEnd
    /\ \/ /\ Classifiable(dlq[position["sweeper"] + 1])
          /\ Receive("sweeper", "classify", "none")
       \/ /\ ~Classifiable(dlq[position["sweeper"] + 1])
          /\ Receive("sweeper", "commit", "skip")

\* (Bug variant: requeue to the retry topic, as the other two do.)
SweepRequeueToRetry ==
    /\ pc["sweeper"] = "publish"
    /\ LET reason == IF outcome["sweeper"] = "parse" THEN ParseFailed
                                                     ELSE TransientExhausted
           attempts == dlq[position["sweeper"]].attempts + 1
       IN retry' = Append(retry, MakeEnvelope(reason, outcome["sweeper"],
                                              Payload("sweeper"), attempts))
    /\ pc' = [pc EXCEPT !["sweeper"] = "commit"]
    /\ UNCHANGED <<raw, dlq, rows, consumer, outcome, verdict, database,
                   breaker, sweepEnd, spent>>

\* An edit that still fails goes to the end of the DLQ, with no failed row and
\* no budget of passes.
SweepRequeue ==
    /\ pc["sweeper"] = "publish"
    /\ Len(dlq) < DlqCap
    /\ LET reason == IF outcome["sweeper"] = "parse" THEN ParseFailed
                                                     ELSE TransientExhausted
           attempts == dlq[position["sweeper"]].attempts + 1
       IN dlq' = Append(dlq, MakeEnvelope(reason, outcome["sweeper"],
                                          Payload("sweeper"), attempts))
    /\ pc' = [pc EXCEPT !["sweeper"] = "commit"]
    /\ UNCHANGED <<raw, retry, rows, consumer, outcome, verdict, database,
                   breaker, sweepEnd, spent>>

\* _finish: commit this record's offset and go on; the sweeper has no breaker.
SweepCommit ==
    /\ pc["sweeper"] = "commit"
    /\ committed' = [committed EXCEPT !["sweeper"] = position["sweeper"]]
    /\ conn' = [conn EXCEPT !["sweeper"] = CarriedConn("sweeper")]
    /\ swapped' = [swapped EXCEPT !["sweeper"] = FALSE]
    /\ Proceed("sweeper", "idle", "none")
    /\ UNCHANGED <<topics, rows, position, verdict, breaker, sweepEnd, spent>>

\* Past the boundary every record is paused away: the loop ends and the
\* process exits.
SweepFinish ==
    /\ pc["sweeper"] = "idle"
    /\ position["sweeper"] = sweepEnd
    /\ GoDown("sweeper", committed["sweeper"])
    /\ UNCHANGED <<topics, rows, spent>>

SweeperStep ==
    \/ SweepReceive
    \/ Classify("sweeper", "publish")
    \/ ClassifyEscapes("sweeper")
    \/ WriteVerdict("sweeper", "commit")
    \/ SweepRequeue
    \/ SweepCommit
    \/ SweepFinish

SweeperDisturbance ==
    \/ Crash("sweeper")
    \/ DropConn("sweeper")
    \/ WriteUnacknowledged("sweeper")
============================================================================
