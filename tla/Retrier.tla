------------------------------ MODULE Retrier ------------------------------
(***************************************************************************)
(* service/app/retrier.py: consume wiki.edits.retry, classify each edit    *)
(* again, and write the verdict, put it back for another pass, or give it  *)
(* up to the DLQ.  Waiting for not_before only delays the record at the    *)
(* head of the topic, so any delay is already a behaviour of Receive.      *)
(***************************************************************************)
EXTENDS Consumers

\* (Bug variant: an envelope of another version is skipped, as the sweeper
\* does.)
SkipOtherVersions ==
    /\ position["retrier"] < Len(retry)
    /\ \/ /\ retry[position["retrier"] + 1].schema = EnvelopeSchema
          /\ Receive("retrier", "classify", "none")
       \/ /\ retry[position["retrier"] + 1].schema # EnvelopeSchema
          /\ Receive("retrier", "commit", "skip")

\* Take the next envelope; one of another schema version is parked.
RetrierReceive ==
    /\ position["retrier"] < Len(retry)
    /\ \/ /\ retry[position["retrier"] + 1].schema = EnvelopeSchema
          /\ Receive("retrier", "classify", "none")
       \/ /\ retry[position["retrier"] + 1].schema # EnvelopeSchema
          /\ Receive("retrier", "park", "decode")

\* (Bug variant: each pass counts twice.)
CountedTwice ==
    retry[position["retrier"]].attempts
        + (IF outcome["retrier"] = "transient" THEN 2 ELSE 0)

\* Passes after this one: only a transient failure counts as a pass.
RetrierAttempts ==
    retry[position["retrier"]].attempts
        + (IF outcome["retrier"] = "transient" THEN 1 ELSE 0)

RetrierPublish == PublishFailure("retrier", RetrierAttempts)

RetrierStep ==
    \/ RetrierReceive
    \/ Classify("retrier", "writeFailed")
    \/ ClassifyEscapes("retrier")
    \/ WriteVerdict("retrier", "park")
    \/ WriteFailed("retrier")
    \/ RetrierPublish
    \/ Park("retrier")
    \/ Commit("retrier")
    \/ CommitAndTrip("retrier")
    \/ Restart("retrier")

RetrierDisturbance ==
    \/ Crash("retrier")
    \/ DropConn("retrier")
    \/ WriteUnacknowledged("retrier")
============================================================================
