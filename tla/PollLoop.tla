----------------------------- MODULE PollLoop -----------------------------
(***************************************************************************)
(* The clock of a consumer loop (`for message in consumer` in              *)
(* service/app/worker.py, retrier.py and sweeper.py).  A poll hands over a *)
(* batch of records; the loop handles them one by one, and a consumer that *)
(* does not poll again within MaxPollInterval is put out of its group: its *)
(* next commit fails and the process dies with the record redelivered.     *)
(*                                                                         *)
(* Each stage of a handler is over at once or takes as long as its bound    *)
(* allows.  The code bounds a request, the waits, the tries of db.connect  *)
(* and the wait for an ack; kafka-python bounds the wait for a topic's     *)
(* metadata.  Nothing bounds a statement, a try to connect or a commit     *)
(* (no statement_timeout, no connect_timeout): the constants assume one.   *)
(***************************************************************************)
EXTENDS Delays

CONSTANTS
    Consumers,          \* the processes looked at
    MaxPollInterval,    \* infra.MAX_POLL_INTERVAL_MS, per process, in seconds
    MaxPollRecords,     \* records one poll hands to the loop, at most
    ConnectTries,       \* db.connect's retries
    ConnectDelay,       \* db.connect's delay
    TryTime,            \* a try of db.connect that fails (assumed)
    StatementTime,      \* a statement, or a lost one's error (assumed)
    MaxBlock,           \* kafka-python's max_block_ms, in seconds: how long
                        \* producer.send may wait for metadata
    PublishTimeout,     \* failures.publish's wait for the ack
    CommitTime,         \* consumer.commit() (assumed)
    RetryBase,          \* settings.retry_backoff_base_seconds
    RetryMax,           \* settings.retry_backoff_max_seconds
    MaxRetryPasses      \* settings.max_retry_passes

ASSUME PollLoopAssumption ==
    /\ Consumers \subseteq {"worker", "retrier", "sweeper"}
    /\ MaxPollInterval \in [Consumers -> Nat]
    /\ MaxPollRecords \in Nat \ {0} /\ ConnectTries \in Nat \ {0}
    /\ ConnectDelay \in Nat /\ TryTime \in Nat /\ StatementTime \in Nat
    /\ MaxBlock \in Nat /\ PublishTimeout \in Nat /\ CommitTime \in Nat
    /\ RetryBase \in Nat /\ RetryMax \in Nat /\ MaxRetryPasses \in Nat \ {0}

VARIABLES
    who,        \* the process
    stage,      \* where its loop is
    batch,      \* records the last poll handed over
    left,       \* those still to handle
    clock,      \* seconds since the last poll
    failed      \* whether the record in flight is a classifier failure

vars == <<who, stage, batch, left, clock, failed>>

\* (Bug variant: one doubling too many, and no cap.)
UncappedDelay(n) == RetryBase * 2^n

\* retry_delay_seconds.
RetryDelay(n) ==
    IF RetryBase * 2^(n - 1) < RetryMax THEN RetryBase * 2^(n - 1) ELSE RetryMax

\* db.connect, when Postgres answers only the last try.
ReconnectTime == ConnectTries * TryTime + (ConnectTries - 1) * ConnectDelay

\* write_with_reconnect and read_with_reconnect at their longest: a statement
\* that ends in a lost connection, a reconnect, and the statement again.
LongestStatement == StatementTime + ReconnectTime + StatementTime

\* failures.publish at its longest: send() waits for metadata, get() for the ack.
PublishTime == MaxBlock + PublishTimeout

\* The stage over, after one of the given times.
Go(next, times) ==
    /\ stage' = next
    /\ \E t \in times : clock' = clock + t
    /\ UNCHANGED who

\* Another t seconds are more than the group waits.
TooLate(t) == clock + t > MaxPollInterval[who]

---------------------------------------------------------------------------
(***************************************************************************)
(* The loop.                                                               *)
(***************************************************************************)

Init ==
    /\ who \in Consumers
    /\ stage = "poll" /\ batch = 0 /\ left = 0 /\ clock = 0 /\ failed = FALSE

\* (External.)  The iterator polls when it has no record left: the interval
\* starts anew.
Poll ==
    /\ stage = "poll" /\ left = 0
    /\ batch' \in 1 .. MaxPollRecords /\ left' = batch'
    /\ clock' = 0 /\ stage' = "take"
    /\ UNCHANGED <<who, failed>>

\* The next record of the batch.
Take ==
    /\ stage = "take" /\ left > 0
    /\ left' = left - 1 /\ failed' = FALSE
    /\ stage' = CASE who = "worker"  -> "check"
                  [] who = "retrier" -> "wait"
                  [] who = "sweeper" -> "classify"
    /\ UNCHANGED <<who, batch, clock>>

\* wait_until: an envelope put back for its n-th pass is due RetryDelay(n)
\* after it was published, which may be long ago.
WaitUntilDue ==
    /\ stage = "wait"
    /\ \E n \in 1 .. MaxRetryPasses : Go("classify", {0, RetryDelay(n)})
    /\ UNCHANGED <<batch, left, failed>>

\* The worker's status read; an edit already classified is only committed.
CheckStatus ==
    /\ stage = "check"
    /\ \E next \in {"classify", "commit"} : Go(next, {0, StatementTime, LongestStatement})
    /\ UNCHANGED <<batch, left, failed>>

\* classify: a failure is one of the first pass, a verdict may take both.
ClassifyEdit ==
    /\ stage = "classify"
    /\ \/ /\ Go("write", {0, PassTime, ClassifyTime})
          /\ failed' = FALSE
       \/ /\ Go(IF who = "sweeper" THEN "publish" ELSE "write", {0, PassTime})
          /\ failed' = TRUE
    /\ UNCHANGED <<batch, left>>

\* The verdict or the failed row is written, with at most one reconnect.  A
\* failure is published next, and so is a record the table rejects, which the
\* sweeper only skips.
WriteRow ==
    /\ stage = "write"
    /\ \/ ~failed /\ Go("commit", {0, StatementTime, LongestStatement})
       \/ who # "sweeper" /\ Go("publish", {0, StatementTime, LongestStatement})
    /\ UNCHANGED <<batch, left, failed>>

\* The producer's first publish of a topic may wait for its metadata, and so may
\* one after a broker went away.
Publish ==
    /\ stage = "publish"
    /\ Go("commit", {0, PublishTimeout, PublishTime})
    /\ UNCHANGED <<batch, left, failed>>

\* consumer.commit() is answered while the process is a member of its group; the
\* batch goes on.
Commit ==
    /\ stage = "commit"
    /\ \E t \in {0, CommitTime} :
        /\ ~TooLate(t)
        /\ Go(IF left = 0 THEN "poll" ELSE "take", {t})
    /\ UNCHANGED <<batch, left, failed>>

\* A commit that comes after the group gave the partition away raises, and
\* nothing catches it.
CommitFails ==
    /\ stage = "commit" /\ TooLate(CommitTime)
    /\ stage' = "down"
    /\ UNCHANGED <<who, batch, left, clock, failed>>

\* Docker restarts the worker and the retrier, a person the sweeper.
Restart ==
    /\ stage = "down"
    /\ stage' = "poll" /\ batch' = 0 /\ left' = 0 /\ clock' = 0
    /\ failed' = FALSE
    /\ UNCHANGED who

Next ==
    \/ Poll \/ Take \/ WaitUntilDue \/ CheckStatus \/ ClassifyEdit \/ WriteRow
    \/ Publish \/ Commit \/ CommitFails \/ Restart

Spec == Init /\ [][Next]_vars

---------------------------------------------------------------------------
(***************************************************************************)
(* What holds of it, and for whom.                                         *)
(***************************************************************************)

\* The first record a poll hands over is committed in time, though every stage
\* of it be at its longest: wait_until, a reconnect at every statement, both
\* passes of classify, a publish that waits for metadata and ack.  So a process
\* that is put out of its group over a slow batch resumes further on each time,
\* and never redoes the same record for ever.
FirstRecordCommits ==
    stage = "commit" /\ left = batch - 1 => ~TooLate(CommitTime)

\* What one record takes at most.
RecordTime(p) ==
    (CASE p = "worker"  -> LongestStatement
       [] p = "retrier" -> RetryMax
       [] p = "sweeper" -> 0)
    + ClassifyTime + LongestStatement + PublishTime + CommitTime

\* A record is committed in time if its place in the batch times the longest
\* record fits the interval.
InTimeCommits ==
    stage = "commit" /\ (batch - left) * RecordTime(who) <= MaxPollInterval[who] =>
        ~TooLate(CommitTime)
===========================================================================
