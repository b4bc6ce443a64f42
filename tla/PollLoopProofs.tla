-------------------------- MODULE PollLoopProofs --------------------------
(***************************************************************************)
(* For every setting of the waits, budgets and intervals: a record is      *)
(* committed in time if its place in the batch times the longest record    *)
(* fits the interval; so a process that the longest record of its own fits *)
(* always commits the first record of a poll.                              *)
(***************************************************************************)
EXTENDS PollLoop, DelaysProofs

\* What comes before classify: the worker's status read, the retrier's wait.
Lead(p) ==
    CASE p = "worker"  -> LongestStatement
      [] p = "retrier" -> RetryMax
      [] p = "sweeper" -> 0

TypeInv ==
    /\ who \in Consumers
    /\ stage \in {"poll", "take", "wait", "check", "classify", "write",
                  "publish", "commit", "down"}
    /\ batch \in Nat /\ left \in Nat /\ clock \in Nat

\* How late a record can be at each stage, after those before it in its batch.
Earlier == (batch - left - 1) * RecordTime(who)

ClockInv ==
    /\ TypeInv
    /\ left <= batch
    /\ stage \notin {"poll", "take", "down"} => left < batch
    /\ stage = "check" => who = "worker"
    /\ stage = "wait" => who = "retrier"
    /\ stage = "take" => clock <= (batch - left) * RecordTime(who)
    /\ stage \in {"check", "wait"} => clock <= Earlier
    /\ stage = "classify" => clock <= Earlier + Lead(who)
    /\ stage = "write" => clock <= Earlier + Lead(who) + ClassifyTime
    /\ stage = "publish" =>
            clock <= Earlier + Lead(who) + ClassifyTime + LongestStatement
    /\ stage = "commit" => clock + CommitTime <= Earlier + RecordTime(who)

\* Every wait is a natural number of seconds.
LEMMA TimesType ==
    /\ PassTime \in Nat /\ ClassifyTime \in Nat /\ PassTime <= ClassifyTime
    /\ StatementTime \in Nat /\ LongestStatement \in Nat
    /\ StatementTime <= LongestStatement
    /\ PublishTimeout \in Nat /\ PublishTime \in Nat /\ PublishTimeout <= PublishTime
    /\ CommitTime \in Nat
<1>1. PassTime \in Nat
  BY PassTimeType
<1>2. /\ StatementTime \in Nat /\ ReconnectTime \in Nat
      /\ PublishTimeout \in Nat /\ MaxBlock \in Nat /\ CommitTime \in Nat
  BY PollLoopAssumption DEF ReconnectTime
<1> QED BY <1>1, <1>2 DEF ClassifyTime, LongestStatement, PublishTime

LEMMA LeadType ==
    ASSUME NEW p \in Consumers
    PROVE  /\ Lead(p) \in Nat
           /\ RecordTime(p) =
                Lead(p) + ClassifyTime + LongestStatement + PublishTime + CommitTime
BY TimesType, PollLoopAssumption DEF Lead, RecordTime

\* An envelope waits at most the cap (retry_delay_seconds).
LEMMA RetryDelayCapped ==
    ASSUME NEW n \in 1 .. MaxRetryPasses
    PROVE  RetryDelay(n) \in Nat /\ RetryDelay(n) <= RetryMax
<1>1. n - 1 \in Nat
  BY PollLoopAssumption
<1>2. 2^(n - 1) \in Nat
  BY <1>1, PowerCounts
<1>3. RetryBase * 2^(n - 1) \in Nat
  BY <1>2, PollLoopAssumption
<1> QED BY <1>3, PollLoopAssumption DEF RetryDelay

\* Multiples of the longest record.
LEMMA RecordTimes ==
    ASSUME NEW k \in Nat, NEW p \in Consumers
    PROVE  /\ RecordTime(p) \in Nat /\ k * RecordTime(p) \in Nat
           /\ 0 * RecordTime(p) = 0
           /\ k * RecordTime(p) + RecordTime(p) = (k + 1) * RecordTime(p)
<1>1. PICK r \in Nat : r = RecordTime(p)
  BY LeadType, TimesType, PollLoopAssumption
<1>2. k * r \in Nat /\ 0 * r = 0 /\ k * r + r = (k + 1) * r
  OBVIOUS
<1> QED BY <1>1, <1>2

\* What the records before took and what this one takes.
LEMMA EarlierAndThis ==
    ASSUME TypeInv, left < batch, clock + CommitTime <= Earlier + RecordTime(who)
    PROVE  clock + CommitTime <= (batch - left) * RecordTime(who)
<1>1. PICK k \in Nat : batch - left = k + 1 /\ batch - left - 1 = k
  <2>1. batch - left - 1 \in Nat
    BY DEF TypeInv
  <2>2. batch - left = (batch - left - 1) + 1
    BY DEF TypeInv
  <2> QED BY <2>1, <2>2
<1>2. Earlier + RecordTime(who) = (k + 1) * RecordTime(who)
  BY <1>1, RecordTimes DEF TypeInv, Earlier
<1> QED BY <1>1, <1>2

\* The inductive invariant: how late a record of a poll can be at each stage of
\* its handling.
LEMMA ClockInvCorrect == Spec => []ClockInv
<1>1. Init => ClockInv
  BY DEF Init, ClockInv, TypeInv
<1>2. ClockInv /\ [Next]_vars => ClockInv'
  <2> SUFFICES ASSUME ClockInv, [Next]_vars PROVE ClockInv'
    OBVIOUS
  <2>1. /\ TypeInv /\ left <= batch
        /\ PassTime \in Nat /\ ClassifyTime \in Nat /\ PassTime <= ClassifyTime
        /\ StatementTime \in Nat /\ LongestStatement \in Nat
        /\ StatementTime <= LongestStatement
        /\ PublishTimeout \in Nat /\ PublishTime \in Nat /\ PublishTimeout <= PublishTime
        /\ CommitTime \in Nat /\ Lead(who) \in Nat
        /\ RecordTime(who) =
                Lead(who) + ClassifyTime + LongestStatement + PublishTime + CommitTime
    BY TimesType, LeadType DEF ClockInv, TypeInv
  \* A stage of a handler that ends after t seconds.
  <2>2. ASSUME NEW t \in Nat, clock' = clock + t,
               stage \in {"check", "wait", "classify", "write", "publish"},
               who' = who, batch' = batch, left' = left,
               stage' \in {"classify", "write", "publish", "commit"},
               \E e \in Int : e = Earlier /\ \E bound \in Nat :
                 /\ clock <= e + bound
                 /\ stage' = "classify" => bound + t <= Lead(who)
                 /\ stage' = "write" => bound + t <= Lead(who) + ClassifyTime
                 /\ stage' = "publish" =>
                        bound + t <= Lead(who) + ClassifyTime + LongestStatement
                 /\ stage' = "commit" => bound + t + CommitTime <= RecordTime(who)
        PROVE  ClockInv'
    <3>1. PICK e \in Int, bound \in Nat :
            /\ e = Earlier /\ clock <= e + bound
            /\ stage' = "classify" => bound + t <= Lead(who)
            /\ stage' = "write" => bound + t <= Lead(who) + ClassifyTime
            /\ stage' = "publish" =>
                   bound + t <= Lead(who) + ClassifyTime + LongestStatement
            /\ stage' = "commit" => bound + t + CommitTime <= RecordTime(who)
      BY <2>2
    <3>2. Earlier' = e /\ Lead(who)' = Lead(who) /\ RecordTime(who)' = RecordTime(who)
      BY <2>2, <3>1 DEF Earlier, Lead, RecordTime
    <3>3. clock' \in Nat /\ left' < batch' /\ TypeInv'
      BY <2>1, <2>2 DEF ClockInv, TypeInv
    <3>4. /\ stage' = "classify" => clock' <= e + Lead(who)
          /\ stage' = "write" => clock' <= e + (Lead(who) + ClassifyTime)
          /\ stage' = "publish" =>
                clock' <= e + (Lead(who) + ClassifyTime + LongestStatement)
          /\ stage' = "commit" => clock' + CommitTime <= e + RecordTime(who)
      BY <2>1, <2>2, <3>1 DEF TypeInv
    <3> QED BY <2>1, <2>2, <3>2, <3>3, <3>4 DEF ClockInv, TypeInv
  <2>3. Earlier \in Int
    BY <2>1, TimesType DEF TypeInv, Earlier
  <2>4. CASE Poll
    <3>1. /\ stage' = "take" /\ clock' = 0 /\ left' = batch' /\ batch' \in Nat
          /\ who' = who
      BY <2>4, PollLoopAssumption DEF Poll
    <3>2. (batch' - left') * RecordTime(who') = 0
      <4>1. batch' - left' = 0
        <5>1. \A m, n \in Nat : m = n => m - n = 0
          OBVIOUS
        <5> QED BY <3>1, <5>1
      <4> QED BY <2>1, <3>1, <4>1, RecordTimes DEF TypeInv
    <3> QED BY <2>1, <3>1, <3>2 DEF ClockInv, TypeInv
  <2>5. CASE Take
    <3>1. /\ who' = who /\ batch' = batch /\ clock' = clock /\ left' = left - 1
          /\ stage' \in {"check", "wait", "classify"}
          /\ stage' = "check" => who = "worker"
          /\ stage' = "wait" => who = "retrier"
          /\ left > 0 /\ stage = "take"
      BY <2>1, <2>5, PollLoopAssumption DEF Take, TypeInv
    <3>2. batch' - left' - 1 = batch - left
      BY <2>1, <3>1 DEF TypeInv
    <3>3. Earlier' = (batch - left) * RecordTime(who)
      BY <3>1, <3>2 DEF Earlier, RecordTime
    <3>4. clock <= Earlier' /\ Earlier' \in Nat
      <4>1. batch - left \in Nat /\ who \in Consumers
        BY <2>1 DEF TypeInv
      <4> QED BY <3>1, <3>3, <4>1, RecordTimes DEF ClockInv
    <3>5. Lead(who)' = Lead(who) /\ left' < batch' /\ left' \in Nat
      BY <2>1, <3>1 DEF TypeInv, Lead
    <3>6. clock' <= Earlier' + Lead(who)'
      BY <2>1, <3>1, <3>4, <3>5 DEF TypeInv
    <3> QED BY <2>1, <3>1, <3>4, <3>5, <3>6 DEF ClockInv, TypeInv
  <2>6. CASE WaitUntilDue
    <3>1. PICK n \in 1 .. MaxRetryPasses : Go("classify", {0, RetryDelay(n)})
      BY <2>6 DEF WaitUntilDue
    <3>2. RetryDelay(n) \in Nat /\ RetryDelay(n) <= RetryMax
      BY RetryDelayCapped
    <3>3. stage = "wait" /\ batch' = batch /\ left' = left
      BY <2>6 DEF WaitUntilDue
    <3>4. Lead(who) = RetryMax /\ clock <= Earlier + 0
      BY <2>1, <2>3, <3>3 DEF Lead, ClockInv, TypeInv
    <3> QED BY <2>1, <2>2, <2>3, <3>1, <3>2, <3>3, <3>4 DEF Go
  <2>7. CASE CheckStatus
    <3>1. PICK next \in {"classify", "commit"} : Go(next, {0, StatementTime, LongestStatement})
      BY <2>7 DEF CheckStatus
    <3>2. stage = "check" /\ batch' = batch /\ left' = left
      BY <2>7 DEF CheckStatus
    <3>3. Lead(who) = LongestStatement /\ clock <= Earlier + 0
      BY <2>1, <2>3, <3>2 DEF Lead, ClockInv, TypeInv
    <3> QED BY <2>1, <2>2, <2>3, <3>1, <3>2, <3>3 DEF Go
  <2>8. CASE ClassifyEdit
    <3>1. PICK next \in {"write", "publish"}, t \in {0, PassTime, ClassifyTime} :
            stage' = next /\ clock' = clock + t
      BY <2>8 DEF ClassifyEdit, Go
    <3>2. stage = "classify" /\ who' = who /\ batch' = batch /\ left' = left
      BY <2>8 DEF ClassifyEdit, Go
    <3>3. clock <= Earlier + Lead(who)
      BY <3>2 DEF ClockInv
    <3>4. t \in Nat /\ t <= ClassifyTime
      BY <2>1, <3>1
    <3>5. PICK bound \in Nat : bound = Lead(who)
      BY <2>1
    <3>6. /\ bound + t <= Lead(who) + ClassifyTime
          /\ bound + t <= Lead(who) + ClassifyTime + LongestStatement
      BY <2>1, <3>4, <3>5
    <3> QED BY <2>2, <2>3, <3>1, <3>2, <3>3, <3>4, <3>5, <3>6
  <2>9. CASE WriteRow
    <3>1. PICK next \in {"commit", "publish"}, t \in {0, StatementTime, LongestStatement} :
            stage' = next /\ clock' = clock + t
      BY <2>9 DEF WriteRow, Go
    <3>2. stage = "write" /\ who' = who /\ batch' = batch /\ left' = left
      BY <2>9 DEF WriteRow, Go
    <3>3. PICK bound \in Nat : bound = Lead(who) + ClassifyTime
      BY <2>1
    <3>4. clock <= Earlier + bound
      BY <2>1, <2>3, <3>2, <3>3 DEF ClockInv
    <3>5. t \in Nat /\ t <= LongestStatement
      BY <2>1, <3>1
    <3>6. /\ bound + t <= Lead(who) + ClassifyTime + LongestStatement
          /\ bound + t + CommitTime <= RecordTime(who)
      BY <2>1, <3>3, <3>5
    <3> QED BY <2>2, <2>3, <3>1, <3>2, <3>4, <3>5, <3>6
  <2>10. CASE Publish
    <3>1. PICK t \in {0, PublishTimeout, PublishTime} : stage' = "commit" /\ clock' = clock + t
      BY <2>10 DEF Publish, Go
    <3>2. stage = "publish" /\ who' = who /\ batch' = batch /\ left' = left
      BY <2>10 DEF Publish, Go
    <3>3. PICK bound \in Nat : bound = Lead(who) + ClassifyTime + LongestStatement
      BY <2>1
    <3>4. clock <= Earlier + bound
      BY <2>1, <2>3, <3>2, <3>3 DEF ClockInv
    <3>5. t \in Nat /\ bound + t + CommitTime <= RecordTime(who)
      BY <2>1, <3>1, <3>3
    <3> QED BY <2>2, <2>3, <3>1, <3>2, <3>4, <3>5
  <2>11. CASE Commit
    <3>1. PICK t \in {0, CommitTime} :
            Go(IF left = 0 THEN "poll" ELSE "take", {t})
      BY <2>11 DEF Commit
    <3>2. /\ who' = who /\ batch' = batch /\ left' = left /\ clock' = clock + t
          /\ stage' \in {"poll", "take"} /\ stage = "commit"
      BY <2>11, <3>1 DEF Commit, Go
    <3>3. clock + CommitTime <= (batch - left) * RecordTime(who)
      BY <2>1, <3>2, EarlierAndThis DEF ClockInv
    <3>4. PICK bound \in Nat : bound = (batch - left) * RecordTime(who)
      <4>1. batch - left \in Nat /\ who \in Consumers
        BY <2>1 DEF TypeInv
      <4> QED BY <4>1, RecordTimes
    <3>5. clock' <= bound /\ clock' \in Nat
      BY <2>1, <3>1, <3>2, <3>3, <3>4 DEF TypeInv
    <3>6. (batch' - left') * RecordTime(who') = bound
      BY <3>2, <3>4
    <3> QED BY <2>1, <3>2, <3>5, <3>6 DEF ClockInv, TypeInv
  <2>12. CASE CommitFails \/ Restart
    BY <2>1, <2>12 DEF CommitFails, Restart, ClockInv, TypeInv
  <2>13. CASE UNCHANGED vars
    BY <2>13 DEF vars, ClockInv, TypeInv, Earlier
  <2> QED BY <2>4, <2>5, <2>6, <2>7, <2>8, <2>9, <2>10, <2>11, <2>12, <2>13 DEF Next
<1> QED BY <1>1, <1>2, PTL DEF Spec

\* A record whose place in the batch times the longest record fits the
\* interval is committed, for every process and every setting: however many
\* records a poll hands over, these many are safe.
THEOREM InTimeCommitsCorrect == Spec => []InTimeCommits
<1>1. ClockInv => InTimeCommits
  <2> SUFFICES ASSUME ClockInv, stage = "commit",
                      (batch - left) * RecordTime(who) <= MaxPollInterval[who]
               PROVE  ~TooLate(CommitTime)
    BY DEF InTimeCommits
  <2>1. /\ who \in Consumers /\ clock + CommitTime \in Nat
        /\ batch - left \in Nat
        /\ clock + CommitTime <= (batch - left) * RecordTime(who)
    BY EarlierAndThis, TimesType DEF ClockInv, TypeInv
  <2>2. (batch - left) * RecordTime(who) \in Nat /\ MaxPollInterval[who] \in Nat
    BY <2>1, RecordTimes, PollLoopAssumption
  <2> QED BY <2>1, <2>2 DEF TooLate
<1> QED BY <1>1, ClockInvCorrect, PTL

\* A process whose own longest record fits its own interval commits the first
\* record of every poll, so one put out of its group over a slow batch resumes
\* further on.  The worker is such a process as shipped; the retrier is one only
\* with a cap on its wait lower than the shipped one, the sweeper is not.
THEOREM FirstRecordCommitsCorrect ==
    ASSUME NEW p \in Consumers, RecordTime(p) <= MaxPollInterval[p]
    PROVE  Spec => [](who = p => FirstRecordCommits)
<1>1. ClockInv /\ InTimeCommits => (who = p => FirstRecordCommits)
  <2> SUFFICES ASSUME ClockInv, InTimeCommits, who = p, stage = "commit", left = batch - 1
               PROVE  ~TooLate(CommitTime)
    BY DEF FirstRecordCommits
  <2>1. batch - left = 1
    BY DEF ClockInv, TypeInv
  <2>2. RecordTime(who) <= MaxPollInterval[who] /\ RecordTime(who) \in Nat
    BY RecordTimes
  <2>3. (batch - left) * RecordTime(who) = RecordTime(who)
    BY <2>1, <2>2
  <2> QED BY <2>2, <2>3 DEF InTimeCommits
<1> QED BY <1>1, ClockInvCorrect, InTimeCommitsCorrect, PTL
===========================================================================
