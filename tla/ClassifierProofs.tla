------------------------- MODULE ClassifierProofs -------------------------
(***************************************************************************)
(* For every budget of attempts, threshold and set of labels: one classify *)
(* makes at most two budgets of calls, gives an edit up only when it may,  *)
(* and keeps the contract its callers rely on up to an answer it raises    *)
(* on.                                                                     *)
(***************************************************************************)
EXTENDS Classifier, DelaysProofs

---------------------------------------------------------------------------
(***************************************************************************)
(* The passes.                                                             *)
(***************************************************************************)

\* Clamping leaves a confidence between 0 and One, or the NaN it was.
LEMMA ClampBounds ==
    ASSUME NEW c \in Numbers \cup {NaN, Absent}
    PROVE  Clamp(c) \in 0 .. One \cup {NaN}
BY ClassifierAssumption DEF Clamp, OddConfidences

\* Reading a response gives a verdict, nothing, or an exception.
LEMMA ReadingType ==
    ASSUME NEW r \in Response
    PROVE  Reading(r) \in Verdict \cup {NoResult, Escape}
<1>1. CASE r.stop # "end_turn" \/ r.body = NotAnObject
  BY <1>1 DEF Reading
<1>2. CASE r.stop = "end_turn" /\ r.body # NotAnObject
  <2>1. /\ r.body.label \in Labels \cup {OtherLabel, Unhashable}
        /\ r.body.confidence \in Numbers \cup OddConfidences
    BY <1>2 DEF Response, Body
  <2>2. Reading(r) = Normalize(r.body)
    BY <1>2 DEF Reading
  <2>3. CASE \/ r.body.label \in {Unhashable, OtherLabel}
             \/ r.body.confidence \in {NotNumber, Huge}
    <3>1. Normalize(r.body) \in {NoResult, Escape}
      BY <2>1, <2>3 DEF Normalize
    <3> QED BY <2>2, <3>1
  <2>4. CASE /\ r.body.label \notin {Unhashable, OtherLabel}
             /\ r.body.confidence \notin {NotNumber, Huge}
    <3>1. /\ r.body.label \in Labels
          /\ r.body.confidence \in Numbers \cup {NaN, Absent}
      BY <2>1, <2>4 DEF OddConfidences
    <3>2. Clamp(r.body.confidence) \in 0 .. One \cup {NaN}
      BY <3>1, ClampBounds
    <3>3. Normalize(r.body) =
            [label |-> r.body.label, confidence |-> Clamp(r.body.confidence)]
      BY <2>4 DEF Normalize
    <3> QED BY <2>2, <3>1, <3>2, <3>3 DEF Verdict
  <2> QED BY <2>3, <2>4
<1> QED BY <1>1, <1>2 DEF Response

\* A request takes a natural number of seconds more than its wait.
LEMMA RequestCounts ==
    ASSUME TypeOK, NEW wait \in Nat, Request(wait)
    PROVE  outcome = "running" /\ calls' = calls + 1 /\ elapsed' \in Nat
BY DelaysAssumption DEF TypeOK, Request

LEMMA PassInit == Init => PassInv
BY DelaysAssumption
   DEF Init, PassInv, TypeOK, Outcomes, CallsBounded, OutcomeEarned

\* An answer keeps the invariant, whatever it reads as.
LEMMA AnsweredKeeps ==
    ASSUME PassInv, NEW r \in Response, Answered(r)
    PROVE  PassInv'
<1>1. outcome = "running" /\ calls' = calls + 1 /\ elapsed' \in Nat
  BY RequestCounts DEF PassInv, Answered
<1>2. CASE Reading(r) = NoResult /\ EndPass("parse")
  BY <1>1, <1>2, ClassifierAssumption, DelaysAssumption
     DEF PassInv, TypeOK, Outcomes, CallsBounded, OutcomeEarned, EndPass, Verdict
<1>3. CASE outcome' = "escaped" /\ UNCHANGED <<pass, attempt, result>>
  BY <1>1, <1>3, DelaysAssumption
     DEF PassInv, TypeOK, Outcomes, CallsBounded, OutcomeEarned
<1>4. CASE Reading(r) \notin {NoResult, Escape} /\ Accept(Reading(r))
  <2> DEFINE v == Reading(r)
  <2>1. v \in Verdict
    BY <1>4, ReadingType
  <2>2. v # NoResult
    BY <1>4
  <2> HIDE DEF v
  <2>3. CASE pass = 1 /\ LowConfidence(v)
    <3>1. result' = v /\ pass' = 2 /\ attempt' = 0 /\ outcome' = outcome
      BY <1>4, <2>3 DEF Accept, v
    <3> QED BY <1>1, <2>1, <2>3, <3>1, DelaysAssumption
            DEF PassInv, TypeOK, Outcomes, CallsBounded, OutcomeEarned,
                LowConfidence
  <2>4. CASE ~(pass = 1 /\ LowConfidence(v))
    <3>1. /\ result' = v /\ outcome' = "verdict"
          /\ pass' = pass /\ attempt' = attempt
      BY <1>4, <2>4 DEF Accept, v
    <3> QED BY <1>1, <2>1, <2>2, <3>1, DelaysAssumption
            DEF PassInv, TypeOK, Outcomes, CallsBounded, OutcomeEarned
  <2> QED BY <2>3, <2>4
<1> QED BY <1>2, <1>3, <1>4 DEF Answered

\* So does a failed attempt.
LEMMA TransientKeeps ==
    ASSUME PassInv, TransientError
    PROVE  PassInv'
<1>1. Backoff \in Nat
  <2>1. attempt \in Nat
    BY DelaysAssumption DEF PassInv, TypeOK
  <2>2. 2^attempt \in Nat
    BY <2>1, PowerCounts
  <2> QED BY <2>2, DelaysAssumption DEF Backoff
<1>2. outcome = "running" /\ calls' = calls + 1 /\ elapsed' \in Nat
  BY <1>1, RequestCounts DEF PassInv, TransientError
<1>3. CASE attempt < MaxCallAttempts - 1
  BY <1>2, <1>3, DelaysAssumption
     DEF PassInv, TypeOK, Outcomes, CallsBounded, OutcomeEarned, TransientError
<1>4. CASE ~(attempt < MaxCallAttempts - 1)
  <2>1. attempt = MaxCallAttempts - 1
    BY <1>4, DelaysAssumption DEF PassInv, TypeOK
  <2>2. EndPass("unavailable")
    BY <1>4 DEF TransientError
  <2> QED BY <1>2, <2>1, <2>2, ClassifierAssumption, DelaysAssumption
          DEF PassInv, TypeOK, Outcomes, CallsBounded, OutcomeEarned, EndPass,
              Verdict
<1> QED BY <1>3, <1>4

\* The inductive invariant: within a pass calls and attempts count together,
\* and the second pass stands on a first answer.
THEOREM PassInvCorrect == Spec => []PassInv
<1>1. PassInv /\ [Next]_vars => PassInv'
  <2> SUFFICES ASSUME PassInv, [Next]_vars PROVE PassInv'
    OBVIOUS
  <2>1. CASE \E r \in Response : Answered(r)
    BY <2>1, AnsweredKeeps
  <2>2. CASE TransientError
    BY <2>2, TransientKeeps
  <2>3. CASE FatalError
    <3>1. outcome = "running" /\ calls' = calls + 1 /\ elapsed' \in Nat
      BY <2>3, RequestCounts DEF PassInv, FatalError
    <3> QED BY <2>3, <3>1, DelaysAssumption
            DEF PassInv, TypeOK, Outcomes, CallsBounded, OutcomeEarned, FatalError
  <2>4. CASE UNCHANGED vars
    BY <2>4 DEF vars, PassInv, TypeOK, CallsBounded, OutcomeEarned
  <2> QED BY <2>1, <2>2, <2>3, <2>4 DEF Next
<1> QED BY <1>1, PassInit, PTL DEF Spec

\* No edit costs more than two budgets of requests, for every budget: 6 calls
\* with the shipped 3.
THEOREM CallsBoundedCorrect == Spec => []CallsBounded
<1>1. PassInv => CallsBounded
  BY DEF PassInv
<1> QED BY <1>1, PassInvCorrect, PTL

\* An edit is given up only with its budget spent and no usable answer.
THEOREM OutcomeEarnedCorrect == Spec => []OutcomeEarned
<1>1. PassInv => OutcomeEarned
  BY DEF PassInv
<1> QED BY <1>1, PassInvCorrect, PTL

---------------------------------------------------------------------------
(***************************************************************************)
(* The time.                                                               *)
(***************************************************************************)

\* A request is over within its timeout and the wait that follows it.
LEMMA RequestTakes ==
    ASSUME TypeOK, NEW wait \in Nat, Request(wait)
    PROVE  elapsed' <= elapsed + CallTimeout + wait
BY DelaysAssumption DEF TypeOK, Request

\* After a request that no wait follows, the pass is within its time.
LEMMA PassOver ==
    ASSUME PassInv, TimeInv, Request(0)
    PROVE  elapsed' <= pass * PassTime
<1>1. outcome = "running" /\ elapsed' <= elapsed + CallTimeout
  BY RequestTakes, DelaysAssumption DEF PassInv, TypeOK, Request
<1>2. attempt \in 0 .. MaxCallAttempts - 1 /\ attempt \in Nat /\ pass \in {1, 2}
  BY DelaysAssumption DEF PassInv, TypeOK
<1>3. elapsed <= (pass - 1) * PassTime + SpentBefore(attempt)
  BY <1>1 DEF TimeInv
<1>4. SpentBefore(attempt) + CallTimeout <= PassTime
  BY <1>2, SpentWithin
<1>5. /\ SpentBefore(attempt) \in Nat /\ PassTime \in Nat
      /\ elapsed \in Nat /\ elapsed' \in Nat
  BY <1>2, SpentType, PassTimeType, RequestCounts DEF PassInv, TypeOK
<1> QED BY <1>1, <1>2, <1>3, <1>4, <1>5, DelaysAssumption

\* One classify is over within twice the time of a pass, for every timeout,
\* backoff and budget: the 366 seconds PollLoop counts for each record.
THEOREM TimeBoundedCorrect == Spec => []TimeBounded
<1>1. Init => TimeInv
  <2>1. SpentBefore(0) \in Nat
    BY SpentType
  <2> QED BY <2>1, PassTimeType DEF Init, TimeInv, TimeBounded, ClassifyTime
<1>2. PassInv /\ PassInv' /\ TimeInv /\ [Next]_vars => TimeInv'
  <2> SUFFICES ASSUME PassInv, PassInv', TimeInv, [Next]_vars PROVE TimeInv'
    OBVIOUS
  <2>1. /\ PassTime \in Nat /\ SpentBefore(0) \in Nat
        /\ pass \in {1, 2} /\ attempt \in 0 .. MaxCallAttempts - 1
        /\ attempt \in Nat /\ elapsed \in Nat /\ elapsed' \in Nat
    BY PassTimeType, SpentType, DelaysAssumption DEF PassInv, TypeOK
  <2>2. ASSUME Request(0),
               \/ outcome' # "running"
               \/ pass = 1 /\ pass' = 2 /\ attempt' = 0
        PROVE  TimeInv'
    <3>1. elapsed' <= pass * PassTime
      BY <2>2, PassOver
    <3>2. elapsed' <= 2 * PassTime
      BY <2>1, <3>1
    <3>3. pass = 1 /\ pass' = 2 /\ attempt' = 0 =>
              elapsed' <= (pass' - 1) * PassTime + SpentBefore(attempt')
      BY <2>1, <3>1
    <3> QED BY <2>2, <3>2, <3>3 DEF TimeInv, TimeBounded, ClassifyTime
  <2>3. ASSUME NEW r \in Response, Answered(r)
        PROVE  TimeInv'
    <3>1. Request(0)
      BY <2>3 DEF Answered
    <3>2. \/ outcome' # "running"
          \/ pass = 1 /\ pass' = 2 /\ attempt' = 0
      BY <2>3 DEF Answered, EndPass, Accept
    <3> QED BY <2>2, <3>1, <3>2
  <2>4. CASE TransientError /\ attempt < MaxCallAttempts - 1
    <3>1. Backoff = BackoffBase * 2^attempt /\ Backoff \in Nat
      <4>1. 2^attempt \in Nat
        BY <2>1, PowerCounts
      <4> QED BY <2>4, <4>1, DelaysAssumption DEF Backoff
    <3>2. /\ outcome = "running" /\ outcome' = outcome /\ pass' = pass
          /\ attempt' = attempt + 1
          /\ elapsed' <= elapsed + CallTimeout + Backoff
      BY <2>4, <3>1, RequestTakes DEF PassInv, TransientError, Request
    <3>3. elapsed <= (pass - 1) * PassTime + SpentBefore(attempt)
      BY <3>2 DEF TimeInv
    <3>4. SpentBefore(attempt + 1) = SpentBefore(attempt) + CallTimeout + Backoff
      BY <2>1, <3>1, SpentStep
    <3>5. SpentBefore(attempt) \in Nat /\ SpentBefore(attempt + 1) \in Nat
      BY <2>1, SpentType
    <3>6. elapsed' <= (pass' - 1) * PassTime + SpentBefore(attempt')
      BY <2>1, <3>1, <3>2, <3>3, <3>4, <3>5, DelaysAssumption
    <3>7. SpentBefore(attempt') + CallTimeout <= PassTime
      BY <3>2, SpentWithin DEF PassInv, TypeOK
    <3>8. elapsed' <= 2 * PassTime
      BY <2>1, <3>2, <3>5, <3>6, <3>7, DelaysAssumption
    <3> QED BY <3>6, <3>8 DEF TimeInv, TimeBounded, ClassifyTime
  <2>5. CASE TransientError /\ ~(attempt < MaxCallAttempts - 1)
    <3>1. Backoff = 0
      BY <2>5 DEF Backoff
    <3>2. Request(0) /\ outcome' # "running"
      BY <2>5, <3>1 DEF TransientError, EndPass
    <3> QED BY <2>2, <3>2
  <2>6. CASE FatalError
    BY <2>2, <2>6 DEF FatalError
  <2>7. CASE UNCHANGED vars
    BY <2>7 DEF vars, TimeInv, TimeBounded
  <2> QED BY <2>3, <2>4, <2>5, <2>6, <2>7 DEF Next
<1>3. TimeInv => TimeBounded
  BY DEF TimeInv
<1> QED BY <1>1, <1>2, <1>3, PassInvCorrect, PTL DEF Spec

---------------------------------------------------------------------------
(***************************************************************************)
(* The refinement: attempts, calls and waits are steps of one decision.    *)
(***************************************************************************)

\* A pass that comes to nothing fails the edit or keeps the first answer.
LEMMA EndPassMaps ==
    ASSUME PassInv, outcome = "running", NEW f \in {"parse", "unavailable"},
           EndPass(f)
    PROVE  Contract!Fail \/ Contract!KeepFirst
BY DEF PassInv, TypeOK, EndPass, Contract!Fail, Contract!KeepFirst

\* A usable answer is the first one or the second one.
LEMMA AcceptMaps ==
    ASSUME PassInv, outcome = "running", NEW v \in Verdict, Accept(v)
    PROVE  Contract!First(v) \/ Contract!Second(v)
<1>1. CASE pass = 1
  <2>1. result = NoResult
    BY <1>1 DEF PassInv
  <2>2. outcome' = IF LowConfidence(v) THEN "running" ELSE "verdict"
    BY <1>1 DEF Accept
  <2> QED BY <2>1, <2>2 DEF Accept, Contract!First
<1>2. CASE pass = 2
  BY <1>2 DEF PassInv, Accept, Contract!Second
<1> QED BY <1>1, <1>2 DEF PassInv, TypeOK

\* For every budget, threshold and set of labels, classify keeps its contract up
\* to an answer that normalize raises on: no retry, no failed second pass and no
\* answer read as unusable can lose a usable one.
THEOREM ContractCorrect == Spec => ContractKept
<1>1. Init => Contract!Init
  BY DEF Init, Contract!Init
<1>2. PassInv /\ [Next]_vars => [Contract!Next \/ Escapes]_<<result, outcome>>
  <2> SUFFICES ASSUME PassInv, [Next]_vars
               PROVE  Contract!Next \/ Escapes \/ UNCHANGED <<result, outcome>>
    OBVIOUS
  <2>1. ASSUME NEW r \in Response, Answered(r)
        PROVE  Contract!Next \/ Escapes
    <3>1. outcome = "running"
      BY <2>1 DEF Answered, Request
    <3>2. CASE Reading(r) = NoResult /\ EndPass("parse")
      BY <3>1, <3>2, EndPassMaps DEF Contract!Next
    <3>3. CASE outcome' = "escaped" /\ UNCHANGED <<pass, attempt, result>>
      BY <3>1, <3>3 DEF Escapes
    <3>4. CASE Reading(r) \notin {NoResult, Escape} /\ Accept(Reading(r))
      <4>1. Reading(r) \in Verdict
        BY <3>4, ReadingType
      <4> QED BY <3>1, <3>4, <4>1, AcceptMaps DEF Contract!Next
    <3> QED BY <2>1, <3>2, <3>3, <3>4 DEF Answered
  <2>2. CASE TransientError
    <3>1. outcome = "running"
      BY <2>2 DEF TransientError, Request
    <3> QED BY <2>2, <3>1, EndPassMaps
            DEF TransientError, Contract!Next
  <2>3. CASE FatalError
    BY <2>3 DEF FatalError, Request, Contract!Next, Contract!Abort
  <2>4. CASE UNCHANGED vars
    BY <2>4 DEF vars
  <2> QED BY <2>1, <2>2, <2>3, <2>4 DEF Next
<1> QED BY <1>1, <1>2, PassInvCorrect, PTL DEF Spec, ContractKept
===========================================================================
