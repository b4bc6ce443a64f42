---------------------------- MODULE Classifier ----------------------------
(***************************************************************************)
(* service/app/classifier.py: one classify() of one edit.  A pass calls    *)
(* the model up to MaxCallAttempts times, waiting between the attempts,    *)
(* and reads the answer it gets; an answer the model is unsure of is       *)
(* worth a second pass with more context.                                  *)
(*                                                                         *)
(* Confidences are integers, One standing for 1.0; a response is its stop  *)
(* reason and its body, and a body that is a JSON object is its label and  *)
(* its confidence.                                                         *)
(***************************************************************************)
EXTENDS Delays

CONSTANTS
    Threshold,        \* settings.confidence_threshold
    One,              \* confidence 1.0
    Labels,           \* VALID_LABELS
    OtherLabel,       \* any other string, number or null, or no label
    Unhashable,       \* a list or an object where the label should be
    Numbers,          \* confidences that are ordinary numbers
    NaN,              \* json.loads reads the token NaN as a float
    Huge,             \* an integer no float can hold
    NotNumber,        \* true, false, null, a string, a list or an object
    Absent,           \* no confidence at all
    NotAnObject,      \* a body that is not JSON, or not a JSON object
    NoResult,         \* None
    Escape            \* normalize raised

OddConfidences == {NaN, Huge, NotNumber, Absent}

ASSUME ClassifierAssumption ==
    /\ Threshold \in Nat /\ One \in Nat
    /\ Numbers \subseteq Int /\ OddConfidences \cap Int = {}
    /\ NoResult \notin [label : Labels, confidence : 0 .. One \cup {NaN}]

VARIABLES
    pass,      \* 1, or 2 with the longer prompt
    attempt,   \* call_model's attempt, from 0
    result,    \* the usable answer classify holds
    outcome,   \* "running", or how classify ended
    calls,     \* requests made so far
    elapsed    \* seconds spent so far, waits included

vars == <<pass, attempt, result, outcome, calls, elapsed>>

Body     == {NotAnObject} \cup
            [label : Labels \cup {OtherLabel, Unhashable},
             confidence : Numbers \cup OddConfidences]
Response == [stop : {"end_turn", "refusal", "max_tokens"}, body : Body]
Verdict  == [label : Labels, confidence : 0 .. One \cup {NaN}]

---------------------------------------------------------------------------
(***************************************************************************)
(* Reading an answer.                                                      *)
(***************************************************************************)

\* (Bug variant: a number is taken as it comes.)
Unclamped(c) == IF c = Absent THEN 0 ELSE c

\* min(max(float(confidence), 0.0), 1.0); both leave a NaN alone, and a
\* missing confidence is 0.0.
Clamp(c) ==
    CASE c = NaN    -> NaN
      [] c = Absent -> 0
      [] OTHER      -> IF c < 0 THEN 0 ELSE IF c > One THEN One ELSE c

\* normalize: NoResult for an answer it refuses.  `label not in VALID_LABELS`
\* raises TypeError on a list or an object, and float() raises OverflowError
\* on an integer beyond the floats.
Normalize(o) ==
    CASE o.label = Unhashable      -> Escape
      [] o.label = OtherLabel      -> NoResult
      [] o.label \in Labels /\ o.confidence = NotNumber -> NoResult
      [] o.label \in Labels /\ o.confidence = Huge      -> Escape
      [] OTHER -> [label |-> o.label, confidence |-> Clamp(o.confidence)]

\* _attempt once the call returned: the schema is no guarantee for a refusal
\* or a truncated answer, and a body has to be an object.
Reading(r) ==
    IF r.stop # "end_turn" \/ r.body = NotAnObject THEN NoResult
                                                    ELSE Normalize(r.body)

\* result.confidence < confidence_threshold, which no NaN is.
LowConfidence(v) == v.confidence # NaN /\ v.confidence < Threshold

---------------------------------------------------------------------------
(***************************************************************************)
(* The passes.                                                             *)
(***************************************************************************)

Init ==
    /\ pass = 1 /\ attempt = 0
    /\ result = NoResult /\ outcome = "running"
    /\ calls = 0 /\ elapsed = 0

\* One request: it is counted, and it is over at once or after its timeout.
Request(wait) ==
    /\ outcome = "running"
    /\ calls' = calls + 1
    /\ \E t \in {0, CallTimeout} : elapsed' = elapsed + t + wait

\* (Bug variant: a second pass that comes to nothing fails the edit.)
EndPassLosingFirst(failure) ==
    /\ outcome' = failure
    /\ UNCHANGED <<pass, attempt, result>>

\* The pass came to nothing: in the first one that is a failure, in the
\* second the first answer stands.
EndPass(failure) ==
    /\ outcome' = IF pass = 1 THEN failure ELSE "verdict"
    /\ UNCHANGED <<pass, attempt, result>>

\* A usable answer: the second pass's replaces the first one's, and a first
\* one below the threshold starts the second pass.
Accept(v) ==
    /\ result' = v
    /\ IF pass = 1 /\ LowConfidence(v)
       THEN pass' = 2 /\ attempt' = 0 /\ UNCHANGED outcome
       ELSE outcome' = "verdict" /\ UNCHANGED <<pass, attempt>>

\* The model answers.
Answered(r) ==
    /\ Request(0)
    /\ \/ Reading(r) = NoResult /\ EndPass("parse")
       \/ /\ Reading(r) = Escape
          /\ outcome' = "escaped" /\ UNCHANGED <<pass, attempt, result>>
       \/ Reading(r) \notin {NoResult, Escape} /\ Accept(Reading(r))

\* (Bug variant: the wait comes after the last attempt as well.)
BackoffAlways == BackoffBase * 2^attempt

\* The wait after a failed attempt; none after the last.
Backoff ==
    IF attempt < MaxCallAttempts - 1 THEN BackoffBase * 2^attempt ELSE 0

\* (Bug variant: one attempt too many.)
TransientErrorLate ==
    /\ Request(Backoff)
    /\ IF attempt < MaxCallAttempts
       THEN attempt' = attempt + 1 /\ UNCHANGED <<pass, result, outcome>>
       ELSE EndPass("unavailable")

\* A rate limit, a connection error or timeout, a 5xx, 408 or 409, or an API
\* error without a status: the next attempt, or ModelUnavailableError.
TransientError ==
    /\ Request(Backoff)
    /\ IF attempt < MaxCallAttempts - 1
       THEN attempt' = attempt + 1 /\ UNCHANGED <<pass, result, outcome>>
       ELSE EndPass("unavailable")

\* ModelConfigError (no key, any other 4xx), which nothing catches, or a
\* TypeError of the client that is a bug of this program.
FatalError ==
    /\ Request(0)
    /\ outcome' \in {"config", "clientBug"}
    /\ UNCHANGED <<pass, attempt, result>>

Next ==
    \/ \E r \in Response : Answered(r)
    \/ TransientError
    \/ FatalError

Spec == Init /\ [][Next]_vars

---------------------------------------------------------------------------
(***************************************************************************)
(* What holds of it.                                                       *)
(***************************************************************************)

Outcomes == {"running", "verdict", "parse", "unavailable", "config",
             "clientBug", "escaped"}

\* Every variable keeps its type, and the second pass has a first answer.
TypeOK ==
    /\ pass \in {1, 2}
    /\ attempt \in 0 .. MaxCallAttempts - 1
    /\ result \in Verdict \cup {NoResult}
    /\ outcome \in Outcomes
    /\ calls \in Nat /\ elapsed \in Nat

\* No edit costs more than two passes' worth of requests, however failed
\* attempts and answers mix (worker.py: "at most 6 calls").  A request ends,
\* so classify does.
CallsBounded == calls <= 2 * MaxCallAttempts

\* One classify is over within ClassifyTime: the time PollLoop counts on, and
\* the one worker.py sets MAX_POLL_INTERVAL_MS by.
TimeBounded == elapsed <= ClassifyTime

\* An edit is given up as unavailable only after exactly one budget of
\* attempts, as unparseable only within its first pass, and neither ever when
\* a usable answer is at hand; and no verdict is made up without one.
OutcomeEarned ==
    /\ outcome = "unavailable" => calls = MaxCallAttempts /\ result = NoResult
    /\ outcome = "parse" => calls <= MaxCallAttempts /\ result = NoResult
    /\ outcome = "verdict" => result # NoResult

\* What CallsBounded and OutcomeEarned follow from: attempts are counted
\* within the pass, and a second pass stands on a first answer.
PassInv ==
    /\ TypeOK
    /\ outcome = "running" =>
        /\ pass = 1 => calls = attempt /\ result = NoResult
        /\ pass = 2 => /\ calls <= MaxCallAttempts + attempt
                       /\ result \in Verdict /\ LowConfidence(result)
    /\ CallsBounded
    /\ OutcomeEarned

\* What TimeBounded follows from: a running pass has spent no more than its
\* failed attempts take.
TimeInv ==
    /\ outcome = "running" =>
            elapsed <= (pass - 1) * PassTime + SpentBefore(attempt)
    /\ TimeBounded

Contract ==
    INSTANCE ClassifyContract
        WITH Results    <- Verdict,
             LowResults <- {v \in Verdict : LowConfidence(v)},
             Aborts     <- {"config", "clientBug"}

\* normalize raises on the answer it is given, whatever classify holds.
Escapes ==
    /\ outcome = "running" /\ outcome' = "escaped"
    /\ UNCHANGED result

\* Up to an answer that normalize raises on, classify keeps its contract: once
\* an answer is usable, no retry, no second pass that fails and no unusable
\* output of it can lose it.  Such an answer breaks the contract, in either
\* pass: in the second it loses a usable first answer, although "unusable output
\* keeps the first-pass result" (classify's comment).
ContractKept ==
    Contract!Init /\ [][Contract!Next \/ Escapes]_<<result, outcome>>

===========================================================================
