------------------------------ MODULE Delays ------------------------------
(***************************************************************************)
(* How long one classify can take: what service/app/classifier.py waits    *)
(* between attempts, and the two passes of attempts it makes at most.      *)
(* Classifier shows that it never takes longer; PollLoop counts with it.   *)
(***************************************************************************)
EXTENDS Integers

CONSTANTS
    MaxCallAttempts,  \* settings.classifier_max_call_attempts
    BackoffBase,      \* settings.classifier_backoff_base_seconds
    CallTimeout       \* the client's request timeout, in seconds

ASSUME DelaysAssumption ==
    /\ MaxCallAttempts \in Nat \ {0}
    /\ BackoffBase \in Nat /\ CallTimeout \in Nat

\* A pass of call_model whose attempts all time out, k of them so far, with
\* a wait after each.
SpentBefore(k) == k * CallTimeout + BackoffBase * (2^k - 1)

\* The longest pass, with no wait after its last attempt, and the longest
\* classify.
PassTime ==
    MaxCallAttempts * CallTimeout + BackoffBase * (2^(MaxCallAttempts - 1) - 1)

ClassifyTime == 2 * PassTime
===========================================================================
