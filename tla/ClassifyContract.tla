------------------------- MODULE ClassifyContract -------------------------
(***************************************************************************)
(* What a caller of service/app/classifier.py's classify() may rely on,    *)
(* whatever the calls, retries and waits inside: a usable answer, once     *)
(* there is one, is what classify returns, unless one that saw more        *)
(* context takes its place or a fatal error of the client stops the        *)
(* process.  An answer, however strange, is no reason to stop: unusable    *)
(* output in the first pass fails the edit, in the second it is ignored.   *)
(***************************************************************************)

CONSTANTS
    Results,      \* usable answers
    LowResults,   \* those a second pass is worth
    NoResult,     \* no usable answer yet
    Aborts        \* errors of the client that must stop the process

VARIABLES
    result,       \* the best answer so far
    outcome       \* "running", or how classify ended

vars == <<result, outcome>>

Init == result = NoResult /\ outcome = "running"

\* A first answer ends the call, unless it is worth a second pass.
First(r) ==
    /\ outcome = "running" /\ result = NoResult
    /\ result' = r
    /\ outcome' = IF r \in LowResults THEN "running" ELSE "verdict"

\* The second pass's answer takes the first one's place.
Second(r) ==
    /\ outcome = "running" /\ result \in LowResults
    /\ result' = r /\ outcome' = "verdict"

\* The second pass came to nothing.
KeepFirst ==
    /\ outcome = "running" /\ result \in LowResults
    /\ outcome' = "verdict" /\ UNCHANGED result

\* There never was a usable answer.
Fail ==
    /\ outcome = "running" /\ result = NoResult
    /\ outcome' \in {"parse", "unavailable"} /\ UNCHANGED result

\* "misconfiguration must never be swallowed", nor a bug of the client.
Abort ==
    /\ outcome = "running"
    /\ outcome' \in Aborts /\ UNCHANGED result

Next ==
    \/ \E r \in Results : First(r) \/ Second(r)
    \/ KeepFirst
    \/ Fail
    \/ Abort

Spec == Init /\ [][Next]_vars
===========================================================================
