------------------------------ MODULE Custody ------------------------------
(***************************************************************************)
(* What the pipeline promises about every payload it accepts, with no      *)
(* processes, offsets or failures in sight: somebody always holds it.      *)
(*                                                                         *)
(* A payload is held by a topic a consumer still has to read, by the table *)
(* as a classified edit, or by the DLQ.  It may be held in several places  *)
(* at once; the table and the DLQ hold for good; and a topic lets go of a  *)
(* payload only while something else holds it.                             *)
(***************************************************************************)
CONSTANT Payloads

VARIABLE holders     \* holders[x]: the places that hold payload x

Inboxes  == {"raw", "retry"}
Archives == {"dlq", "table"}
Places   == Inboxes \cup Archives

Init == holders = [x \in Payloads |-> {}]

\* A producer outside the service puts x on a topic.
Accept(x, place) ==
    /\ place \in Inboxes
    /\ holders' = [holders EXCEPT ![x] = @ \cup {place}]

\* Whoever works on x places it somewhere else as well.
HandOn(x, place) ==
    /\ holders[x] # {}
    /\ place \in Places \ {"raw"}
    /\ holders' = [holders EXCEPT ![x] = @ \cup {place}]

\* A topic's last unread copy of x is committed.
Release(x, place) ==
    /\ place \in Inboxes
    /\ holders[x] \ {place} # {}
    /\ holders' = [holders EXCEPT ![x] = @ \ {place}]

Next == \E x \in Payloads, place \in Places :
            \/ Accept(x, place)
            \/ HandOn(x, place)
            \/ Release(x, place)

Spec == Init /\ [][Next]_holders
============================================================================
