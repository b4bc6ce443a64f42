---------------------------- MODULE MCLifecycle ----------------------------
(***************************************************************************)
(* Lifecycle with three tries, two records and two signals.                *)
(***************************************************************************)
EXTENDS Lifecycle

Nowhere   == {}
InTheCall == {"handle"}
===========================================================================
