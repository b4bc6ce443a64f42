---------------------------- MODULE MCPollLoop ----------------------------
(***************************************************************************)
(* PollLoop with the numbers of service/app/config.py, infra.py, db.py and *)
(* failures.py.  Only the sweeper leaves max_poll_interval_ms to           *)
(* kafka-python (300 s).                                                   *)
(***************************************************************************)
EXTENDS PollLoop

WorkerAndRetrier == {"worker", "retrier"}
OnlySweeper      == {"sweeper"}

Shipped == [p \in Consumers |-> IF p = "sweeper" THEN 300 ELSE 600]
===========================================================================
