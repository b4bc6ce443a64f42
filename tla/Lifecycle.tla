----------------------------- MODULE Lifecycle -----------------------------
(***************************************************************************)
(* From start to exit of one worker or retrier (main and run of worker.py  *)
(* and retrier.py, infra.py, connect and _reconnect of db.py), with        *)
(* SIGTERM and SIGINT raising ShutdownRequested wherever the process is.   *)
(*                                                                         *)
(* Absorbing names the phases in which a library's own handlers turn every *)
(* exception into an error the handler of the record retries.  MaxTries is *)
(* the parameter retries of connect and make_consumer; MaxSignals and      *)
(* MaxRecords bound the model.                                             *)
(***************************************************************************)
EXTENDS Naturals

CONSTANTS Absorbing, MaxTries, MaxSignals, MaxRecords

ASSUME LifecycleAssumption ==
    /\ Absorbing \subseteq {"handle"}
    /\ MaxTries \in Nat \ {0} /\ MaxSignals \in Nat /\ MaxRecords \in Nat

VARIABLES
    phase,      \* where the process is
    tries,      \* failed tries of the phase
    open,       \* "consumer", "producer", "connection", "replacement" (the
                \* handler's connection, before run is given it) and "orphan"
                \* (one that run never was given)
    joined,     \* whether the broker counts it in the consumer group
    taken, committed,
    signals,
    finished,   \* (history) records whose outcome is durable
    hit         \* (history) the phases a signal interrupted

records == <<taken, committed, finished>>
vars    == <<phase, tries, open, joined, records, signals, hit>>

Startup == {"connect", "subscribe", "produce"}
Looping == {"poll", "handle", "drop", "reconnect", "repeat", "finish"}
Closing == {"close_consumer", "close_producer", "close_connection"}

Goto(p) == phase' = p /\ tries' = 0

\* An exception leaves main, or run by way of its finally block.
Raise == Goto(IF phase \in Looping THEN "close_consumer" ELSE "exited")

---------------------------------------------------------------------------
(***************************************************************************)
(* main.                                                                   *)
(***************************************************************************)

\* (Bug variant: no try is the last.)
TryForever ==
    /\ tries' = IF tries + 1 = MaxTries THEN 0 ELSE tries + 1
    /\ UNCHANGED phase

\* (Bug variant: one try more than retries.)
TryOnceMore ==
    \/ tries = MaxTries /\ Raise
    \/ tries < MaxTries /\ tries' = tries + 1 /\ UNCHANGED phase

\* A try of connect or of make_consumer fails; the last one raises.
TryFails ==
    \/ tries + 1 = MaxTries /\ Raise
    \/ tries + 1 < MaxTries /\ tries' = tries + 1 /\ UNCHANGED phase

Unavailable ==
    /\ phase \in {"connect", "subscribe", "reconnect"}
    /\ TryFails
    /\ UNCHANGED <<open, joined, records, signals, hit>>

Start(p, resource, then) ==
    /\ phase = p
    /\ Goto(then)
    /\ open' = open \cup {resource}
    /\ UNCHANGED <<joined, records, signals, hit>>

Connect      == Start("connect", "connection", "subscribe")
MakeConsumer == Start("subscribe", "consumer", "produce")
MakeProducer == Start("produce", "producer", "poll")

\* make_producer has one try.
NoProducer ==
    /\ phase = "produce" /\ Raise
    /\ UNCHANGED <<open, joined, records, signals, hit>>

---------------------------------------------------------------------------
(***************************************************************************)
(* run.                                                                    *)
(***************************************************************************)

\* Iterating the consumer polls, and so joins the group.
Poll ==
    /\ phase = "poll"
    /\ taken < MaxRecords
    /\ taken' = taken + 1
    /\ joined' = TRUE
    /\ Goto("handle")
    /\ UNCHANGED <<open, committed, finished, signals, hit>>

\* The record's handler, to the statement that makes its outcome durable;
\* after a reconnection the statement is repeated.
Handle ==
    /\ phase \in {"handle", "repeat"}
    /\ finished' = finished + 1
    /\ Goto("finish")
    /\ UNCHANGED <<open, joined, taken, committed, signals, hit>>

\* The handler raises: a configuration error, or a statement, a publish or a
\* commit that fails for good.
HandlerRaises ==
    /\ phase \in {"handle", "repeat", "finish"}
    /\ Raise
    /\ UNCHANGED <<open, joined, records, signals, hit>>

\* The statement finds the connection lost; on one that was closed before, no
\* statement gets that far.
LoseConnection ==
    /\ phase = "handle" /\ "connection" \in open
    /\ Goto("drop")
    /\ UNCHANGED <<open, joined, records, signals, hit>>

\* _reconnect: the lost connection is closed, whatever that raises ...
Drop ==
    /\ phase = "drop"
    /\ open' = open \ {"connection"}
    /\ Goto("reconnect")
    /\ UNCHANGED <<joined, records, signals, hit>>

\* ... and a new one opened, which is the handler's until it returns.
Reconnect == Start("reconnect", "replacement", "repeat")

\* The replacement becomes run's connection, or nobody's.
HandBack(name) ==
    /\ "replacement" \in open
    /\ open' = (open \ {"replacement"}) \cup {name}

\* The offset is committed and run goes on with the connection it is handed:
\* the handler's, or after a data error the one it had before (guard_schema_error),
\* which a reconnection has closed.
Finish ==
    /\ phase = "finish"
    /\ committed' = taken
    /\ \/ "replacement" \notin open /\ UNCHANGED open
       \/ HandBack("connection")
       \/ HandBack("orphan")
    /\ Goto("poll")
    /\ UNCHANGED <<joined, taken, finished, signals, hit>>

\* (Bug variant: the consumer is closed last.)
ConsumerLast ==
    \/ /\ phase = "close_consumer" /\ "connection" \in open
       /\ Goto("close_connection") /\ UNCHANGED <<open, joined, committed>>
    \/ /\ phase = "close_connection" /\ open' = open \ {"connection"}
       /\ Goto("close_producer") /\ UNCHANGED <<joined, committed>>
    \/ /\ phase = "close_producer" /\ open' = open \ {"producer"}
       /\ Goto("close_consumer") /\ UNCHANGED <<joined, committed>>
    \/ /\ phase = "close_consumer" /\ "connection" \notin open
       /\ open' = open \ {"consumer"} /\ joined' = FALSE
       /\ Goto("exited") /\ UNCHANGED committed

\* (Bug variant: a consumer made with auto-commit commits as it closes.)
CommitOnClose ==
    \/ /\ phase = "close_consumer" /\ open' = open \ {"consumer"}
       /\ joined' = FALSE /\ Goto("close_producer") /\ committed' = taken
    \/ /\ phase = "close_producer" /\ open' = open \ {"producer"}
       /\ Goto("close_connection") /\ UNCHANGED <<joined, committed>>
    \/ /\ phase = "close_connection" /\ open' = open \ {"connection"}
       /\ Goto("exited") /\ UNCHANGED <<joined, committed>>

\* (Bug variant: the producer is left to the end of the process.)
ProducerLeft ==
    \/ /\ phase = "close_consumer" /\ open' = open \ {"consumer"}
       /\ joined' = FALSE /\ Goto("close_connection") /\ UNCHANGED committed
    \/ /\ phase = "close_connection" /\ open' = open \ {"connection"}
       /\ Goto("exited") /\ UNCHANGED <<joined, committed>>

\* The finally block, of the connection run has.  Closing the consumer leaves
\* the group and, without auto-commit, commits nothing.
CloseNext ==
    \/ /\ phase = "close_consumer" /\ open' = open \ {"consumer"}
       /\ joined' = FALSE /\ Goto("close_producer") /\ UNCHANGED committed
    \/ /\ phase = "close_producer" /\ open' = open \ {"producer"}
       /\ Goto("close_connection") /\ UNCHANGED <<joined, committed>>
    \/ /\ phase = "close_connection" /\ open' = open \ {"connection"}
       /\ Goto("exited") /\ UNCHANGED <<joined, committed>>

Close == CloseNext /\ UNCHANGED <<taken, finished, signals, hit>>

---------------------------------------------------------------------------
(***************************************************************************)
(* ShutdownRequested.                                                      *)
(***************************************************************************)

\* (Bug variant: a connection's tries catch every exception.)
InterruptRetried ==
    \/ phase = "drop" /\ Goto("reconnect")
    \/ phase \in Absorbing \cup {"reconnect"} /\ UNCHANGED <<phase, tries>>
    \/ phase \notin Absorbing \cup {"drop", "reconnect"} /\ Raise

\* Within suppress(Exception) it ends the close and no more; where a library
\* absorbs it, the call fails and is tried again.  Anywhere else it is raised.
Interrupt ==
    \/ phase = "drop" /\ Goto("reconnect")
    \/ phase \in Absorbing /\ UNCHANGED <<phase, tries>>
    \/ phase \notin Absorbing \cup {"drop"} /\ Raise

Signal ==
    /\ phase # "exited"
    /\ signals < MaxSignals
    /\ signals' = signals + 1
    /\ hit' = hit \cup {phase}
    /\ Interrupt
    /\ UNCHANGED <<open, joined, records>>

---------------------------------------------------------------------------

Init ==
    /\ phase = "connect" /\ tries = 0
    /\ open = {} /\ joined = FALSE
    /\ taken = 0 /\ committed = 0 /\ finished = 0
    /\ signals = 0 /\ hit = {}

Proceed ==
    \/ Connect \/ MakeConsumer \/ MakeProducer \/ NoProducer \/ Unavailable
    \/ Poll \/ Handle \/ HandlerRaises
    \/ LoseConnection \/ Drop \/ Reconnect \/ Finish \/ Close

Next == Proceed \/ Signal

Spec == Init /\ [][Next]_vars

\* The process is run while it has something to do.
FairSpec == Spec /\ WF_vars(Proceed)

---------------------------------------------------------------------------
(***************************************************************************)
(* What holds of it.                                                       *)
(***************************************************************************)

\* A process that was in the group has left it when it exits, whenever the
\* signals came, a second one while it closes its producer included; only one
\* that interrupts closing the consumer itself leaves the broker waiting.
LeavesGroup ==
    phase = "exited" /\ "close_consumer" \notin hit => ~joined

\* Shutting down commits nothing: an offset is past a record only if the
\* record's outcome is durable.
NothingSkipped == committed <= finished

\* A process that has handled records, and was not interrupted while it closed
\* what run has, leaves nothing open: nothing but a connection that a handler
\* opened and run was not given.  The single try/finally closes the rest,
\* however far the record in flight had come.
RunCloses ==
    phase = "exited" /\ taken > 0 /\ hit \cap Closing = {} =>
        open \subseteq {"replacement", "orphan"}

\* A signal ends the process wherever it is raised: in the middle of a
\* record, of a reconnection, of starting up or of closing.  Only one swallowed
\* by the suppressed close of a lost connection, or by a library, does not.
SignalEnds ==
    hit \ (Absorbing \cup {"drop"}) # {} ~> phase = "exited"

\* No dependency that stays away holds the process up for good.
TriesEnd == phase \in {"connect", "subscribe", "reconnect"} ~>
                phase \notin {"connect", "subscribe", "reconnect"}

---------------------------------------------------------------------------
(***************************************************************************)
(* The invariant that the three follow from.                               *)
(***************************************************************************)

\* Every variable keeps its type, and nothing is tried more than MaxTries
\* times.
TypeOK ==
    /\ phase \in Startup \cup Looping \cup Closing \cup {"exited"}
    /\ tries \in 0 .. MaxTries - 1
    /\ open \subseteq {"consumer", "producer", "connection", "replacement", "orphan"}
    /\ joined \in BOOLEAN
    /\ taken \in Nat /\ committed \in Nat /\ finished \in Nat
    /\ signals \in 0 .. MaxSignals
    /\ hit \subseteq Startup \cup Looping \cup Closing

\* Only a process in its loop, or about to close its consumer, is in the group.
GroupInv ==
    joined => phase \in Looping \cup {"close_consumer"} \/ "close_consumer" \in hit

\* All records taken are finished, but the one in its handler.
RecordInv ==
    /\ phase \in Startup => taken = 0
    /\ phase \in Startup \cup {"poll", "finish"} => finished = taken
    /\ phase \in {"handle", "drop", "reconnect", "repeat"} => finished + 1 = taken

\* What the finally block has not come to yet.
ClosingInv ==
    taken > 0 /\ hit \cap Closing = {} =>
        /\ phase = "close_producer" => "consumer" \notin open
        /\ phase = "close_connection" => {"consumer", "producer"} \cap open = {}

LifecycleInv ==
    /\ TypeOK /\ GroupInv /\ RecordInv /\ ClosingInv
    /\ LeavesGroup /\ NothingSkipped /\ RunCloses

---------------------------------------------------------------------------
(***************************************************************************)
(* What does not hold, though infra.py and worker.py say so.               *)
(***************************************************************************)

\* "Consume until asked to stop, then leave the group cleanly": a signal ends
\* the process.
ShutdownEnds == signals > 0 ~> phase = "exited"
===========================================================================
