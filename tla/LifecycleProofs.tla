-------------------------- MODULE LifecycleProofs --------------------------
(***************************************************************************)
(* Proofs about Lifecycle: however many signals come and wherever, for any *)
(* number of tries and records, a process leaves its group, commits only   *)
(* what is finished, and closes what run has.                              *)
(***************************************************************************)
EXTENDS Lifecycle, TLAPS

\* The program's own steps, before, in and after the loop.
StartsUp ==
    Connect \/ MakeConsumer \/ MakeProducer \/ NoProducer \/ Unavailable

Loops ==
    Poll \/ Handle \/ HandlerRaises \/ LoseConnection \/ Drop \/ Reconnect \/ Finish

Phases == Startup \cup Looping \cup Closing \cup {"exited"}

\* A phase begins with no failed try.
LEMMA FirstTry == 0 \in 0 .. MaxTries - 1 /\ 0 \in 0 .. MaxSignals
BY LifecycleAssumption

\* An exception ends the process, by way of the finally block if it is in run.
LEMMA RaiseGoes ==
    ASSUME phase \in Phases, Raise
    PROVE  /\ tries' = 0
           /\ phase \in Looping => phase' = "close_consumer"
           /\ phase \notin Looping => phase' = "exited"
BY DEF Raise, Goto

\* A try that fails raises, or leaves the process where it is.
LEMMA TryGoes ==
    ASSUME TypeOK, TryFails
    PROVE  /\ tries' \in 0 .. MaxTries - 1
           /\ phase' = phase \/ Raise
BY LifecycleAssumption DEF TypeOK, TryFails, Raise, Goto

\* A signal raises, is swallowed with the close of a lost connection, or is
\* absorbed within a handler.
LEMMA InterruptGoes ==
    ASSUME TypeOK, Interrupt
    PROVE  /\ tries' \in 0 .. MaxTries - 1
           /\ \/ phase = "drop" /\ phase' = "reconnect"
              \/ phase = "handle" /\ phase' = "handle"
              \/ phase # "drop" /\ Raise
<1>1. tries \in 0 .. MaxTries - 1 /\ 0 \in 0 .. MaxTries - 1 /\ phase \in Phases
  BY LifecycleAssumption DEF TypeOK, Phases
<1>2. CASE phase = "drop" /\ Goto("reconnect")
  BY <1>1, <1>2 DEF Goto
<1>3. CASE phase \in Absorbing /\ UNCHANGED <<phase, tries>>
  BY <1>1, <1>3, LifecycleAssumption
<1>4. CASE phase # "drop" /\ Raise
  BY <1>1, <1>4, RaiseGoes
<1> QED BY <1>2, <1>3, <1>4 DEF Interrupt

---------------------------------------------------------------------------
(***************************************************************************)
(* The invariant, one lemma per part of the program.                       *)
(***************************************************************************)

LEMMA LifecycleInit == Init => LifecycleInv
<1> SUFFICES ASSUME Init PROVE LifecycleInv
  OBVIOUS
<1>1. TypeOK
  BY FirstTry DEF Init, TypeOK, Startup
<1>2. GroupInv /\ LeavesGroup /\ NothingSkipped
  BY DEF Init, GroupInv, LeavesGroup, NothingSkipped
<1>3. RecordInv /\ ClosingInv /\ RunCloses
  BY DEF Init, RecordInv, ClosingInv, RunCloses, Startup
<1> QED BY <1>1, <1>2, <1>3 DEF LifecycleInv

\* Whatever is raised before the finally block keeps the invariant: in run it
\* goes there, elsewhere the process was in no group and had no record.
LEMMA RaiseKeeps ==
    ASSUME LifecycleInv, Raise, phase \in Startup \cup Looping,
           UNCHANGED <<open, joined, records>>,
           \/ UNCHANGED <<signals, hit>>
           \/ signals' \in 0 .. MaxSignals /\ hit' = hit \cup {phase}
    PROVE  LifecycleInv'
<1> USE DEF LifecycleInv, Startup, Looping, Closing
<1>0. /\ tries' = 0 /\ 0 \in 0 .. MaxTries - 1
      /\ phase' \in {"close_consumer", "exited"}
  BY RaiseGoes, LifecycleAssumption DEF Phases
<1>1. TypeOK'
  BY <1>0 DEF TypeOK, records
<1>2. CASE phase \in Startup
  BY <1>1, <1>2, RaiseGoes
     DEF Phases, records, GroupInv, RecordInv, ClosingInv, LeavesGroup, NothingSkipped, RunCloses
<1>3. CASE phase \in Looping
  BY <1>1, <1>3, RaiseGoes
     DEF Phases, records, GroupInv, RecordInv, ClosingInv, LeavesGroup, NothingSkipped, RunCloses
<1> QED BY <1>2, <1>3

LEMMA StartsUpKeeps ==
    ASSUME LifecycleInv, StartsUp
    PROVE  LifecycleInv'
<1> USE DEF LifecycleInv, Goto, Start, records, Startup, Looping, Closing
<1>1. CASE Connect
  <2>1. TypeOK'
    BY <1>1, FirstTry DEF Connect, TypeOK
  <2>2. GroupInv' /\ LeavesGroup'
    BY <1>1 DEF Connect, TypeOK, GroupInv, LeavesGroup
  <2>3. RecordInv' /\ NothingSkipped'
    BY <1>1 DEF Connect, TypeOK, RecordInv, NothingSkipped
  <2>4. ClosingInv' /\ RunCloses'
    BY <1>1 DEF Connect, TypeOK, RecordInv, ClosingInv, RunCloses
  <2> QED BY <2>1, <2>2, <2>3, <2>4
<1>2. CASE MakeConsumer
  <2>1. TypeOK'
    BY <1>2, FirstTry DEF MakeConsumer, TypeOK
  <2>2. GroupInv' /\ LeavesGroup'
    BY <1>2 DEF MakeConsumer, TypeOK, GroupInv, LeavesGroup
  <2>3. RecordInv' /\ NothingSkipped'
    BY <1>2 DEF MakeConsumer, TypeOK, RecordInv, NothingSkipped
  <2>4. ClosingInv' /\ RunCloses'
    BY <1>2 DEF MakeConsumer, TypeOK, RecordInv, ClosingInv, RunCloses
  <2> QED BY <2>1, <2>2, <2>3, <2>4
<1>3. CASE MakeProducer
  <2>1. TypeOK'
    BY <1>3, FirstTry DEF MakeProducer, TypeOK
  <2>2. GroupInv' /\ LeavesGroup'
    BY <1>3 DEF MakeProducer, TypeOK, GroupInv, LeavesGroup
  <2>3. RecordInv' /\ NothingSkipped'
    BY <1>3 DEF MakeProducer, TypeOK, RecordInv, NothingSkipped
  <2>4. ClosingInv' /\ RunCloses'
    BY <1>3 DEF MakeProducer, TypeOK, RecordInv, ClosingInv, RunCloses
  <2> QED BY <2>1, <2>2, <2>3, <2>4
<1>4. CASE NoProducer
  BY <1>4, RaiseKeeps DEF NoProducer
<1>5. CASE Unavailable
  <2>1. phase' = phase \/ Raise
    BY <1>5, TryGoes DEF Unavailable
  <2>2. CASE Raise
    BY <1>5, <2>2, RaiseKeeps DEF Unavailable
  <2>3. CASE phase' = phase
    BY <1>5, <2>3, TryGoes
       DEF Unavailable, TypeOK, GroupInv, RecordInv, ClosingInv, LeavesGroup,
           NothingSkipped, RunCloses
  <2> QED BY <2>1, <2>2, <2>3
<1> QED BY <1>1, <1>2, <1>3, <1>4, <1>5 DEF StartsUp

LEMMA LoopsKeeps ==
    ASSUME LifecycleInv, Loops
    PROVE  LifecycleInv'
<1> USE DEF LifecycleInv, Goto, Start, records, Startup, Looping, Closing
<1>1. CASE HandlerRaises
  BY <1>1, RaiseKeeps DEF HandlerRaises
<1>2. CASE Poll
  <2>1. TypeOK'
    BY <1>2, FirstTry DEF Poll, TypeOK
  <2>2. GroupInv' /\ LeavesGroup'
    BY <1>2 DEF Poll, TypeOK, GroupInv, LeavesGroup
  <2>3. RecordInv' /\ NothingSkipped'
    BY <1>2 DEF Poll, TypeOK, RecordInv, NothingSkipped
  <2>4. ClosingInv' /\ RunCloses'
    BY <1>2 DEF Poll, TypeOK, RecordInv, ClosingInv, RunCloses
  <2> QED BY <2>1, <2>2, <2>3, <2>4
<1>3. CASE Handle
  <2>1. TypeOK'
    BY <1>3, FirstTry DEF Handle, TypeOK
  <2>2. GroupInv' /\ LeavesGroup'
    BY <1>3 DEF Handle, TypeOK, GroupInv, LeavesGroup
  <2>3. RecordInv' /\ NothingSkipped'
    BY <1>3 DEF Handle, TypeOK, RecordInv, NothingSkipped
  <2>4. ClosingInv' /\ RunCloses'
    BY <1>3 DEF Handle, TypeOK, RecordInv, ClosingInv, RunCloses
  <2> QED BY <2>1, <2>2, <2>3, <2>4
<1>4. CASE LoseConnection
  <2>1. TypeOK'
    BY <1>4, FirstTry DEF LoseConnection, TypeOK
  <2>2. GroupInv' /\ LeavesGroup'
    BY <1>4 DEF LoseConnection, TypeOK, GroupInv, LeavesGroup
  <2>3. RecordInv' /\ NothingSkipped'
    BY <1>4 DEF LoseConnection, TypeOK, RecordInv, NothingSkipped
  <2>4. ClosingInv' /\ RunCloses'
    BY <1>4 DEF LoseConnection, TypeOK, RecordInv, ClosingInv, RunCloses
  <2> QED BY <2>1, <2>2, <2>3, <2>4
<1>5. CASE Drop
  <2>1. TypeOK'
    BY <1>5, FirstTry DEF Drop, TypeOK
  <2>2. GroupInv' /\ LeavesGroup'
    BY <1>5 DEF Drop, TypeOK, GroupInv, LeavesGroup
  <2>3. RecordInv' /\ NothingSkipped'
    BY <1>5 DEF Drop, TypeOK, RecordInv, NothingSkipped
  <2>4. ClosingInv' /\ RunCloses'
    BY <1>5 DEF Drop, TypeOK, RecordInv, ClosingInv, RunCloses
  <2> QED BY <2>1, <2>2, <2>3, <2>4
<1>6. CASE Reconnect
  <2>1. TypeOK'
    BY <1>6, FirstTry DEF Reconnect, TypeOK
  <2>2. GroupInv' /\ LeavesGroup'
    BY <1>6 DEF Reconnect, TypeOK, GroupInv, LeavesGroup
  <2>3. RecordInv' /\ NothingSkipped'
    BY <1>6 DEF Reconnect, TypeOK, RecordInv, NothingSkipped
  <2>4. ClosingInv' /\ RunCloses'
    BY <1>6 DEF Reconnect, TypeOK, RecordInv, ClosingInv, RunCloses
  <2> QED BY <2>1, <2>2, <2>3, <2>4
<1>7. CASE Finish
  <2>1. TypeOK'
    BY <1>7, FirstTry DEF Finish, HandBack, TypeOK
  <2>2. GroupInv' /\ LeavesGroup'
    BY <1>7 DEF Finish, HandBack, TypeOK, GroupInv, LeavesGroup
  <2>3. RecordInv' /\ NothingSkipped'
    BY <1>7 DEF Finish, HandBack, TypeOK, RecordInv, NothingSkipped
  <2>4. ClosingInv' /\ RunCloses'
    BY <1>7 DEF Finish, HandBack, TypeOK, RecordInv, ClosingInv, RunCloses
  <2> QED BY <2>1, <2>2, <2>3, <2>4
<1> QED BY <1>1, <1>2, <1>3, <1>4, <1>5, <1>6, <1>7 DEF Loops

LEMMA CloseKeeps ==
    ASSUME LifecycleInv, Close
    PROVE  LifecycleInv'
<1> USE DEF LifecycleInv, Goto, Start, records, Startup, Looping, Closing
<1>1. UNCHANGED <<taken, finished, signals, hit>> /\ tries' = 0
  BY DEF Close, CloseNext
<1>2. CASE /\ phase = "close_consumer" /\ open' = open \ {"consumer"}
           /\ joined' = FALSE /\ phase' = "close_producer" /\ UNCHANGED committed
  <2>1. TypeOK'
    BY <1>1, <1>2, FirstTry DEF TypeOK
  <2>2. GroupInv' /\ LeavesGroup'
    BY <1>1, <1>2 DEF TypeOK, GroupInv, LeavesGroup
  <2>3. RecordInv' /\ NothingSkipped'
    BY <1>1, <1>2 DEF TypeOK, RecordInv, NothingSkipped
  <2>4. ClosingInv' /\ RunCloses'
    BY <1>1, <1>2 DEF TypeOK, RecordInv, ClosingInv, RunCloses
  <2> QED BY <2>1, <2>2, <2>3, <2>4
<1>3. CASE /\ phase = "close_producer" /\ open' = open \ {"producer"}
           /\ phase' = "close_connection" /\ UNCHANGED <<joined, committed>>
  <2>1. TypeOK'
    BY <1>1, <1>3, FirstTry DEF TypeOK
  <2>2. GroupInv' /\ LeavesGroup'
    BY <1>1, <1>3 DEF TypeOK, GroupInv, LeavesGroup
  <2>3. RecordInv' /\ NothingSkipped'
    BY <1>1, <1>3 DEF TypeOK, RecordInv, NothingSkipped
  <2>4. ClosingInv' /\ RunCloses'
    BY <1>1, <1>3 DEF TypeOK, RecordInv, ClosingInv, RunCloses
  <2> QED BY <2>1, <2>2, <2>3, <2>4
<1>4. CASE /\ phase = "close_connection" /\ open' = open \ {"connection"}
           /\ phase' = "exited" /\ UNCHANGED <<joined, committed>>
  <2>1. TypeOK'
    BY <1>1, <1>4, FirstTry DEF TypeOK
  <2>2. GroupInv' /\ LeavesGroup'
    BY <1>1, <1>4 DEF TypeOK, GroupInv, LeavesGroup
  <2>3. RecordInv' /\ NothingSkipped'
    BY <1>1, <1>4 DEF TypeOK, RecordInv, NothingSkipped
  <2>4. ClosingInv' /\ RunCloses'
    BY <1>1, <1>4 DEF TypeOK, RecordInv, ClosingInv, RunCloses
  <2> QED BY <2>1, <2>2, <2>3, <2>4
<1> QED BY <1>2, <1>3, <1>4 DEF Close, CloseNext

LEMMA SignalKeeps ==
    ASSUME LifecycleInv, Signal
    PROVE  LifecycleInv'
<1> USE DEF LifecycleInv, Goto, Start, records, Startup, Looping, Closing
<1>1. /\ phase \in Phases /\ phase # "exited"
      /\ signals' \in 0 .. MaxSignals /\ hit' = hit \cup {phase}
      /\ UNCHANGED <<open, joined, records>>
  BY LifecycleAssumption DEF Signal, TypeOK, Phases
<1>2. CASE Raise /\ phase \in Startup \cup Looping
  BY <1>1, <1>2, RaiseKeeps
<1>3. CASE Raise /\ phase \in Closing
  <2>0. phase' = "exited" /\ tries' = 0 /\ phase \notin Startup \cup Looping
    BY <1>1, <1>3, RaiseGoes
  <2>1. TypeOK'
    BY <1>1, <1>3, <2>0, FirstTry DEF TypeOK
  <2>2. GroupInv' /\ LeavesGroup'
    BY <1>1, <1>3, <2>0 DEF TypeOK, GroupInv, LeavesGroup
  <2>3. RecordInv' /\ NothingSkipped'
    BY <1>1, <1>3, <2>0 DEF TypeOK, RecordInv, NothingSkipped
  <2>4. ClosingInv' /\ RunCloses'
    BY <1>1, <1>3, <2>0 DEF TypeOK, RecordInv, ClosingInv, RunCloses
  <2> QED BY <2>1, <2>2, <2>3, <2>4
<1>4. CASE phase \in {"drop", "handle"} /\ phase' \in {"reconnect", "handle"}
           /\ tries' \in 0 .. MaxTries - 1
  <2>1. TypeOK'
    BY <1>1, <1>4, FirstTry DEF TypeOK
  <2>2. GroupInv' /\ LeavesGroup'
    BY <1>1, <1>4 DEF TypeOK, GroupInv, LeavesGroup
  <2>3. RecordInv' /\ NothingSkipped'
    BY <1>1, <1>4 DEF TypeOK, RecordInv, NothingSkipped
  <2>4. ClosingInv' /\ RunCloses'
    BY <1>1, <1>4 DEF TypeOK, RecordInv, ClosingInv, RunCloses
  <2> QED BY <2>1, <2>2, <2>3, <2>4
<1> QED BY <1>1, <1>2, <1>3, <1>4, InterruptGoes DEF Signal, Phases

\* The inductive invariant: who is in the group, which records are finished,
\* and what is still open, at every phase and after any signals.
THEOREM LifecycleInvCorrect == Spec => []LifecycleInv
<1>1. LifecycleInv /\ [Next]_vars => LifecycleInv'
  <2> SUFFICES ASSUME LifecycleInv, [Next]_vars
               PROVE  LifecycleInv'
    OBVIOUS
  <2>1. CASE UNCHANGED vars
    BY <2>1
       DEF vars, records, LifecycleInv, TypeOK, GroupInv, RecordInv, ClosingInv, LeavesGroup,
           NothingSkipped, RunCloses
  <2> QED
    BY <2>1, StartsUpKeeps, LoopsKeeps, CloseKeeps, SignalKeeps
       DEF Next, Proceed, StartsUp, Loops
<1> QED BY <1>1, LifecycleInit, PTL DEF Spec

\* A process that was in the group leaves it, for any number of signals at any
\* points of its life but the close of its consumer (worker.py: "leave the
\* group cleanly").
THEOREM LeavesGroupCorrect == Spec => []LeavesGroup
<1>1. LifecycleInv => LeavesGroup
  BY DEF LifecycleInv
<1> QED BY <1>1, LifecycleInvCorrect, PTL

\* No offset gets past a record whose outcome is not durable, for any signals,
\* reconnections and exceptions (auto-commit is off in make_consumer).
THEOREM NothingSkippedCorrect == Spec => []NothingSkipped
<1>1. LifecycleInv => NothingSkipped
  BY DEF LifecycleInv
<1> QED BY <1>1, LifecycleInvCorrect, PTL

\* An uninterrupted finally block leaves nothing open but a connection that
\* a handler had opened and run was not given (run of worker.py and retrier.py).
THEOREM RunClosesCorrect == Spec => []RunCloses
<1>1. LifecycleInv => RunCloses
  BY DEF LifecycleInv
<1> QED BY <1>1, LifecycleInvCorrect, PTL
===========================================================================
