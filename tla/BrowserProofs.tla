--------------------------- MODULE BrowserProofs ---------------------------
(***************************************************************************)
(* Proofs about Browser: the page shown is the one last asked for, polls   *)
(* do not move it, and on the first page it is as new as the last change   *)
(* noticed, for any edits, page size, writes, keys and failures.           *)
(***************************************************************************)
EXTENDS Browser, TLAPS

\* A load in flight asks for what the browser is set to, a poll's for the
\* first page; starting one whenever that changes is what keeps it so.
InFlight ==
    load.phase # "idle" =>
        /\ load.filters = filters /\ load.cursor = cursor
        /\ load.by = "poll" => cursor = NoCursor

BrowserInv == InFlight /\ LatestWins

\* Times, and where the page being brought is newer than what was noticed.
Times ==
    /\ writes \in Nat /\ noticed \in Nat /\ noticed <= writes
    /\ poll.phase = "served" => poll.asOf \in Nat /\ poll.asOf <= writes

Fresh ==
    cursor = NoCursor /\ load.phase = "served" => load.asOf >= noticed

FirstPageInv == Times /\ Fresh /\ FirstPageCurrent

\* The steps of the user, each of which asks for a page.
Asks == GoNext \/ GoPrevious \/ Reset \/ Refresh

LEMMA AskStarts ==
    ASSUME Asks
    PROVE  /\ load' = [phase |-> "sent", by |-> "user",
                       filters |-> filters, cursor |-> cursor']
           /\ UNCHANGED <<table, filters, page, modal, poll, history>>
  BY DEF Asks, GoNext, GoPrevious, Reset, Refresh, Ask, LoadPage

LEMMA BrowserInit == Init => BrowserInv
  BY DEF Init, BrowserInv, InFlight, LatestWins

LEMMA BrowserStep == BrowserInv /\ [Next]_vars => BrowserInv'
<1> SUFFICES ASSUME BrowserInv, [Next]_vars PROVE BrowserInv'
  OBVIOUS
<1> USE DEF BrowserInv, InFlight, LatestWins, view, requests, bounds, history
<1>1. CASE ServeLoad
  BY <1>1 DEF ServeLoad
<1>2. CASE DeliverLoad
  BY <1>2 DEF DeliverLoad, Idle
<1>3. CASE LoadFails
  BY <1>3 DEF LoadFails, Idle
<1>4. CASE PollTick \/ ServePoll \/ PollFails
  BY <1>4 DEF PollTick, ServePoll, PollFails
<1>5. CASE DeliverPoll
  BY <1>5 DEF DeliverPoll, Notify, LoadPage
<1>6. CASE Asks
  BY <1>6, AskStarts
<1>7. CASE \E f \in Filters : SelectFilter(f)
  BY <1>7 DEF SelectFilter, LoadPage
<1>8. CASE OpenRow \/ CloseRow
  BY <1>8 DEF OpenRow, CloseRow
<1>9. CASE \E e \in Edits : WriteRow(e)
  BY <1>9 DEF WriteRow
<1>10. CASE UNCHANGED vars
  BY <1>10 DEF vars
<1> QED
  BY <1>1, <1>2, <1>3, <1>4, <1>5, <1>6, <1>7, <1>8, <1>9, <1>10
  DEF Next, Asks

LEMMA BrowserInvCorrect == Spec => []BrowserInv
  BY BrowserInit, BrowserStep, PTL DEF Spec

\* The last choice wins: once no load is in flight, the page shown answers
\* the filters and the cursor the browser is set to (LatestWins; load_page as
\* an exclusive worker whose mutations all come after its await).
THEOREM LatestWinsCorrect == Spec => []LatestWins
<1>1. BrowserInv => LatestWins
  BY DEF BrowserInv
<1> QED
  BY <1>1, BrowserInvCorrect, PTL

\* Only the first page is ever loaded on a poll's account, so polls never
\* change the page of a user who has gone on (poll_stats).
THEOREM PollNeverJumpsCorrect == Spec => PollNeverJumps
<1>1. BrowserInv /\ [Next]_vars =>
        [shown' # shown /\ load.by = "poll" => cursor = NoCursor]_vars
  <2> SUFFICES ASSUME BrowserInv, Next, shown' # shown, load.by = "poll"
               PROVE  cursor = NoCursor
    OBVIOUS
  <2>1. DeliverLoad
    <3> USE DEF view, requests, bounds, history
    <3>1. CASE ServeLoad \/ LoadFails \/ PollTick \/ ServePoll \/ PollFails
      BY <3>1 DEF ServeLoad, LoadFails, PollTick, ServePoll, PollFails
    <3>2. CASE DeliverPoll \/ OpenRow \/ CloseRow
      BY <3>2 DEF DeliverPoll, OpenRow, CloseRow
    <3>3. CASE Asks
      BY <3>3, AskStarts
    <3>4. CASE \E f \in Filters : SelectFilter(f)
      BY <3>4 DEF SelectFilter
    <3>5. CASE \E e \in Edits : WriteRow(e)
      BY <3>5 DEF WriteRow
    <3> QED
      BY <3>1, <3>2, <3>3, <3>4, <3>5 DEF Next, Asks
  <2> QED
    BY <2>1 DEF DeliverLoad, BrowserInv, InFlight
<1> QED
  BY <1>1, BrowserInvCorrect, PTL DEF Spec, PollNeverJumps

---------------------------------------------------------------------------

LEMMA FirstPageInit == Init => FirstPageInv
  BY DEF Init, TableInit, FirstPageInv, Times, Fresh, FirstPageCurrent, Idle

LEMMA FirstPageStep == FirstPageInv /\ [Next]_vars => FirstPageInv'
<1> SUFFICES ASSUME FirstPageInv, [Next]_vars PROVE FirstPageInv'
  OBVIOUS
<1> USE DEF FirstPageInv, Times, Fresh, FirstPageCurrent,
            table, view, requests, bounds, history
<1>1. CASE ServeLoad
  BY <1>1 DEF ServeLoad
<1>2. CASE DeliverLoad
  BY <1>2 DEF DeliverLoad, Idle
<1>3. CASE LoadFails
  BY <1>3 DEF LoadFails, Idle
<1>4. CASE PollTick \/ ServePoll \/ PollFails
  BY <1>4 DEF PollTick, ServePoll, PollFails, Idle
<1>5. CASE DeliverPoll
  BY <1>5 DEF DeliverPoll, Notify, LoadPage, Idle
<1>6. CASE Asks
  BY <1>6, AskStarts
<1>7. CASE \E f \in Filters : SelectFilter(f)
  BY <1>7 DEF SelectFilter, LoadPage
<1>8. CASE OpenRow \/ CloseRow
  BY <1>8 DEF OpenRow, CloseRow
<1>9. CASE \E e \in Edits : WriteRow(e)
  <2>1. writes' = writes + 1
    BY <1>9 DEF WriteRow, Write, WriteFailure, WriteSuccess, Stamp
  <2> QED
    BY <1>9, <2>1 DEF WriteRow
<1>10. CASE UNCHANGED vars
  BY <1>10 DEF vars
<1> QED
  BY <1>1, <1>2, <1>3, <1>4, <1>5, <1>6, <1>7, <1>8, <1>9, <1>10
  DEF Next, Asks

\* On the first page the change last noticed is on the page shown, unless it
\* was noticed behind the screen of a row (FirstPageCurrent; poll_stats cancels
\* a load that may be older than its stats).
THEOREM FirstPageCorrect == Spec => []FirstPageCurrent
<1>1. FirstPageInv => FirstPageCurrent
  BY DEF FirstPageInv
<1> QED
  BY <1>1, FirstPageInit, FirstPageStep, PTL DEF Spec
===========================================================================
