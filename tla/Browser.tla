------------------------------ MODULE Browser ------------------------------
(***************************************************************************)
(* service/app/tui.py, the terminal browser, over the read API while the   *)
(* pipeline writes: its keys and selects, the page load and the stats poll *)
(* as the two requests they are, each of which can be overtaken by the     *)
(* user, by the other and by the writes while it is in flight.             *)
(*                                                                         *)
(* A load and a poll are workers of an exclusive group (textual): starting *)
(* one cancels the one in flight, which so far has changed nothing.  Keys  *)
(* and failures are bounded by MaxKeys and MaxFailures.  Quitting is the   *)
(* end of a behavior, which every behavior of Spec allows.                 *)
(***************************************************************************)
EXTENDS EditsApi

CONSTANTS
    NoStats,     \* no stats seen yet
    Modals,      \* whether the user opens the screen of a row
    Overlap,     \* whether a poll is due while the last one is in flight
    MaxKeys,     \* bound on the user's keys and selections
    MaxFailures  \* bound on the requests that fail

ASSUME BrowserAssumption ==
    /\ Modals \in BOOLEAN /\ Overlap \in BOOLEAN
    /\ MaxKeys \in Nat /\ MaxFailures \in Nat

VARIABLES
    cursor, filters,   \* what the next load asks for
    page,              \* what the last load brought: items and cursors
    load,              \* the page load in flight
    poll,              \* the stats poll in flight
    lastStats,         \* the stats of the last poll
    newEdits,          \* new_edits_available: the note on the status line
    modal,             \* whether the screen of a row is open
    keys, failures,
    shown,             \* (history) what page answered, and its time in writes
    outcome,           \* (history) how the last load ended
    noticed,           \* (history) time of the last stats found changed while
                       \* no row's screen was open
    changedAt          \* (history) time the stats of the table last changed

view     == <<cursor, filters, page, newEdits, modal>>
requests == <<load, poll, lastStats>>
bounds   == <<keys, failures>>
history  == <<shown, outcome, noticed, changedAt>>
vars     == <<table, view, requests, bounds, history>>

---------------------------------------------------------------------------
(***************************************************************************)
(* Requests.                                                               *)
(***************************************************************************)

Idle == [phase |-> "idle"]

\* (Bug variant: a load in flight is left to finish.)
LoadUnlessLoading(by, f, c) ==
    load' = IF load.phase # "idle" THEN load
            ELSE [phase |-> "sent", by |-> by, filters |-> f, cursor |-> c]

\* load_page, up to its await: by the user, or by a poll.
LoadPage(by, f, c) ==
    load' = [phase |-> "sent", by |-> by, filters |-> f, cursor |-> c]

Page(f, c) ==
    [items |-> Items(f, c), next |-> NextPage(f, c), previous |-> PreviousPage(f, c)]

\* get_edits answers ...
ServeLoad ==
    /\ load.phase = "sent"
    /\ load' = [phase |-> "served", by |-> load.by, filters |-> load.filters,
                cursor |-> load.cursor, asOf |-> writes,
                page |-> Page(load.filters, load.cursor)]
    /\ UNCHANGED <<table, view, poll, lastStats, bounds, history>>

\* ... and load_page goes on after its await.
DeliverLoad ==
    /\ load.phase = "served"
    /\ page' = load.page
    /\ newEdits' = FALSE
    /\ load' = Idle
    /\ shown' = [filters |-> load.filters, cursor |-> load.cursor, asOf |-> load.asOf]
    /\ outcome' = "ok"
    /\ UNCHANGED <<table, cursor, filters, modal, poll, lastStats, bounds,
                   noticed, changedAt>>

Fail == failures < MaxFailures /\ failures' = failures + 1

\* An httpx.HTTPError: the status line says so, and nothing else changes.
LoadFails ==
    /\ load.phase # "idle"
    /\ Fail
    /\ load' = Idle
    /\ outcome' = "failed"
    /\ UNCHANGED <<table, view, poll, lastStats, keys, shown, noticed, changedAt>>

\* The interval timer; the poll it starts cancels the last one.
PollTick ==
    /\ poll.phase = "idle" \/ Overlap
    /\ poll' = [phase |-> "sent"]
    /\ UNCHANGED <<table, view, load, lastStats, bounds, history>>

\* get_stats answers.
ServePoll ==
    /\ poll.phase = "sent"
    /\ poll' = [phase |-> "served", stats |-> Stats, asOf |-> writes]
    /\ UNCHANGED <<table, view, load, lastStats, bounds, history>>

PollFails ==
    /\ poll.phase # "idle"
    /\ Fail
    /\ poll' = Idle
    /\ UNCHANGED <<table, view, load, lastStats, keys, history>>

\* (Bug variant: the page is loaded wherever the user is.)
NotifyAnywhere == LoadPage("poll", filters, cursor) /\ UNCHANGED newEdits

\* (Bug variant: a load in flight is taken to bring the change.)
NotifyUnlessLoading ==
    IF cursor = NoCursor /\ ~modal
    THEN LoadUnlessLoading("poll", filters, cursor) /\ UNCHANGED newEdits
    ELSE newEdits' = TRUE /\ UNCHANGED load

\* (Bug variant: away from the first page a change goes unnoted.)
NotifyOnFirstPage ==
    IF cursor = NoCursor /\ ~modal
    THEN LoadPage("poll", filters, cursor) /\ UNCHANGED newEdits
    ELSE UNCHANGED <<load, newEdits>>

\* The stats have changed: load the first page again, or note it.
Notify ==
    \/ /\ cursor = NoCursor /\ ~modal
       /\ LoadPage("poll", filters, cursor)
       /\ UNCHANGED newEdits
    \/ /\ ~(cursor = NoCursor /\ ~modal)
       /\ newEdits' = TRUE
       /\ UNCHANGED load

\* poll_stats goes on after its await.  Its first stats are the baseline.
DeliverPoll ==
    /\ poll.phase = "served"
    /\ poll' = Idle
    /\ lastStats' = poll.stats
    /\ \/ /\ lastStats \in {NoStats, poll.stats}
          /\ UNCHANGED <<load, newEdits, noticed>>
       \/ /\ lastStats \notin {NoStats, poll.stats}
          /\ noticed' = IF modal THEN noticed ELSE poll.asOf
          /\ Notify
    /\ UNCHANGED <<table, cursor, filters, page, modal, bounds, shown, outcome,
                   changedAt>>

---------------------------------------------------------------------------
(***************************************************************************)
(* The user.  While the screen of a row is open it takes all keys.         *)
(***************************************************************************)

Press == ~modal /\ keys < MaxKeys /\ keys' = keys + 1

\* A key that asks for the page at c.
Ask(c) ==
    /\ Press
    /\ cursor' = c
    /\ LoadPage("user", filters, c)
    /\ UNCHANGED <<table, filters, page, newEdits, modal, poll, lastStats,
                   failures, history>>

\* action_next_page, action_prev_page, action_reset and action_refresh.
GoNext     == page.next # NoCursor /\ Ask(page.next)
GoPrevious == page.previous # NoCursor /\ Ask(page.previous)
Reset      == Ask(NoCursor)
Refresh    == Ask(cursor)

\* on_select_changed, of one of the selects.
SelectFilter(f) ==
    /\ Press
    /\ (f.label = filters.label) # (f.status = filters.status)
    /\ filters' = f
    /\ cursor' = NoCursor
    /\ LoadPage("user", f, NoCursor)
    /\ UNCHANGED <<table, page, newEdits, modal, poll, lastStats, failures, history>>

\* on_data_table_row_selected, and the screen's Close.
OpenRow ==
    /\ Modals /\ Press
    /\ page.items # {}
    /\ modal' = TRUE
    /\ UNCHANGED <<table, cursor, filters, page, newEdits, requests, failures, history>>

CloseRow ==
    /\ modal
    /\ modal' = FALSE
    /\ UNCHANGED <<table, cursor, filters, page, newEdits, requests, bounds, history>>

\* A write of the pipeline.
WriteRow(e) ==
    /\ Write(e)
    /\ changedAt' = IF Stats' = Stats THEN changedAt ELSE writes'
    /\ UNCHANGED <<view, requests, bounds, shown, outcome, noticed>>

---------------------------------------------------------------------------

NoFilters == [label |-> Any, status |-> Any]

\* on_mount loads the first page.
Init ==
    /\ TableInit
    /\ cursor = NoCursor /\ filters = NoFilters
    /\ page = [items |-> {}, next |-> NoCursor, previous |-> NoCursor]
    /\ load = [phase |-> "sent", by |-> "user", filters |-> NoFilters, cursor |-> NoCursor]
    /\ poll = Idle /\ lastStats = NoStats
    /\ newEdits = FALSE /\ modal = FALSE
    /\ keys = 0 /\ failures = 0
    /\ shown = [filters |-> NoFilters, cursor |-> NoCursor, asOf |-> 0]
    /\ outcome = "none" /\ noticed = 0 /\ changedAt = 0

Next ==
    \/ ServeLoad \/ DeliverLoad \/ LoadFails
    \/ PollTick \/ ServePoll \/ DeliverPoll \/ PollFails
    \/ GoNext \/ GoPrevious \/ Reset \/ Refresh
    \/ \E f \in Filters : SelectFilter(f)
    \/ OpenRow \/ CloseRow
    \/ \E e \in Edits : WriteRow(e)

Spec == Init /\ [][Next]_vars

\* The timer goes off, the API answers, and the event loop goes on with what
\* it has awaited.
Fairness ==
    /\ WF_vars(PollTick) /\ WF_vars(ServePoll) /\ WF_vars(DeliverPoll)
    /\ WF_vars(ServeLoad) /\ WF_vars(DeliverLoad)

FairSpec == Spec /\ Fairness

---------------------------------------------------------------------------
(***************************************************************************)
(* What holds of it.                                                       *)
(***************************************************************************)

\* Whatever was pressed, selected or polled while pages were being loaded:
\* once none is, the page on the screen answers the filters and the cursor of
\* the user's last choice, unless the last load failed.
LatestWins ==
    load.phase = "idle" /\ outcome # "failed" =>
        shown.filters = filters /\ shown.cursor = cursor

\* On the first page, a change the browser has noticed is on the page it
\* shows, unless it noticed it behind the screen of a row: a page read before
\* the change does not overtake the one read after it.
FirstPageCurrent ==
    cursor = NoCursor /\ load.phase = "idle" /\ outcome # "failed" =>
        shown.asOf >= noticed

\* A poll never changes the page of a user who has gone on from the first.
PollNeverJumps ==
    [][shown' # shown /\ load.by = "poll" => cursor = NoCursor]_vars

\* A change of the stats that the last poll has not seen comes to the screen,
\* on the page or as the note, unless loading it fails.
Appears(n) == outcome = "failed" \/ newEdits \/ shown.asOf >= n

NewEditsAppear ==
    \A n \in 1 .. MaxWrites :
        changedAt = n /\ lastStats \notin {NoStats, Stats} ~> Appears(n)

===========================================================================
