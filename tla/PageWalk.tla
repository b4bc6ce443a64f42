----------------------------- MODULE PageWalk -----------------------------
(***************************************************************************)
(* A client reading GET /edits from the first page to the last, passing    *)
(* next_page back as the cursor until it is null (README.md; walk_pages in *)
(* tests/integration/test_api.py), while the pipeline goes on writing.     *)
(***************************************************************************)
EXTENDS EditsApi

VARIABLES
    filter,   \* the filters of the walk
    cursor,   \* the cursor of its next request
    done,     \* whether it has read its last page
    seen,     \* edits that were on a page
    again,    \* edits that were on two
    touched   \* edits whose row changed since the walk began

walk == <<filter, cursor, done, seen, again, touched>>
vars == <<table, walk>>

Init ==
    /\ TableInit
    /\ filter \in Filters
    /\ cursor = NoCursor /\ done = FALSE
    /\ seen = {} /\ again = {} /\ touched = {}

\* One request and its answer.
ReadPage ==
    /\ ~done
    /\ seen' = seen \cup Items(filter, cursor)
    /\ again' = again \cup (seen \cap Items(filter, cursor))
    /\ cursor' = NextPage(filter, cursor)
    /\ done' = ~HasNext(filter, cursor)
    /\ UNCHANGED <<table, filter, touched>>

WriteRow(e) ==
    /\ ~done
    /\ Write(e)
    /\ touched' = touched \cup {e}
    /\ UNCHANGED <<filter, cursor, done, seen, again>>

Next == ReadPage \/ \E e \in Edits : WriteRow(e)

Spec == Init /\ [][Next]_vars

\* The client keeps asking.
FairSpec == Spec /\ WF_vars(ReadPage)

---------------------------------------------------------------------------
(***************************************************************************)
(* What holds of it.                                                       *)
(***************************************************************************)

\* An edit nobody writes during the walk is on no two pages, and once the
\* walk is done it was on one page exactly if it matches the filters: rows
\* that move through the order around it, by ties and by late statements too,
\* neither repeat it nor push it through a gap.
WalkExact ==
    \A e \in Edits \ touched :
        /\ e \notin again
        /\ done => (e \in seen <=> e \in Selected(filter))

\* The walk ends although rows keep moving while it reads.
WalkEnds == <>done
===========================================================================
