----------------------------- MODULE EditsApi -----------------------------
(***************************************************************************)
(* service/app/api.py over the edits table: GET /edits, a keyset page in   *)
(* the order (processed_at DESC, id DESC), and GET /stats, the counts by   *)
(* label and status; with the pipeline's writes underneath, which stamp    *)
(* processed_at and so move a row within that order.                       *)
(*                                                                         *)
(* Edits are identified with their ids, numbers for their order; a verdict *)
(* is its label.  A cursor is the side of a place to read, and the place,  *)
(* a key of the order or <<>>; NoCursor is the query without one.          *)
(***************************************************************************)
EXTENDS EditsTable, Integers, FiniteSets

CONSTANTS
    Stored,      \* edits with a row at the start
    PageSize,    \* the query parameter size
    Skew,        \* how far a statement's now() may lag behind a later one's
    MaxWrites,   \* bound on the writes
    Any          \* no label, or no status, asked for

ASSUME EditsApiAssumption ==
    /\ Edits \subseteq Nat /\ IsFiniteSet(Edits)
    /\ Stored \subseteq Edits
    /\ PageSize \in Nat \ {0} /\ Skew \in Nat /\ MaxWrites \in Nat
    /\ Any \notin Verdicts \cup {NoVerdict} \cup RowStatus

VARIABLES
    rows,    \* the edits table
    at,      \* processed_at of each row
    now,     \* the latest processed_at
    writes   \* how often a row has changed

table == <<rows, at, now, writes>>

---------------------------------------------------------------------------
(***************************************************************************)
(* The writes of service/app/db.py, seen from here.                        *)
(***************************************************************************)

TableInit ==
    /\ rows \in [Edits -> {AbsentRow, FailedRow} \cup
                          {ClassifiedRow(v) : v \in Verdicts}]
    /\ \A e \in Edits : rows[e] # AbsentRow <=> e \in Stored
    /\ at \in [Edits -> {0, 1}]
    /\ \A e \in Edits \ Stored : at[e] = 0
    /\ now = 1 /\ writes = 0

\* e's row is written and stamped.  Statements of several processes need not
\* become visible in the order of their now().
Stamp(e) ==
    /\ writes < MaxWrites
    /\ writes' = writes + 1
    /\ \E t \in now - Skew .. now + 1 :
        /\ t \in Nat
        /\ at' = [at EXCEPT ![e] = t]
        /\ now' = IF t > now THEN t ELSE now

\* UPSERT_STMT, of an edit classified for the first time or again.
WriteSuccess(e, v) == Stamp(e) /\ rows' = UpsertEdit(rows, e, v)

\* FAILED_UPSERT_STMT, of an edit its WHERE clause lets through; otherwise the
\* row keeps its processed_at too.
WriteFailure(e) ==
    /\ UpsertFailedEdit(rows, e)[e] = FailedRow
    /\ Stamp(e)
    /\ rows' = UpsertFailedEdit(rows, e)

Write(e) == WriteFailure(e) \/ \E v \in Verdicts : WriteSuccess(e, v)

---------------------------------------------------------------------------
(***************************************************************************)
(* GET /edits.                                                             *)
(***************************************************************************)

Filters == [label : Verdicts \cup {Any}, status : {"classified", "failed", Any}]

Key(e) == <<at[e], e>>

\* The order of the pages: later processed_at first, then larger id.
Older(k, l) == k[1] < l[1] \/ (k[1] = l[1] /\ k[2] < l[2])

\* The rows a query selects.
Selected(f) ==
    {e \in Edits : /\ rows[e].status # "absent"
                   /\ f.label \in {Any, rows[e].verdict}
                   /\ f.status \in {Any, rows[e].status}}

Cursor(backwards, place) == [backwards |-> backwards, place |-> place]
NoCursor == Cursor(FALSE, <<>>)

\* Key k lies on the cursor's side of its place.
Beyond(c, k) ==
    \/ c.place = <<>>
    \/ ~c.backwards /\ Older(k, c.place)
    \/ c.backwards /\ Older(c.place, k)

\* k comes before l when read away from the cursor's place.
Nearer(c, k, l) == IF c.backwards THEN Older(k, l) ELSE Older(l, k)

\* The key among the items that no other one is older (newer) than.
OldestKey(items) ==
    Key(CHOOSE e \in items : \A d \in items : ~Older(Key(d), Key(e)))
NewestKey(items) ==
    Key(CHOOSE e \in items : \A d \in items : ~Older(Key(e), Key(d)))

Candidates(f, c) == {e \in Selected(f) : Beyond(c, Key(e))}

\* (Bug variant: the page is cut first and filtered then.)
ItemsFilteredLate(f, c) ==
    {e \in Candidates(f, c) :
        Cardinality({d \in Candidates([label |-> Any, status |-> Any], c) :
                        Nearer(c, Key(d), Key(e))}) < PageSize}

\* The PageSize candidates nearest to the place.
Items(f, c) ==
    {e \in Candidates(f, c) :
        Cardinality({d \in Candidates(f, c) : Nearer(c, Key(d), Key(e))})
            < PageSize}

\* (External: sqlakeyset.)  One row more than the page holds tells whether it
\* goes on in the direction read; the other way it does if there was a place
\* to start from.
HasNext(f, c) ==
    IF c.backwards THEN c.place # <<>> ELSE Items(f, c) # Candidates(f, c)
HasPrevious(f, c) ==
    IF c.backwards THEN Items(f, c) # Candidates(f, c) ELSE c.place # <<>>

\* What the page's cursors say; a cursor of an empty page has no place, and
\* None is NoCursor.  A cursor does not carry the filters of its page.
NextPage(f, c) ==
    IF ~HasNext(f, c) \/ Items(f, c) = {} THEN NoCursor
    ELSE Cursor(FALSE, OldestKey(Items(f, c)))
PreviousPage(f, c) ==
    IF ~HasPrevious(f, c) THEN NoCursor
    ELSE Cursor(TRUE, IF Items(f, c) = {} THEN <<>> ELSE NewestKey(Items(f, c)))

---------------------------------------------------------------------------
(***************************************************************************)
(* GET /stats.                                                             *)
(***************************************************************************)

\* summarize_stats; a count of zero is a key left out.
Stats ==
    [total |-> Cardinality(Selected([label |-> Any, status |-> Any])),
     by_label |-> [v \in Verdicts |->
                    Cardinality(Selected([label |-> v, status |-> Any]))],
     by_status |-> [s \in {"classified", "failed"} |->
                    Cardinality(Selected([label |-> Any, status |-> s]))]]
===========================================================================
