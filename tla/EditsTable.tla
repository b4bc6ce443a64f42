---------------------------- MODULE EditsTable ----------------------------
(***************************************************************************)
(* The three SQL statements of service/app/db.py on the edits table, each  *)
(* atomic (autocommit, one row).  A row is its status and, when it is      *)
(* classified, the verdict the model gave (label, confidence, reasoning).  *)
(***************************************************************************)

CONSTANTS
    Edits,               \* edit objects, identified with the ids they carry
    UnfitEdits,          \* edits with a column the table rejects
    Verdicts,            \* what the model can answer
    UnstorableVerdicts,  \* answers the table rejects (a NUL in the reasoning)
    NoVerdict            \* the NULLs of a row that is not classified

ASSUME EditsTableAssumption ==
    /\ UnfitEdits \subseteq Edits
    /\ UnstorableVerdicts \subseteq Verdicts
    /\ NoVerdict \notin Verdicts

RowStatus == {"absent", "failed", "classified"}
Row       == [status : RowStatus, verdict : Verdicts \cup {NoVerdict}]
Table     == [Edits -> Row]

AbsentRow     == [status |-> "absent", verdict |-> NoVerdict]
FailedRow     == [status |-> "failed", verdict |-> NoVerdict]
ClassifiedRow(v) == [status |-> "classified", verdict |-> v]

\* Whether Postgres accepts the values bound to each write; the status query
\* binds the id alone, which every edit's row has room for.
FailedRowFits(e)  == e \notin UnfitEdits
VerdictFits(e, v) == e \notin UnfitEdits /\ v \notin UnstorableVerdicts

FetchEditStatus(table, e) == table[e].status

\* UPSERT_STMT: a success overwrites whatever the row held.
UpsertEdit(table, e, v) == [table EXCEPT ![e] = ClassifiedRow(v)]

\* (Bug variant: the failed-row write without its WHERE clause.)
UnguardedFailedUpsert(table, e) == [table EXCEPT ![e] = FailedRow]

\* FAILED_UPSERT_STMT: the conflict update applies only to a row whose status
\* IS DISTINCT FROM 'classified'.
UpsertFailedEdit(table, e) ==
    IF table[e].status = "classified" THEN table
                                      ELSE [table EXCEPT ![e] = FailedRow]
==========================================================================
