-------------------------- MODULE PageWalkProofs --------------------------
(***************************************************************************)
(* Proof that a walk over the pages is exact, for any edits, page size,    *)
(* filters, lag between statements and number of writes.                   *)
(***************************************************************************)
EXTENDS PageWalk, FiniteSetTheorems, WellFoundedInduction, TLAPS

\* A set of numbers has a least one.
LEMMA LeastNumber ==
    ASSUME NEW T \in SUBSET Nat, T # {}
    PROVE  \E x \in T : \A y \in T : x <= y
<1> DEFINE R == OpToRel(<, Nat)
<1>1. PICK x \in T : \A y \in T : ~(<<y, x>> \in R)
  <2> HIDE DEF R
  <2>1. IsWellFoundedOn(R, Nat)
    BY NatLessThanWellFounded DEF R
  <2> QED
    BY <2>1, WFMin
<1>2. ASSUME NEW y \in T PROVE x <= y
  <2>1. <<y, x>> \in Nat \X Nat /\ ~(<<y, x>> \in R)
    BY <1>1
  <2>2. ~(y < x)
    BY <2>1 DEF OpToRel
  <2> QED
    BY <2>2
<1> QED
  BY <1>2

---------------------------------------------------------------------------
(***************************************************************************)
(* The order, and the ends of a set of edits in it.                        *)
(***************************************************************************)

Keys == Nat \X Nat

LEMMA OlderTrans ==
    ASSUME NEW j \in Keys, NEW k \in Keys, NEW l \in Keys,
           Older(j, k), Older(k, l)
    PROVE  Older(j, l)
  BY DEF Older, Keys

LEMMA OlderTotal ==
    ASSUME NEW k \in Keys, NEW l \in Keys
    PROVE  /\ Older(k, l) \/ Older(l, k) \/ k = l
           /\ ~(Older(k, l) /\ Older(l, k)) /\ ~Older(k, k)
  BY DEF Older, Keys

AtType == at \in [Edits -> Nat]

LEMMA KeyType ==
    ASSUME AtType, NEW e \in Edits
    PROVE  Key(e) \in Keys /\ Key(e)[1] = at[e] /\ Key(e)[2] = e
  BY EditsApiAssumption DEF AtType, Key, Keys

\* Some edit has the oldest key.
LEMMA Oldest ==
    ASSUME AtType, NEW T \in SUBSET Edits, T # {}
    PROVE  \E e \in T : \A d \in T : ~Older(Key(d), Key(e))
<1> DEFINE A == {at[e] : e \in T}
<1>1. PICK t \in A : \A s \in A : t <= s
  <2>1. A \in SUBSET Nat /\ A # {}
    BY DEF AtType
  <2> QED
    BY <2>1, LeastNumber
<1> DEFINE First == {e \in T : at[e] = t}
<1>2. PICK e \in First : \A d \in First : e <= d
  <2>1. First \in SUBSET Nat /\ First # {}
    BY <1>1, EditsApiAssumption
  <2> QED
    BY <2>1, LeastNumber
<1>3. ASSUME NEW d \in T PROVE ~Older(Key(d), Key(e))
  <2>1. e \in T /\ at[e] = t /\ at[d] \in A
    BY <1>2
  <2>2. at[e] \in Nat /\ at[d] \in Nat /\ d \in Nat /\ e \in Nat
    BY <2>1, EditsApiAssumption DEF AtType
  <2>3. t <= at[d] /\ (at[d] = t => e <= d)
    BY <1>1, <1>2, <2>1
  <2> QED
    BY <2>1, <2>2, <2>3 DEF Older, Key
<1> QED
  BY <1>2, <1>3

LEMMA OldestKeyOf ==
    ASSUME AtType, NEW T \in SUBSET Edits, T # {}
    PROVE  \E o \in T : /\ OldestKey(T) = Key(o)
                        /\ \A d \in T : ~Older(Key(d), Key(o))
  BY Oldest DEF OldestKey

---------------------------------------------------------------------------
(***************************************************************************)
(* One page.                                                               *)
(***************************************************************************)

\* A cursor of a walk: no place, or the key of an edit, read away from it.
Forward(c) == c.backwards = FALSE /\ (c.place = <<>> \/ c.place \in Keys)

Ahead(f, c, e) == {d \in Candidates(f, c) : Nearer(c, Key(d), Key(e))}

LEMMA AheadFinite ==
    ASSUME NEW f, NEW c, NEW e
    PROVE  /\ IsFiniteSet(Ahead(f, c, e)) /\ Cardinality(Ahead(f, c, e)) \in Nat
           /\ Ahead(f, c, e) \subseteq Edits
<1>1. Ahead(f, c, e) \subseteq Edits
  BY DEF Ahead, Candidates, Selected
<1> QED
  BY <1>1, EditsApiAssumption, FS_Subset, FS_CardinalityType

LEMMA ItemsAre ==
    ASSUME NEW f, NEW c
    PROVE  /\ Items(f, c) = {e \in Candidates(f, c) :
                                Cardinality(Ahead(f, c, e)) < PageSize}
           /\ Items(f, c) \subseteq Candidates(f, c)
           /\ Candidates(f, c) \subseteq Edits
  BY DEF Items, Ahead, Candidates, Selected

\* A candidate nearer to the place than an item is an item: what is ahead of
\* it is ahead of the other one too.
LEMMA NearerOnPage ==
    ASSUME AtType, NEW f, NEW c, Forward(c),
           NEW o \in Items(f, c), NEW e \in Candidates(f, c),
           Older(Key(o), Key(e))
    PROVE  e \in Items(f, c)
<1>1. o \in Edits /\ e \in Edits
  BY ItemsAre
<1>2. Ahead(f, c, e) \subseteq Ahead(f, c, o)
  <2> SUFFICES ASSUME NEW d \in Ahead(f, c, e) PROVE d \in Ahead(f, c, o)
    OBVIOUS
  <2>1. d \in Candidates(f, c) /\ d \in Edits /\ Older(Key(e), Key(d))
    BY AheadFinite DEF Ahead, Nearer, Forward
  <2>2. Older(Key(o), Key(d))
    BY <1>1, <2>1, KeyType, OlderTrans
  <2> QED
    BY <2>1, <2>2 DEF Ahead, Nearer, Forward
<1>3. Cardinality(Ahead(f, c, e)) <= Cardinality(Ahead(f, c, o))
  BY <1>2, AheadFinite, FS_Subset
<1>4. Cardinality(Ahead(f, c, o)) < PageSize
  BY ItemsAre
<1> QED
  BY <1>3, <1>4, AheadFinite, ItemsAre, EditsApiAssumption

\* With a candidate there is an item: the one with the fewest ahead has none.
LEMMA PageNotEmpty ==
    ASSUME AtType, NEW f, NEW c, Forward(c), Candidates(f, c) # {}
    PROVE  Items(f, c) # {}
<1> DEFINE Counts == {Cardinality(Ahead(f, c, e)) : e \in Candidates(f, c)}
<1>1. PICK n \in Counts : \A k \in Counts : n <= k
  <2>1. Counts \in SUBSET Nat /\ Counts # {}
    BY AheadFinite
  <2> QED
    BY <2>1, LeastNumber
<1>2. PICK e \in Candidates(f, c) : n = Cardinality(Ahead(f, c, e))
  BY <1>1
<1>3. Ahead(f, c, e) = {}
  <2> SUFFICES ASSUME NEW d \in Ahead(f, c, e) PROVE FALSE
    OBVIOUS
  <2>1. /\ d \in Candidates(f, c) /\ Older(Key(e), Key(d))
        /\ d \in Edits /\ e \in Edits
    BY ItemsAre DEF Ahead, Nearer, Forward
  <2>2. Ahead(f, c, d) \subseteq Ahead(f, c, e)
    <3> SUFFICES ASSUME NEW x \in Ahead(f, c, d) PROVE x \in Ahead(f, c, e)
      OBVIOUS
    <3>1. x \in Candidates(f, c) /\ x \in Edits /\ Older(Key(d), Key(x))
      BY AheadFinite DEF Ahead, Nearer, Forward
    <3>2. Older(Key(e), Key(x))
      BY <2>1, <3>1, KeyType, OlderTrans
    <3> QED
      BY <3>1, <3>2 DEF Ahead, Nearer, Forward
  <2>3. d \notin Ahead(f, c, d)
    BY <2>1, KeyType, OlderTotal DEF Ahead, Nearer, Forward
  <2>4. Cardinality(Ahead(f, c, d)) < Cardinality(Ahead(f, c, e))
    <3>1. Ahead(f, c, d) # Ahead(f, c, e)
      BY <2>3
    <3> QED
      BY <2>2, <3>1, AheadFinite, FS_Subset
  <2>5. n <= Cardinality(Ahead(f, c, d))
    BY <1>1, <2>1
  <2> QED
    BY <1>2, <2>4, <2>5, AheadFinite
<1>4. Cardinality(Ahead(f, c, e)) = 0
  BY <1>3, FS_EmptySet
<1> QED
  BY <1>2, <1>4, ItemsAre, EditsApiAssumption

---------------------------------------------------------------------------
(***************************************************************************)
(* The walk.                                                               *)
(***************************************************************************)

\* What the walk has passed: of the edits nobody has written, it has seen
\* those its filters select on the near side of its cursor's place.
Passed(e) == e \in Selected(filter) /\ ~Beyond(cursor, Key(e))

WalkInv ==
    /\ AtType
    /\ DOMAIN rows = Edits
    /\ Forward(cursor)
    /\ \A e \in Edits \ touched :
        /\ e \notin again
        /\ ~done => (e \in seen <=> Passed(e))
        /\ done => (e \in seen <=> e \in Selected(filter))

LEMMA WalkInit == Init => WalkInv
<1> SUFFICES ASSUME Init PROVE WalkInv
  OBVIOUS
<1>1. AtType /\ DOMAIN rows = Edits
  BY DEF Init, TableInit, AtType
<1>2. Forward(cursor) /\ cursor.place = <<>>
  BY DEF Init, Forward, NoCursor, Cursor
<1> QED
  BY <1>1, <1>2 DEF Init, WalkInv, Passed, Beyond

\* After a page that is not the last, the place has moved to its oldest item:
\* the walk has passed what it had passed, and the page.
LEMMA PassedNext ==
    ASSUME WalkInv, ~done, HasNext(filter, cursor),
           NEW e \in Edits
    PROVE  /\ Forward(NextPage(filter, cursor))
           /\ Passed(e) \/ e \in Items(filter, cursor) <=>
                /\ e \in Selected(filter)
                /\ ~Beyond(NextPage(filter, cursor), Key(e))
<1> DEFINE I == Items(filter, cursor)
           C == Candidates(filter, cursor)
<1>1. AtType /\ Forward(cursor)
  BY DEF WalkInv
<1>2. I # C /\ I \subseteq C /\ C \subseteq Edits
  BY <1>1, ItemsAre DEF HasNext, Forward
<1>3. I # {}
  BY <1>1, <1>2, PageNotEmpty
<1>4. PICK o \in I : /\ OldestKey(I) = Key(o)
                     /\ \A d \in I : ~Older(Key(d), Key(o))
  <2>1. I \in SUBSET Edits
    BY <1>2
  <2> QED
    BY <1>1, <1>3, <2>1, OldestKeyOf
<1>5. NextPage(filter, cursor) = Cursor(FALSE, Key(o))
  BY <1>3, <1>4 DEF NextPage
<1>6. o \in Edits /\ Key(o) \in Keys /\ Key(e) \in Keys /\ Key(o) # <<>>
  BY <1>1, <1>2, <1>4, KeyType DEF Key
<1>7. Forward(NextPage(filter, cursor))
  BY <1>5, <1>6 DEF Forward, Cursor
<1>8. Beyond(NextPage(filter, cursor), Key(e)) <=> Older(Key(e), Key(o))
  BY <1>5, <1>6 DEF Beyond, Cursor
<1>9. /\ e \in C <=> e \in Selected(filter) /\ Beyond(cursor, Key(e))
      /\ o \in C
  BY <1>2, <1>4 DEF Candidates
<1>10. ASSUME Passed(e) PROVE ~Older(Key(e), Key(o))
  <2>1. cursor.place \in Keys /\ Older(Key(o), cursor.place)
        /\ ~Older(Key(e), cursor.place)
    BY <1>1, <1>9, <1>10 DEF Passed, Candidates, Beyond, Forward
  <2> QED
    BY <1>6, <2>1, OlderTrans
<1>11. ASSUME e \in Selected(filter), ~Older(Key(e), Key(o)), ~Passed(e)
       PROVE  e \in I
  <2>1. e \in C
    BY <1>9, <1>11 DEF Passed
  <2>2. CASE Key(e) = Key(o)
    BY <1>1, <1>4, <1>6, <2>2, KeyType
  <2>3. CASE Older(Key(o), Key(e))
    BY <1>1, <1>4, <2>1, <2>3, NearerOnPage
  <2> QED
    BY <1>6, <1>11, <2>2, <2>3, OlderTotal
<1>12. e \in I => e \in Selected(filter) /\ ~Older(Key(e), Key(o))
  BY <1>2, <1>4, <1>9
<1>13. Passed(e) => e \in Selected(filter)
  BY DEF Passed
<1> QED
  BY <1>7, <1>8, <1>10, <1>11, <1>12, <1>13

LEMMA ReadPageKeeps == WalkInv /\ ReadPage => WalkInv'
<1> SUFFICES ASSUME WalkInv, ReadPage PROVE WalkInv'
  OBVIOUS
<1> DEFINE I == Items(filter, cursor)
           C == Candidates(filter, cursor)
<1>1. /\ ~done /\ seen' = seen \cup I /\ again' = again \cup (seen \cap I)
      /\ cursor' = NextPage(filter, cursor)
      /\ done' = ~HasNext(filter, cursor)
      /\ UNCHANGED <<rows, at, filter, touched>>
  BY DEF ReadPage, table
<1>2. AtType' /\ (DOMAIN rows = Edits)'
  BY <1>1 DEF WalkInv, AtType
<1>3. I \subseteq C /\ C = {e \in Selected(filter) : Beyond(cursor, Key(e))}
  BY ItemsAre DEF Candidates
<1>4. Selected(filter)' = Selected(filter) /\ \A e : Key(e)' = Key(e)
  BY <1>1 DEF Selected, Key
<1>5. ASSUME NEW e \in Edits \ touched PROVE e \notin again'
  BY <1>1, <1>3 DEF WalkInv, Passed
<1>6. CASE HasNext(filter, cursor)
  <2>1. Forward(cursor)' /\ ~done'
    <3>1. Forward(NextPage(filter, cursor))
      <4>1. Edits # {}
        BY <1>6, ItemsAre DEF WalkInv, HasNext, Forward
      <4> QED
        BY <1>1, <1>6, <4>1, PassedNext
    <3> QED
      BY <1>1, <1>6, <3>1 DEF Forward
  <2>2. ASSUME NEW e \in Edits \ touched PROVE e \in seen' <=> Passed(e)'
    <3>1. Passed(e)' <=> /\ e \in Selected(filter)
                         /\ ~Beyond(NextPage(filter, cursor), Key(e))
      BY <1>1, <1>4 DEF Passed, Beyond, Older
    <3> QED
      BY <1>1, <1>6, <3>1, PassedNext DEF WalkInv
  <2> QED
    BY <1>1, <1>2, <1>5, <2>1, <2>2 DEF WalkInv
<1>7. CASE ~HasNext(filter, cursor)
  <2>1. I = C /\ NextPage(filter, cursor) = NoCursor
    BY <1>7 DEF HasNext, NextPage, WalkInv, Forward
  <2>2. Forward(cursor)' /\ done'
    <3>1. cursor' = Cursor(FALSE, <<>>)
      BY <1>1, <2>1 DEF NoCursor
    <3>2. Forward(cursor)'
      BY <3>1 DEF Forward, Cursor
    <3>3. done'
      BY <1>1, <1>7
    <3> QED
      BY <3>2, <3>3
  <2>3. ASSUME NEW e \in Edits \ touched
        PROVE  e \in seen' <=> (e \in Selected(filter))'
    BY <1>1, <1>3, <1>4, <2>1 DEF WalkInv, Passed
  <2> QED
    BY <1>1, <1>2, <1>5, <2>2, <2>3 DEF WalkInv
<1> QED
  BY <1>6, <1>7

LEMMA WriteRowKeeps ==
    ASSUME WalkInv, NEW w \in Edits, WriteRow(w)
    PROVE  WalkInv'
<1>1. UNCHANGED <<filter, cursor, done, seen, again>>
      /\ touched' = touched \cup {w} /\ Write(w)
  BY DEF WriteRow
<1>2. PICK t \in Nat : at' = [at EXCEPT ![w] = t]
  BY <1>1 DEF Write, WriteSuccess, WriteFailure, Stamp
<1>3. AtType'
  BY <1>2 DEF WalkInv, AtType
<1>4. \/ rows' = rows
      \/ \E r : rows' = [rows EXCEPT ![w] = r]
  BY <1>1 DEF Write, WriteSuccess, WriteFailure, UpsertEdit, UpsertFailedEdit
<1>5. DOMAIN rows' = Edits
  BY <1>4 DEF WalkInv
<1>6. ASSUME NEW e \in Edits \ touched'
      PROVE  /\ e \in Edits \ touched
             /\ (e \in Selected(filter))' <=> e \in Selected(filter)
             /\ Key(e)' = Key(e)
             /\ Passed(e)' <=> Passed(e)
  <2>1. e # w /\ e \in Edits \ touched
    BY <1>1
  <2>2. rows'[e] = rows[e] /\ at'[e] = at[e]
    BY <1>2, <1>4, <2>1 DEF WalkInv, AtType
  <2>3. (e \in Selected(filter))' <=> e \in Selected(filter)
    BY <1>1, <2>1, <2>2 DEF Selected
  <2>4. Key(e)' = Key(e)
    BY <2>2 DEF Key
  <2> QED
    BY <1>1, <2>1, <2>3, <2>4 DEF Passed, Beyond, Older
<1>7. Forward(cursor)'
  BY <1>1 DEF WalkInv, Forward
<1> QED
  BY <1>1, <1>3, <1>5, <1>6, <1>7 DEF WalkInv

LEMMA WalkInvCorrect == Spec => []WalkInv
<1>1. WalkInv /\ [Next]_vars => WalkInv'
  <2> SUFFICES ASSUME WalkInv, [Next]_vars PROVE WalkInv'
    OBVIOUS
  <2>1. CASE ReadPage
    BY <2>1, ReadPageKeeps
  <2>2. CASE \E e \in Edits : WriteRow(e)
    BY <2>2, WriteRowKeeps
  <2>3. CASE UNCHANGED vars
    <3>1. UNCHANGED <<rows, at, filter, cursor, done, seen, again, touched>>
      BY <2>3 DEF vars, table, walk
    <3> QED
      BY <3>1 DEF WalkInv, AtType, Forward, Passed, Beyond, Older, Key, Selected
  <2> QED
    BY <2>1, <2>2, <2>3 DEF Next
<1> QED
  BY WalkInit, <1>1, PTL DEF Spec

\* A walk through the pages shows every edit that is not written meanwhile
\* once if it matches the filters, and not at all if it does not, however the
\* other rows move (WalkExact; the keyset order of get_edits).
THEOREM WalkExactCorrect == Spec => []WalkExact
<1>1. WalkInv => WalkExact
  BY DEF WalkInv, WalkExact
<1> QED
  BY <1>1, WalkInvCorrect, PTL
===========================================================================
