---------------------------- MODULE MCPageWalk ----------------------------
(***************************************************************************)
(* PageWalk over four edits, three of them with a row at the start, in     *)
(* pages of one row: every row is the edge of a page.                      *)
(***************************************************************************)
EXTENDS PageWalk

CONSTANT trivia

None        == {}
AllEdits    == 1 .. 4
ThreeOfThem == {1, 2, 4}
OneLabel    == {trivia}
===========================================================================
