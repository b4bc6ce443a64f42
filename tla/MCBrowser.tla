----------------------------- MODULE MCBrowser -----------------------------
(***************************************************************************)
(* Browser over two edits in pages of one row.                             *)
(***************************************************************************)
EXTENDS Browser

CONSTANT trivia

None      == {}
TwoEdits  == {1, 2}
OneEdit   == {1}
OneOfThem == {1}
OneLabel  == {trivia}
===========================================================================
