---------------------------- MODULE MCPipeline ----------------------------
(***************************************************************************)
(* Small instances of Pipeline for TLC.  e1 and e2 are ordinary edits, the *)
(* table rejects `unfit`, `garbage` is a record that is not an edit; good  *)
(* is a verdict, and nul one that the table rejects.                       *)
(***************************************************************************)
EXTENDS Pipeline

CONSTANTS e1, e2, unfit, garbage, good, nul

None         == {}
OneEdit      == {e1}
TwoEdits     == {e1, e2}
FitAndUnfit  == {e1, unfit}
OnlyUnfit    == {unfit}
EveryPayload == {e1, unfit, garbage}

OnlyGood     == {good}
OnlyNul      == {nul}
GoodAndNul   == {good, nul}

\* How many disturbances of each kind a run may meet.
Disturbed(crashes, drops, foreigns, sweeps) ==
    [k \in Disturbances |-> CASE k = "crash"   -> crashes
                              [] k = "drop"    -> drops
                              [] k = "foreign" -> foreigns
                              [] k = "sweep"   -> sweeps]

CrashDropAndSweep == Disturbed(1, 1, 0, 1)
CrashAndSweep     == Disturbed(1, 0, 0, 1)
CrashesAndUpgrade == Disturbed(2, 1, 1, 0)
DropAndSweep      == Disturbed(0, 1, 0, 1)
===========================================================================
