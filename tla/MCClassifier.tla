--------------------------- MODULE MCClassifier ---------------------------
(***************************************************************************)
(* Classifier for TLC: two labels, a threshold of 6 tenths, and            *)
(* confidences on both sides of it and outside [0, 1].                     *)
(***************************************************************************)
EXTENDS Classifier

CONSTANTS vandalism, trivia

TwoLabels   == {vandalism, trivia}
Confidences == {-3, 0, 4, 5, 6, 9, 10, 15}
===========================================================================
