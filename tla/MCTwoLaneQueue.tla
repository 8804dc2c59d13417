--------------------------- MODULE MCTwoLaneQueue ---------------------------
(* Constants of TwoLaneQueue for TLC.                                      *)
EXTENDS TwoLaneQueue, TLC

KeySymmetry == Permutations(Keys) \cup Permutations(Workers)
=============================================================================
