---------------------------- MODULE MCController ----------------------------
(* Model values for the controller: the calls of TriggerAndWait are           *)
(* interchangeable.                                                           *)
EXTENDS ControllerRefinement, TLC

CONSTANTS w1, w2

OneCall == {w1}
TwoCalls == {w1, w2}
CallSymmetry == Permutations(TwoCalls)
=============================================================================
