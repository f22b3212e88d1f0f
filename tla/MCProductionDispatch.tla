------------------------ MODULE MCProductionDispatch ------------------------
(* Two orders, two grants and two concurrent database sessions.            *)
EXTENDS ProductionDispatch, TLC

SessionSymmetry == Permutations(OwnerSession)
=============================================================================
