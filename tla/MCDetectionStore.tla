-------------------------- MODULE MCDetectionStore --------------------------
EXTENDS DetectionStore, TLC

CONSTANTS person, car

MCTypes == {person, car}

(* The two invariants do not tell the types apart.                         *)
MCSymmetry == Permutations(MCTypes)
=============================================================================
