-------------------------- MODULE MCRuntimeDetails --------------------------
(* Instances of RuntimeDetails for TLC.                                    *)
EXTENDS RuntimeDetails, TLC

Symmetry == Permutations(Callers)
=============================================================================
