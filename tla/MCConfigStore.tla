--------------------------- MODULE MCConfigStore ---------------------------
(* Constants for model-checking ConfigStore. *)
EXTENDS ConfigStore, TLC

CONSTANTS p1, p2, p3, short, long

\* A document shorter than the other: what is left of the longer one shows.
TwoLengths == (short :> 1) @@ (long :> 2)

Symmetry == Permutations(Procs)
=============================================================================
