--------------------------- MODULE MCConflictMerge ---------------------------
(* Model-checking instances of ConflictMerge. *)
EXTENDS ConflictMerge, TLC

\* Field values are only compared for equality.
ValueSymmetry == Permutations(Values)

================================================================================
