------------------------------ MODULE MCMetadata ------------------------------
(***************************************************************************)
(* MetadataScan for model checking.                                        *)
(***************************************************************************)
EXTENDS MetadataScan, TLC

Symmetry == Permutations(Executions)
=============================================================================
