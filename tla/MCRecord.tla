------------------------------- MODULE MCRecord -------------------------------
(* Instances of PipelineRecord. *)
EXTENDS PipelineRecord, TLC

Symmetry == Permutations(Stacks) \union Permutations(Listeners)
=============================================================================
