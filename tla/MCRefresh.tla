------------------------------- MODULE MCRefresh -------------------------------
(***************************************************************************)
(* ViewRefresh for model checking: days of two units of time.              *)
(***************************************************************************)
EXTENDS ViewRefresh, TLC

TwelveHours == [d \in 0..4 |-> 2 * d]
Symmetry    == Permutations(Executions)
=============================================================================
