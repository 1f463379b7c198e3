--------------------------- MODULE FileLifecycle ---------------------------
(***************************************************************************)
(* What the load-data workflow promises about each source file, whatever   *)
(* notifications are repeated, lambdas fail or executions stop:            *)
(*                                                                         *)
(*   absent  -> pending   the file was announced and has a job row         *)
(*   pending -> merged    its content was committed to Redshift            *)
(*   merged  -> settled   its job row is gone                              *)
(*   settled -> merged    a late notification or retry made a new row      *)
(*                                                                         *)
(* In particular a pending file never goes back to absent.                 *)
(***************************************************************************)
CONSTANT Files

VARIABLE stage

TypeOK == stage \in [Files -> {"absent", "pending", "merged", "settled"}]

Init == stage = [f \in Files |-> "absent"]

\* Every file of S moves from stage a to stage b in one step.
Move(S, a, b) ==
  /\ \A f \in S : stage[f] = a
  /\ stage' = [f \in Files |-> IF f \in S THEN b ELSE stage[f]]

Announce == \E f \in Files : Move({f}, "absent", "pending")
Merge    == \E S \in SUBSET Files : Move(S, "pending", "merged")
Settle   == \E S \in SUBSET Files : Move(S, "merged", "settled")
Reopen   == \E S \in SUBSET Files : Move(S, "settled", "merged")

Next == Announce \/ Merge \/ Settle \/ Reopen

Spec == Init /\ [][Next]_stage
=============================================================================
