--------------------------- MODULE MCLoadRecovery ---------------------------
(* A small instance of LoadDataRecovery: two files of one table and one of   *)
(* another, so that an execution has two sub-workflows.                      *)
EXTENDS LoadDataRecovery, TLC

CONSTANTS f1, f2, f3, t1, t2, a1

TwoTables == (f1 :> t1) @@ (f2 :> t1) @@ (f3 :> t2)
SameApp   == (f1 :> a1) @@ (f2 :> a1) @@ (f3 :> a1)
=============================================================================
