----------------------------- MODULE MCLoadData -----------------------------
(* Small instances of LoadDataWorkflow.                                      *)
EXTENDS LoadDataWorkflow, TLC

CONSTANTS f1, f2, f3, t1, t2, a1, a2

\* One file per table: two sub-workflows per execution.
TwoTables  == (f1 :> t1) @@ (f2 :> t2)
SameApp    == (f1 :> a1) @@ (f2 :> a1)

\* Two files of one table and of different applications: two manifests.
OneTable   == (f1 :> t1) @@ (f2 :> t1)
TwoApps    == (f1 :> a1) @@ (f2 :> a2)

\* Two files of one table and one of another.
TwoAndOne  == (f1 :> t1) @@ (f2 :> t1) @@ (f3 :> t2)
SameAppOf3 == (f1 :> a1) @@ (f2 :> a1) @@ (f3 :> a1)

Symmetry == Permutations(Executions) \union Permutations(Statements)

\* With TwoTables, also both files exchanged together with their tables.
Mirror == (f1 :> f2) @@ (f2 :> f1) @@ (t1 :> t2) @@ (t2 :> t1)
MirrorSymmetry == Symmetry \union {Mirror}

\* With TwoAndOne, also the files of the first table.
TwinSymmetry == Symmetry \union Permutations({f1, f2})
=============================================================================
