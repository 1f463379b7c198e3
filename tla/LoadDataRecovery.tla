-------------------------- MODULE LoadDataRecovery --------------------------
(***************************************************************************)
(* LoadDataWorkflow with an end to the failures: what the executions reach *)
(* once no lambda and no statement fails any more, from whatever the       *)
(* failures before have left.                                              *)
(***************************************************************************)
EXTENDS LoadDataWorkflow

VARIABLE stable  \* nothing fails any more

rvars == <<vars, stable>>

RInit == Init /\ stable = FALSE

Recover == ~stable /\ stable' = TRUE /\ UNCHANGED vars

\* An execution still fails for a sub-workflow that has failed before.
MainWorks(e) ==
  /\ \/ StartExecution(e) \/ CheckSkipping(e) \/ LoadCompleted(e) \/ RefreshViews(e)
     \/ ExecutionFails(e) /\ (stable => phase[e] = "load")
  /\ UNCHANGED stable

SubWorks(x) ==
  /\ \/ QueryItems(x) \/ EnqueueItems(x) \/ NextManifest(x) \/ SubmitJob(x)
     \/ CheckFinished(x) \/ CheckConflict(x) \/ JobFails(x) \/ CheckMoreWork(x)
  /\ UNCHANGED stable

SubFails(x) ==
  /\ ~stable
  /\ \/ EnqueueAgain(x) \/ EnqueueFails(x) \/ SubmitAgain(x) \/ SubmitFails(x)
     \/ CheckFinishedAgain(x) \/ CheckFails(x) \/ LambdaFails(x)
  /\ UNCHANGED stable

SubStops(x) == StopSub(x) /\ UNCHANGED stable

StatementWorks(s) == FinishStatement(s) /\ UNCHANGED stable

StatementFails(s) == ~stable /\ (BreakStatement(s) \/ CatchError(s)) /\ UNCHANGED stable

Notified(f) == Notify(f) /\ UNCHANGED stable

RNext == \/ Recover
         \/ \E f \in Files : Notified(f)
         \/ \E e \in Executions : MainWorks(e)
         \/ \E x \in Subs : SubWorks(x) \/ SubFails(x) \/ SubStops(x)
         \/ \E s \in Statements : StatementWorks(s) \/ StatementFails(s)

\* EMR jobs keep ending with success, Step Functions keeps executing states and
\* Redshift keeps executing statements.
Fairness ==
  /\ \A e \in Executions : WF_rvars(MainWorks(e))
  /\ \A x \in Subs : WF_rvars(SubWorks(x)) /\ WF_rvars(SubStops(x))
  /\ \A s \in Statements : WF_rvars(StatementWorks(s))

RSpec == RInit /\ [][RNext]_rvars /\ Fairness

\* Once nothing fails any more every row is loaded and deleted in the end, the
\* rows that failed executions have left PROCESSING or ENQUEUE included.
RowsDrain == \A f \in Files : (stable /\ row[f] # "none") ~> (row[f] = "none")
=============================================================================
