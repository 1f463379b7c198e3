------------------------ MODULE PipelineStacks_proofs ------------------------
(***************************************************************************)
(* Proofs about PipelineStacks, for any stacks, requests and bounds.       *)
(***************************************************************************)
EXTENDS PipelineStacks, TLAPS

USE DEF recordVars, execVars

Stack == [status : StackStatus, now : Content, next : Content, keep : BOOLEAN]
Known == [status : StackStatus, tag : {0, 1}]
Task  == [action : Actions, give : Content]

LEMMA BlankType == Blank \in Content /\ NoStack \in Stack
BY StacksAssumption DEF Blank, NoStack, Content, Stack, StackStatus

LEMMA SavedType ==
  ASSUME NEW w \in [Stacks -> 0..MaxEdits], NEW r \in {0, 1}, NEW s \in Stacks
  PROVE  Saved(s, r, w) \in Content
BY DEF Saved, Content

LEMMA DescribeType ==
  ASSUME TypeOK, NEW s \in Stacks
  PROVE  ById(s) \in Known /\ \A unseen : ByName(s, unseen) \in Known
<1>1. cfn[s] \in Stack
  BY DEF TypeOK, Stack
<1>2. cfn[s].status \in StackStatus /\ cfn[s].now.tag \in {0, 1}
  BY <1>1 DEF Stack, Content
<1>3. ById(s) \in Known
  BY <1>2 DEF ById, Known
<1> QED BY <1>3 DEF ByName, Known, StackStatus

\* An execution starts in a typed state, whatever its plan is.
LEMMA ExecuteType ==
  ASSUME TypeOK, NEW w \in [Stacks -> 0..MaxEdits], NEW r \in {0, 1},
         NEW plan \in [Stacks -> Actions], Execute(plan, w, r)
  PROVE  /\ phase' \in {"idle", "running", "succeeded", "failed"}
         /\ task' \in [Stacks -> Task]
         /\ pc' \in [Stacks -> {"wait", "poll", "done"}]
         /\ outputs' \in SUBSET Stacks
         /\ result' \in {"RUNNING", "SUCCEEDED", "FAILED"}
         /\ want' \in [Stacks -> 0..MaxEdits]
         /\ release' \in {0, 1}
<1>1. \A s \in Stacks : [action |-> plan[s], give |-> Saved(s, r, w)] \in Task
  BY SavedType DEF Task
<1> QED BY <1>1 DEF Execute

LEMMA EditsType ==
  ASSUME TypeOK, NEW S \in SUBSET Stacks, \A s \in S : want[s] < MaxEdits
  PROVE  Edits(S) \in [Stacks -> 0..MaxEdits]
BY StacksAssumption DEF TypeOK, Edits

LEMMA PlanType ==
  ASSUME NEW S \in SUBSET Stacks, NEW tags \in BOOLEAN
  PROVE  UpdatePlan(S, tags) \in [Stacks -> Actions]
<1> SUFFICES ASSUME NEW s \in Stacks PROVE UpdatePlan(S, tags)[s] \in Actions
  BY DEF UpdatePlan
<1>1. CASE StatusByName(s) \in Failures
  BY <1>1 DEF UpdatePlan, Actions
<1>2. CASE StatusByName(s) \in InProgress /\ StatusByName(s) \notin Failures
  BY <1>2 DEF UpdatePlan, Actions, Failures, InProgress, Complete, Rollbacks
<1>3. CASE StatusByName(s) \in Complete /\ StatusByName(s) \notin Failures \union InProgress
  BY <1>3 DEF UpdatePlan, Actions, Failures, InProgress, Complete, Rollbacks
<1>4. CASE StatusByName(s) \notin Failures \union InProgress \union Complete
  BY <1>4 DEF UpdatePlan, Actions
<1> QED BY <1>1, <1>2, <1>3, <1>4

LEMMA RetryType == \A s \in Stacks : RetryAction(s) \in {"Create", "Update", "Upgrade"}
BY DEF RetryAction

LEMMA DeleteType ==
  ASSUME TypeOK, Delete PROVE TypeOK'
<1>1. [s \in Stacks |-> "Delete"] \in [Stacks -> Actions]
  BY DEF Actions
<1>2. want \in [Stacks -> 0..MaxEdits] /\ release \in {0, 1}
  BY DEF TypeOK
<1>3. known' \in [Stacks -> Known]
  BY DescribeType DEF Delete
<1> QED BY <1>1, <1>2, <1>3, ExecuteType, SMTT(30) DEF Delete, TypeOK, Known, Task

LEMMA RequestType ==
  ASSUME TypeOK,
         UpdateRequest \/ AppRequest \/ UpgradeRequest \/ DeleteRequest \/ RetryRequest
  PROVE  TypeOK'
<1>1. CASE UpdateRequest
  <2>1. PICK S \in SUBSET Stacks, tags \in BOOLEAN :
             /\ \A s \in S : want[s] < MaxEdits
             /\ Execute(UpdatePlan(S, tags), Edits(S), release)
    BY <1>1 DEF UpdateRequest
  <2>2. release \in {0, 1}
    BY DEF TypeOK
  <2>3. UpdatePlan(S, tags) \in [Stacks -> Actions]
    BY PlanType
  <2>4. Edits(S) \in [Stacks -> 0..MaxEdits]
    BY <2>1, EditsType
  <2> QED BY <1>1, <2>1, <2>2, <2>3, <2>4, ExecuteType DEF UpdateRequest, TypeOK, Task
<1>2. CASE AppRequest
  <2>1. AppStacks \in SUBSET Stacks
    BY DEF AppStacks
  <2>2. [s \in Stacks |-> IF s \in AppStacks THEN "Update" ELSE "Pass"] \in [Stacks -> Actions]
    BY DEF Actions
  <2>3. release \in {0, 1}
    BY DEF TypeOK
  <2>4. Edits(AppStacks) \in [Stacks -> 0..MaxEdits]
    BY <1>2, <2>1, EditsType DEF AppRequest
  <2> QED BY <1>2, <2>2, <2>3, <2>4, ExecuteType DEF AppRequest, TypeOK, Task
<1>3. CASE UpgradeRequest
  <2>1. [s \in Stacks |-> "Upgrade"] \in [Stacks -> Actions]
    BY DEF Actions
  <2>2. want \in [Stacks -> 0..MaxEdits]
    BY DEF TypeOK
  <2> QED BY <1>3, <2>1, <2>2, ExecuteType DEF UpgradeRequest, TypeOK, Task
<1>4. CASE DeleteRequest
  BY <1>4, DeleteType DEF DeleteRequest
<1>5. CASE RetryRequest
  <2>1. [s \in Stacks |-> IF s \in RetryStacks THEN RetryAction(s) ELSE "Pass"]
          \in [Stacks -> Actions]
    BY RetryType DEF Actions
  <2>2. want \in [Stacks -> 0..MaxEdits] /\ release \in {0, 1}
    BY DEF TypeOK
  <2>3. CASE lastAction = "Delete"
    BY <1>5, <2>3, DeleteType DEF RetryRequest
  <2>4. CASE lastAction # "Delete"
    BY <1>5, <2>1, <2>2, <2>4, ExecuteType DEF RetryRequest, TypeOK, Task
  <2> QED BY <2>3, <2>4
<1> QED BY <1>1, <1>2, <1>3, <1>4, <1>5

LEMMA BeginType ==
  ASSUME TypeOK, NEW s \in Stacks, NEW stack \in Stack, Begin(s, stack)
  PROVE  cfn' \in [Stacks -> Stack] /\ news' \in SUBSET Stacks
BY DEF Begin, TypeOK, Stack

LEMMA OperateType ==
  ASSUME TypeOK, NEW s \in Stacks, Operate(s)
  PROVE  cfn' \in [Stacks -> Stack] /\ news' \in SUBSET Stacks /\ blind' \in SUBSET Stacks
<1>1. cfn[s] \in Stack /\ task[s] \in Task
  BY DEF TypeOK, Stack, Task
<1>2. task[s].give \in Content /\ cfn[s].now \in Content
  BY <1>1 DEF Stack, Task
<1>3. cfn \in [Stacks -> Stack] /\ news \in SUBSET Stacks
  BY DEF TypeOK, Stack
<1>4. blind' \in SUBSET Stacks
  BY DEF Operate, TypeOK
<1>5. CASE CreateStack(s)
  <2>1. [status |-> "CREATE_IN_PROGRESS", now |-> task[s].give,
         next |-> task[s].give, keep |-> TRUE] \in Stack
    BY <1>2 DEF Stack, StackStatus, InProgress
  <2> QED BY <1>3, <1>4, <1>5, <2>1, BeginType DEF CreateStack
<1>6. CASE UpdateStack(s)
  <2> DEFINE give == IF task[s].action = "Upgrade" THEN task[s].give
                     ELSE [task[s].give EXCEPT !.template = cfn[s].now.template]
  <2>1. give \in Content
    BY <1>2 DEF Content
  <2>2. ASSUME NEW keep \in BOOLEAN
        PROVE  [status |-> "UPDATE_IN_PROGRESS", now |-> cfn[s].now, next |-> give,
                keep |-> keep] \in Stack
    BY <1>2, <2>1 DEF Stack, StackStatus, InProgress
  <2>3. \/ UNCHANGED <<cfn, news>>
        \/ Begin(s, [status |-> "UPDATE_IN_PROGRESS", now |-> cfn[s].now, next |-> give,
                     keep |-> cfn[s].status \in Partial])
    BY <1>6 DEF UpdateStack
  <2>4. (cfn[s].status \in Partial) \in BOOLEAN
    OBVIOUS
  <2> HIDE DEF give
  <2>5. [status |-> "UPDATE_IN_PROGRESS", now |-> cfn[s].now, next |-> give,
         keep |-> cfn[s].status \in Partial] \in Stack
    BY <2>2, <2>4
  <2> QED BY <1>3, <1>4, <2>3, <2>5, BeginType
<1>7. CASE DeleteStack(s)
  <2>1. [cfn[s] EXCEPT !.status = "DELETE_IN_PROGRESS"] \in Stack
    BY <1>1 DEF Stack, StackStatus, InProgress
  <2> QED BY <1>3, <1>4, <1>7, <2>1, BeginType DEF DeleteStack
<1> QED BY <1>5, <1>6, <1>7 DEF Operate

LEMMA CloudFormationType ==
  ASSUME TypeOK, NEW s \in Stacks, CloudFormation(s)
  PROVE  TypeOK'
<1>1. cfn[s] \in Stack
  BY DEF TypeOK, Stack
<1>2. ASSUME NEW stack \in Stack, Becomes(s, stack) PROVE TypeOK'
  BY <1>2 DEF Becomes, TypeOK, Stack
<1>3. \A status \in StackStatus :
        [cfn[s] EXCEPT !.status = status] \in Stack
  BY <1>1 DEF Stack
<1>4. CASE StackSucceeds(s)
  <2>1. [cfn[s] EXCEPT !.status = "CREATE_COMPLETE", !.keep = FALSE] \in Stack
    BY <1>1 DEF Stack, StackStatus, Complete
  <2>2. [cfn[s] EXCEPT !.status = "UPDATE_COMPLETE", !.now = cfn[s].next, !.keep = FALSE]
          \in Stack
    BY <1>1 DEF Stack, StackStatus, Complete
  <2>3. [NoStack EXCEPT !.status = "DELETE_COMPLETE"] \in Stack
    BY BlankType DEF Stack, StackStatus, Complete
  <2> QED BY <1>2, <1>4, <2>1, <2>2, <2>3 DEF StackSucceeds
<1>5. CASE StackFails(s)
  <2>1. \A status \in {"UPDATE_FAILED", "UPDATE_ROLLBACK_COMPLETE", "UPDATE_ROLLBACK_FAILED"} :
          [cfn[s] EXCEPT !.status = status, !.next = cfn[s].now] \in Stack
    BY <1>1 DEF Stack, StackStatus, Complete, Failures, Rollbacks
  <2>2. "CREATE_FAILED" \in StackStatus /\ "DELETE_FAILED" \in StackStatus
    BY DEF StackStatus, Failures
  <2>3. CASE cfn[s].status = "UPDATE_IN_PROGRESS"
    <3>1. PICK status \in {"UPDATE_FAILED", "UPDATE_ROLLBACK_COMPLETE", "UPDATE_ROLLBACK_FAILED"} :
            Becomes(s, [cfn[s] EXCEPT !.status = status, !.next = cfn[s].now])
      BY <1>5, <2>3 DEF StackFails
    <3> QED BY <1>2, <2>1, <3>1
  <2>4. CASE cfn[s].status # "UPDATE_IN_PROGRESS"
    <3>1. \/ Becomes(s, [cfn[s] EXCEPT !.status = "CREATE_FAILED"])
          \/ Becomes(s, [cfn[s] EXCEPT !.status = "DELETE_FAILED"])
      BY <1>5, <2>4 DEF StackFails
    <3> QED BY <1>2, <1>3, <2>2, <3>1
  <2> QED BY <2>3, <2>4
<1>6. CASE ContinueRollback(s)
  <2>1. "UPDATE_ROLLBACK_COMPLETE" \in StackStatus
    BY DEF StackStatus, Complete, Rollbacks
  <2> QED BY <1>2, <1>3, <1>6, <2>1 DEF ContinueRollback
<1> QED BY <1>4, <1>5, <1>6 DEF CloudFormation

\* The state keeps its types.
THEOREM StacksTypeCorrect == Spec => []TypeOK
<1>1. Init => TypeOK
  <2>1. 0 \in 0..MaxEdits
    BY StacksAssumption
  <2> SUFFICES ASSUME Init PROVE TypeOK
    OBVIOUS
  <2>2. cfn \in [Stacks -> Stack]
    BY BlankType DEF Init
  <2>3. task \in [Stacks -> Task]
    BY BlankType DEF Init, Task, Actions
  <2>4. want \in [Stacks -> 0..MaxEdits]
    BY <2>1 DEF Init
  <2>5. known \in [Stacks -> Known]
    BY DEF Init, Known, StackStatus
  <2> QED BY <2>2, <2>3, <2>4, <2>5 DEF Init, TypeOK, Stack, Known, Task
<1>2. TypeOK /\ [Next]_vars => TypeOK'
  <2> SUFFICES ASSUME TypeOK, [Next]_vars PROVE TypeOK'
    OBVIOUS
  <2>1. CASE UNCHANGED vars
    BY <2>1 DEF vars, TypeOK
  <2>2. CASE UpdateRequest \/ AppRequest \/ UpgradeRequest \/ DeleteRequest \/ RetryRequest
    BY <2>2, RequestType
  <2>3. CASE EndExecution
    BY <2>3 DEF EndExecution, TypeOK
  <2>4. ASSUME NEW unseen \in SUBSET Unseen, HandleStateEvent(unseen) PROVE TypeOK'
    <3>1. known' \in [Stacks -> Known]
      BY <2>4, DescribeType DEF HandleStateEvent
    <3> QED BY <2>4, <3>1 DEF HandleStateEvent, TypeOK, Known
  <2>5. ASSUME NEW s \in Stacks, StackStep(s) PROVE TypeOK'
    <3>1. CASE PassStack(s)
      BY <3>1 DEF PassStack, WriteOutputs, Finished, TypeOK
    <3>2. CASE StartStack(s)
      <4>1. Operate(s) /\ pc' = [pc EXCEPT ![s] = "poll"]
        BY <3>2 DEF StartStack
      <4> QED BY <4>1, OperateType DEF Operate, TypeOK, Stack
    <3>3. CASE StartAgain(s)
      <4>1. Operate(s) /\ UNCHANGED pc
        BY <3>3 DEF StartAgain
      <4> QED BY <4>1, OperateType DEF Operate, TypeOK, Stack
    <3>4. CASE SkipDelete(s)
      BY <3>4 DEF SkipDelete, Finished, TypeOK
    <3>5. CASE SettleStack(s)
      BY <3>5 DEF SettleStack, Abort, WriteOutputs, Finished, TypeOK
    <3>6. CASE ActionFails(s)
      BY <3>6 DEF ActionFails, Abort, TypeOK
    <3>7. CASE HandleStackEvent(s)
      <4>1. known' \in [Stacks -> Known]
        BY <3>7, DescribeType DEF HandleStackEvent, TypeOK, Known
      <4> QED BY <3>7, <4>1 DEF HandleStackEvent, TypeOK, Known
    <3> QED BY <2>5, <3>1, <3>2, <3>3, <3>4, <3>5, <3>6, <3>7 DEF StackStep
  <2>6. ASSUME NEW s \in Stacks, CloudFormation(s) PROVE TypeOK'
    BY <2>6, CloudFormationType
  <2> QED BY <2>1, <2>2, <2>3, <2>4, <2>5, <2>6 DEF Next
<1> QED BY <1>1, <1>2, PTL DEF Spec

-----------------------------------------------------------------------------
(* A deletion.  While the last request is a deletion every action of the    *)
(* execution is one; a stack whose action is done does not exist, unless    *)
(* describe failed, and nothing else creates it again.                      *)

Deleting == {"DELETE_IN_PROGRESS", "DELETE_COMPLETE", "DELETE_FAILED"}

\* What an execution that is not a deletion asks for.
LEMMA NoDeletePlan ==
  ASSUME NEW s \in Stacks
  PROVE  /\ \A S \in SUBSET Stacks, tags \in BOOLEAN : UpdatePlan(S, tags)[s] # "Delete"
         /\ RetryAction(s) # "Delete"
<1>1. RetryAction(s) # "Delete"
  BY DEF RetryAction
<1>2. ASSUME NEW S \in SUBSET Stacks, NEW tags \in BOOLEAN
      PROVE  UpdatePlan(S, tags)[s] # "Delete"
  <2>1. CASE StatusByName(s) \in Failures
    BY <2>1 DEF UpdatePlan
  <2>2. CASE StatusByName(s) \in InProgress /\ StatusByName(s) \notin Failures
    BY <2>2 DEF UpdatePlan, Failures, InProgress, Complete, Rollbacks
  <2>3. CASE StatusByName(s) \in Complete /\ StatusByName(s) \notin Failures \union InProgress
    BY <2>3 DEF UpdatePlan, Failures, InProgress, Complete, Rollbacks
  <2>4. CASE StatusByName(s) \notin Failures \union InProgress \union Complete
    BY <2>4 DEF UpdatePlan
  <2> QED BY <2>1, <2>2, <2>3, <2>4
<1> QED BY <1>1, <1>2

\* A request starts an execution whose actions are deletions or have none.
LEMMA RequestStarts ==
  ASSUME UpdateRequest \/ AppRequest \/ UpgradeRequest \/ DeleteRequest \/ RetryRequest
  PROVE  /\ ~gone
         /\ phase = "idle" /\ phase' = "running"
         /\ pc' = [s \in Stacks |-> "wait"]
         /\ \A s \in Stacks : task'[s].action = "Delete" <=> lastAction' = "Delete"
         /\ UNCHANGED <<cfn, gone>>
<1>1. ASSUME Delete PROVE /\ phase = "idle" /\ phase' = "running"
                          /\ pc' = [s \in Stacks |-> "wait"]
                          /\ \A s \in Stacks : task'[s].action = "Delete" <=> lastAction' = "Delete"
                          /\ UNCHANGED <<cfn, gone>>
  BY <1>1 DEF Delete, Execute
<1>2. CASE UpdateRequest
  <2>1. PICK S \in SUBSET Stacks, tags \in BOOLEAN :
             Execute(UpdatePlan(S, tags), Edits(S), release)
    BY <1>2 DEF UpdateRequest
  <2>2. \A s \in Stacks : task'[s].action # "Delete"
    BY <2>1, NoDeletePlan DEF Execute
  <2> QED BY <1>2, <2>1, <2>2 DEF UpdateRequest, Execute, MayAsk
<1>3. CASE AppRequest
  BY <1>3 DEF AppRequest, Execute, MayAsk
<1>4. CASE UpgradeRequest
  BY <1>4 DEF UpgradeRequest, Execute, MayAsk
<1>5. CASE DeleteRequest
  BY <1>1, <1>5 DEF DeleteRequest, MayAsk
<1>6. CASE RetryRequest
  <2>1. CASE lastAction = "Delete"
    BY <1>1, <1>6, <2>1 DEF RetryRequest, MayAsk
  <2>2. CASE lastAction # "Delete"
    <3>1. Execute([s \in Stacks |-> IF s \in RetryStacks THEN RetryAction(s) ELSE "Pass"],
                  want, release)
      BY <1>6, <2>2 DEF RetryRequest
    <3>2. \A s \in Stacks : task'[s].action # "Delete"
      BY <3>1, NoDeletePlan DEF Execute
    <3> QED BY <1>6, <2>2, <3>1, <3>2 DEF RetryRequest, Execute, MayAsk
  <2> QED BY <2>1, <2>2
<1> QED BY <1>2, <1>3, <1>4, <1>5, <1>6

\* In the execution of a deletion an action only begins to delete its stack.
LEMMA DeletionOperates ==
  ASSUME TypeOK, DeletionInv, lastAction = "Delete", NEW s \in Stacks, Operate(s)
  PROVE  /\ Exists(s) /\ pc[s] = "wait" /\ phase = "running"
         /\ \A t \in After(s) : pc[t] = "done"
         /\ cfn'[s].status = "DELETE_IN_PROGRESS"
         /\ \A t \in Stacks \ {s} : cfn'[t] = cfn[t]
<1>1. phase = "running" /\ pc[s] = "wait" /\ \A t \in After(s) : pc[t] = "done"
  BY DEF Operate, Startable, Preceding
<1>2. DeleteStack(s)
  BY <1>1 DEF Operate, CreateStack, UpdateStack, DeletionInv
<1> QED BY <1>1, <1>2 DEF DeleteStack, Begin, TypeOK

\* CloudFormation removes stacks, it never brings one back; a stack that is
\* being deleted goes on to be deleted or fails.
LEMMA CloudFormationMoves ==
  ASSUME TypeOK, NEW s \in Stacks, CloudFormation(s)
  PROVE  /\ \A t \in Stacks \ {s} : cfn'[t] = cfn[t]
         /\ cfn'[s].status \notin InProgress
         /\ Exists(s)
         /\ cfn[s].status \in Deleting => cfn'[s].status \in Deleting
         /\ UNCHANGED <<recordVars, execVars>>
<1>1. CASE StackSucceeds(s)
  <2>1. PICK stack : /\ Becomes(s, stack)
                     /\ stack.status \in {"CREATE_COMPLETE", "UPDATE_COMPLETE", "DELETE_COMPLETE"}
                     /\ cfn[s].status = "DELETE_IN_PROGRESS" => stack.status = "DELETE_COMPLETE"
    <3>1. CASE cfn[s].status = "CREATE_IN_PROGRESS"
      BY <1>1, <3>1, ZenonT(40) DEF StackSucceeds, TypeOK
    <3>2. CASE cfn[s].status = "UPDATE_IN_PROGRESS"
      BY <1>1, <3>2, ZenonT(40) DEF StackSucceeds, TypeOK
    <3>3. CASE cfn[s].status = "DELETE_IN_PROGRESS"
      BY <1>1, <3>3 DEF StackSucceeds, NoStack
    <3> QED BY <1>1, <3>1, <3>2, <3>3 DEF StackSucceeds
  <2>2. cfn[s].status \in {"CREATE_IN_PROGRESS", "UPDATE_IN_PROGRESS", "DELETE_IN_PROGRESS"}
    BY <1>1 DEF StackSucceeds
  <2> QED BY <2>1, <2>2 DEF Becomes, TypeOK, Exists, Removed, Deleting, InProgress
<1>2. CASE StackFails(s)
  <2>1. PICK stack : /\ Becomes(s, stack)
                     /\ stack.status \in {"CREATE_FAILED", "UPDATE_FAILED", "DELETE_FAILED",
                                    "UPDATE_ROLLBACK_COMPLETE", "UPDATE_ROLLBACK_FAILED"}
                     /\ cfn[s].status = "DELETE_IN_PROGRESS" => stack.status = "DELETE_FAILED"
    <3>1. CASE cfn[s].status = "CREATE_IN_PROGRESS"
      BY <1>2, <3>1 DEF StackFails, TypeOK
    <3>2. CASE cfn[s].status = "UPDATE_IN_PROGRESS"
      <4>1. PICK status \in {"UPDATE_FAILED", "UPDATE_ROLLBACK_COMPLETE", "UPDATE_ROLLBACK_FAILED"} :
              Becomes(s, [cfn[s] EXCEPT !.status = status, !.next = cfn[s].now])
        BY <1>2, <3>2 DEF StackFails
      <4> QED BY <3>2, <4>1, ZenonT(40) DEF TypeOK
    <3>3. CASE cfn[s].status = "DELETE_IN_PROGRESS"
      BY <1>2, <3>3 DEF StackFails, TypeOK
    <3> QED BY <1>2, <3>1, <3>2, <3>3 DEF StackFails
  <2>2. cfn[s].status \in {"CREATE_IN_PROGRESS", "UPDATE_IN_PROGRESS", "DELETE_IN_PROGRESS"}
    BY <1>2 DEF StackFails
  <2> QED BY <2>1, <2>2 DEF Becomes, TypeOK, Exists, Removed, Deleting, InProgress
<1>3. CASE ContinueRollback(s)
  BY <1>3 DEF ContinueRollback, Becomes, TypeOK, Exists, Removed, Deleting, InProgress
<1> QED BY <1>1, <1>2, <1>3 DEF CloudFormation

\* Every step keeps what a deletion has done, when describe does not fail.
THEOREM DeletionInvariance ==
  ASSUME "Action" \notin Swallowed PROVE Spec => []DeletionInv
<1>1. Init => DeletionInv
  BY DEF Init, DeletionInv, NothingLeftBehind
<1>2. TypeOK /\ DeletionInv /\ [Next]_vars => DeletionInv'
  <2> SUFFICES ASSUME TypeOK, DeletionInv, [Next]_vars PROVE DeletionInv'
    OBVIOUS
  <2>1. CASE UNCHANGED vars
    BY <2>1 DEF vars, DeletionInv, NothingLeftBehind, Exists
  <2>2. CASE UpdateRequest \/ AppRequest \/ UpgradeRequest \/ DeleteRequest \/ RetryRequest
    BY <2>2, RequestStarts DEF DeletionInv, NothingLeftBehind
  <2>3. CASE EndExecution
    BY <2>3 DEF EndExecution, DeletionInv, NothingLeftBehind, Exists
  <2>4. ASSUME NEW unseen \in SUBSET Unseen, HandleStateEvent(unseen) PROVE DeletionInv'
    BY <2>4 DEF HandleStateEvent, DeletionInv, NothingLeftBehind, Exists
  <2>5. ASSUME NEW s \in Stacks, StackStep(s) PROVE DeletionInv'
    <3>1. CASE PassStack(s)
      <4>1. phase = "running" /\ task[s].action # "Delete"
        BY <3>1 DEF PassStack, Startable
      <4>2. lastAction # "Delete" /\ ~gone
        BY <4>1 DEF DeletionInv
      <4> QED BY <3>1, <4>1, <4>2 DEF PassStack, DeletionInv, NothingLeftBehind
    <3>2. CASE StartStack(s)
      <4>1. Operate(s) /\ pc' = [pc EXCEPT ![s] = "poll"]
        BY <3>2 DEF StartStack
      <4>2. phase = "running" /\ UNCHANGED <<recordVars, phase, task>>
        BY <4>1 DEF Operate, Startable
      <4>3. CASE lastAction = "Delete"
        BY <4>1, <4>2, <4>3, DeletionOperates
           DEF DeletionInv, NothingLeftBehind, Exists, TypeOK
      <4>4. CASE lastAction # "Delete"
        BY <4>2, <4>4 DEF DeletionInv, NothingLeftBehind
      <4> QED BY <4>3, <4>4
    <3>3. CASE StartAgain(s)
      <4>1. Operate(s) /\ UNCHANGED pc
        BY <3>3 DEF StartAgain
      <4>2. phase = "running" /\ UNCHANGED <<recordVars, phase, task>>
        BY <4>1 DEF Operate, Startable
      <4>3. CASE lastAction = "Delete"
        BY <4>1, <4>2, <4>3, DeletionOperates
           DEF DeletionInv, NothingLeftBehind, Exists, TypeOK
      <4>4. CASE lastAction # "Delete"
        BY <4>2, <4>4 DEF DeletionInv, NothingLeftBehind
      <4> QED BY <4>3, <4>4
    <3>4. CASE SkipDelete(s)
      <4>1. ~Exists(s) /\ phase = "running"
        BY <3>4 DEF SkipDelete, Startable
      <4> QED BY <3>4, <4>1 DEF SkipDelete, Finished, DeletionInv, NothingLeftBehind, Exists, TypeOK
    <3>5. CASE SettleStack(s)
      <4>1. CASE cfn[s].status \in Failures
        BY <3>5, <4>1 DEF SettleStack, Abort, DeletionInv, NothingLeftBehind
      <4>2. CASE cfn[s].status \notin Failures
        <5>1. /\ phase = "running" /\ pc[s] = "poll" /\ ~Busy(s)
              /\ pc' = [pc EXCEPT ![s] = "done"]
              /\ UNCHANGED <<cfn, recordVars, phase, task>>
          BY <3>5, <4>2 DEF SettleStack, Finished
        <5>2. lastAction = "Delete" => ~Exists(s)
          BY <4>2, <5>1 DEF DeletionInv, Busy, InProgress, Failures, Exists, Removed
        <5> QED BY <5>1, <5>2 DEF DeletionInv, NothingLeftBehind, Exists, TypeOK
      <4> QED BY <4>1, <4>2
    <3>6. CASE ActionFails(s)
      <4>1. phase = "running"
        BY <3>6 DEF ActionFails, Refused, Startable, Abort
      <4> QED BY <3>6, <4>1 DEF ActionFails, Abort, DeletionInv, NothingLeftBehind
    <3>7. CASE HandleStackEvent(s)
      BY <3>7 DEF HandleStackEvent, DeletionInv, NothingLeftBehind, Exists
    <3> QED BY <2>5, <3>1, <3>2, <3>3, <3>4, <3>5, <3>6, <3>7 DEF StackStep
  <2>6. ASSUME NEW s \in Stacks, CloudFormation(s) PROVE DeletionInv'
    BY <2>6, CloudFormationMoves DEF DeletionInv, NothingLeftBehind, Exists, Deleting
  <2> QED BY <2>1, <2>2, <2>3, <2>4, <2>5, <2>6 DEF Next
<1> QED BY <1>1, <1>2, StacksTypeCorrect, PTL DEF Spec

\* The project is marked as deleted only when all of its stacks are, as long
\* as describe does not fail.
THEOREM DeletionLeavesNothing ==
  ASSUME "Action" \notin Swallowed PROVE Spec => []NothingLeftBehind
<1>1. DeletionInv => NothingLeftBehind
  BY DEF DeletionInv
<1> QED BY <1>1, DeletionInvariance, PTL

-----------------------------------------------------------------------------
(* The order of a deletion.                                                 *)

\* Nothing is asked for while a stack is being deleted but its deletion.
Undisturbed == "Action" \notin Swallowed /\ (Patient \/ Requests \subseteq {"Retry", "Delete"})

\* A stack being deleted goes with a deletion, before and after each request.
LEMMA RequestKeepsOrder ==
  ASSUME Undisturbed, OrderInv,
         UpdateRequest \/ AppRequest \/ UpgradeRequest \/ DeleteRequest \/ RetryRequest
  PROVE  OrderInv'
<1>1. UNCHANGED cfn
  BY RequestStarts
<1>2. CASE lastAction' = "Delete" \/ lastAction' = lastAction
  BY <1>1, <1>2 DEF OrderInv, DeletedInOrder, Exists
<1>3. CASE lastAction' # "Delete" /\ lastAction' # lastAction
  <2>1. UpdateRequest \/ AppRequest \/ UpgradeRequest
    BY <1>3 DEF DeleteRequest, RetryRequest, Delete
  <2>2. \A s \in Stacks : ~Busy(s)
    BY <2>1 DEF Undisturbed, UpdateRequest, AppRequest, UpgradeRequest, MayAsk
  <2> QED BY <1>1, <2>2 DEF OrderInv, DeletedInOrder, Exists, Busy, InProgress
<1> QED BY <1>2, <1>3

\* An action that is not part of a deletion deletes nothing.
LEMMA OtherOperates ==
  ASSUME TypeOK, DeletionInv, lastAction # "Delete", NEW s \in Stacks, Operate(s)
  PROVE  /\ cfn'[s] = cfn[s] \/ cfn'[s].status # "DELETE_IN_PROGRESS"
         /\ \A t \in Stacks \ {s} : cfn'[t] = cfn[t]
<1>1. task[s].action # "Delete"
  BY DEF Operate, Startable, DeletionInv
<1>2. CreateStack(s) \/ UpdateStack(s)
  BY <1>1 DEF Operate, DeleteStack
<1>3. CASE CreateStack(s)
  BY <1>3 DEF CreateStack, Begin, TypeOK
<1>4. CASE UpdateStack(s)
  <2> DEFINE give == IF task[s].action = "Upgrade" THEN task[s].give
                     ELSE [task[s].give EXCEPT !.template = cfn[s].now.template]
             stack == [status |-> "UPDATE_IN_PROGRESS", now |-> cfn[s].now, next |-> give,
                       keep |-> cfn[s].status \in Partial]
  <2>1. UNCHANGED cfn \/ cfn' = [cfn EXCEPT ![s] = stack]
    BY <1>4 DEF UpdateStack, Begin
  <2>2. stack.status = "UPDATE_IN_PROGRESS"
    OBVIOUS
  <2> HIDE DEF stack
  <2> QED BY <2>1, <2>2 DEF TypeOK
<1> QED BY <1>2, <1>3, <1>4

LEMMA PlaceType == \A s \in Stacks : Place[s] \in 1..4
<1> SUFFICES ASSUME NEW s \in Stacks PROVE Place[s] \in 1..4
  OBVIOUS
<1>1. s \in StackTypes
  BY StacksAssumption
<1>2. CASE s \in {"Ingestion", "DataProcessing", "Metrics"}
  BY <1>1, <1>2 DEF Place
<1>3. CASE s \in {"KafkaConnector", "Athena"}
  BY <1>1, <1>3 DEF Place
<1>4. CASE s \in {"DataModelingRedshift", "DataModelingS3Tables"}
  BY <1>1, <1>4 DEF Place
<1>5. CASE s = "Reporting"
  BY <1>1, <1>5 DEF Place
<1> QED BY <1>1, <1>2, <1>3, <1>4, <1>5 DEF StackTypes

\* An action keeps the order: in a deletion the stacks after its own are done.
LEMMA OperateKeepsOrder ==
  ASSUME TypeOK, DeletionInv, OrderInv, NEW s \in Stacks, Operate(s)
  PROVE  OrderInv'
<1>1. UNCHANGED lastAction
  BY DEF Operate
<1>2. CASE lastAction = "Delete"
  <2>1. \A t \in After(s) : ~Exists(t)
    BY <1>2, DeletionOperates DEF DeletionInv, After
  <2>2. /\ Exists(s)
        /\ \A t \in Stacks \ {s} : cfn'[t] = cfn[t]
    BY <1>2, DeletionOperates
  <2>3. s \notin After(s)
    BY PlaceType DEF After
  <2>4. ASSUME NEW r \in Stacks, cfn'[r].status = "DELETE_IN_PROGRESS", NEW t \in After(r)
        PROVE  ~Exists(t)'
    <3>1. t \in Stacks
      BY DEF After
    <3>2. CASE r = s
      BY <2>1, <2>2, <2>3, <3>1, <3>2 DEF Exists
    <3>3. CASE r # s
      <4>1. ~Exists(t)
        BY <2>2, <2>4, <3>3 DEF OrderInv, DeletedInOrder
      <4> QED BY <2>2, <3>1, <4>1 DEF Exists
    <3> QED BY <3>2, <3>3
  <2> QED BY <1>1, <1>2, <2>4 DEF OrderInv, DeletedInOrder, After
<1>3. CASE lastAction # "Delete"
  <2>1. \A t \in Stacks : cfn'[t].status # "DELETE_IN_PROGRESS"
    BY <1>3, OtherOperates DEF OrderInv
  <2> QED BY <2>1 DEF OrderInv, DeletedInOrder
<1> QED BY <1>2, <1>3

\* A stack is deleted only when no stack after it is left, as long as describe
\* does not fail and nothing but a retry is asked for during a deletion.
THEOREM DeletionInOrder ==
  ASSUME Undisturbed PROVE Spec => []DeletedInOrder
<1>1. Init => OrderInv
  BY DEF Init, OrderInv, DeletedInOrder, NoStack
<1>2. TypeOK /\ DeletionInv /\ OrderInv /\ [Next]_vars => OrderInv'
  <2> SUFFICES ASSUME TypeOK, DeletionInv, OrderInv, [Next]_vars PROVE OrderInv'
    OBVIOUS
  <2>1. CASE UNCHANGED <<cfn, lastAction>>
    BY <2>1 DEF OrderInv, DeletedInOrder, Exists
  <2>2. CASE UpdateRequest \/ AppRequest \/ UpgradeRequest \/ DeleteRequest \/ RetryRequest
    BY <2>2, RequestKeepsOrder
  <2>3. ASSUME NEW s \in Stacks, Operate(s) PROVE OrderInv'
    BY <2>3, OperateKeepsOrder
  <2>4. ASSUME NEW s \in Stacks, CloudFormation(s) PROVE OrderInv'
    <3>1. /\ \A t \in Stacks \ {s} : cfn'[t] = cfn[t]
          /\ cfn'[s].status \notin InProgress
          /\ Exists(s) /\ UNCHANGED lastAction
      BY <2>4, CloudFormationMoves
    <3> QED BY <3>1 DEF OrderInv, DeletedInOrder, Exists, After, InProgress
  <2>5. CASE EndExecution \/ (\E unseen \in SUBSET Unseen : HandleStateEvent(unseen)) \/ UNCHANGED vars
    BY <2>1, <2>5 DEF EndExecution, HandleStateEvent, vars
  <2>6. ASSUME NEW s \in Stacks, StackStep(s) PROVE OrderInv'
    <3>1. CASE StartStack(s) \/ StartAgain(s)
      BY <2>3, <3>1 DEF StartStack, StartAgain
    <3>2. CASE PassStack(s) \/ SkipDelete(s) \/ SettleStack(s)
      BY <2>1, <3>2 DEF PassStack, SkipDelete, SettleStack
    <3>3. CASE ActionFails(s) \/ HandleStackEvent(s)
      BY <2>1, <3>3 DEF ActionFails, HandleStackEvent
    <3> QED BY <2>6, <3>1, <3>2, <3>3 DEF StackStep
  <2> QED BY <2>2, <2>4, <2>5, <2>6 DEF Next
<1>3. OrderInv => DeletedInOrder
  BY DEF OrderInv
<1>4. Spec => []DeletionInv
  BY DeletionInvariance DEF Undisturbed
<1> QED BY <1>1, <1>2, <1>3, <1>4, StacksTypeCorrect, PTL DEF Spec
=============================================================================
