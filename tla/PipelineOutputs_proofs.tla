------------------------ MODULE PipelineOutputs_proofs ------------------------
(***************************************************************************)
(* Proofs that no stack is given parameters from outputs that are not      *)
(* there (NeverBlind), and that a pipeline which is Active has the stacks  *)
(* of its saved workflow (ActiveMeansDeployed), for any requests and       *)
(* bounds.                                                                 *)
(***************************************************************************)
EXTENDS PipelineStacks_proofs

USE DEF recordVars, execVars

-----------------------------------------------------------------------------
(* A stack gets its parameters when all stacks before it are done.  A stack *)
(* that others refer to is done when its action has settled, and then it    *)
(* has outputs; or it is passed on, because the record says that it is      *)
(* complete, and the record is right as long as nobody asks too early.      *)

\* The stacks that others refer to.
Sources == Stacks \intersect {"DataProcessing", "DataModelingRedshift"}

Careful == /\ Patient
           /\ Orderly \/ "Delete" \notin Requests
           /\ Swallowed \subseteq {"Action", "Record"}

\* Only deletions follow a deletion: one that has succeeded is the end.
OnceDeleted ==
  /\ lastAction = "Delete" /\ result = "SUCCEEDED" => gone
  /\ "Delete" \notin Requests => lastAction # "Delete"
  /\ phase = "running" => \A s \in Stacks : (task[s].action = "Delete") <=> (lastAction = "Delete")

\* The record shows each stack as it is, or as one that was not found, or its
\* event is on its way.
RecordFresh == \A s \in Stacks : s \in news \/ known[s].status \in {cfn[s].status, "NONE"}

\* What the execution has done for the outputs of a stack.
SourceReady(t) ==
  /\ task[t].action = "Pass" => HasOutputs(t)
  /\ pc[t] = "poll" => Exists(t)
  /\ pc[t] = "done" => t \in outputs

\* As long as nothing was deleted.
NotDeleted ==
  /\ \A s \in Stacks : cfn[s].status \notin Deleting
  /\ RecordFresh
  /\ phase = "running" => \A t \in Sources : SourceReady(t)

OutputsInv ==
  /\ OnceDeleted
  /\ lastAction # "Delete" => NotDeleted
  /\ blind = {}

-----------------------------------------------------------------------------
(* Steps of the stacks.                                                     *)

\* A stack that somebody refers to is a source, and comes before.
LEMMA NeedsBefore ==
  ASSUME NEW s \in Stacks PROVE Needs(s) \subseteq Sources \intersect Before(s)
<1>1. CASE s = "Athena"
  BY <1>1 DEF Needs, Before, Sources, StackTypes, Branch, Place
<1>2. CASE s = "DataModelingRedshift"
  BY <1>2 DEF Needs, Before, Sources, StackTypes, Branch, Place
<1>3. CASE s = "Reporting"
  BY <1>3 DEF Needs, Before, Sources, StackTypes, Branch, Place
<1>4. CASE s \notin {"Athena", "DataModelingRedshift", "Reporting"}
  BY <1>4 DEF Needs
<1> QED BY <1>1, <1>2, <1>3, <1>4

LEMMA StatusSet ==
  ASSUME NEW stack \in Stack, NEW status, NEW now, NEW next, NEW keep
  PROVE  /\ [stack EXCEPT !.status = status].status = status
         /\ [stack EXCEPT !.status = status, !.keep = keep].status = status
         /\ [stack EXCEPT !.status = status, !.next = next].status = status
         /\ [stack EXCEPT !.status = status, !.now = now, !.keep = keep].status = status
BY DEF Stack

\* What CloudFormation makes of a stack that is not being deleted.
LEMMA CloudFormationKeeps ==
  ASSUME TypeOK, NEW s \in Stacks, CloudFormation(s), cfn[s].status \notin Deleting
  PROVE  /\ \A t \in Stacks \ {s} : cfn'[t] = cfn[t]
         /\ news' = news \union {s}
         /\ UNCHANGED <<recordVars, execVars>>
         /\ cfn'[s].status \notin Deleting
         /\ Exists(s)'
         /\ HasOutputs(s) => HasOutputs(s)'
<1>0. cfn[s] \in Stack
  BY DEF TypeOK, Stack
<1>1. CASE StackSucceeds(s)
  <2>1. PICK stack : /\ Becomes(s, stack)
                     /\ stack.status \in {"CREATE_COMPLETE", "UPDATE_COMPLETE"}
    <3>1. \/ Becomes(s, [cfn[s] EXCEPT !.status = "CREATE_COMPLETE", !.keep = FALSE])
          \/ Becomes(s, [cfn[s] EXCEPT !.status = "UPDATE_COMPLETE", !.now = cfn[s].next,
                                       !.keep = FALSE])
      BY <1>1, Zenon DEF StackSucceeds, Deleting
    <3>2. \A next : [cfn[s] EXCEPT !.status = "UPDATE_COMPLETE", !.now = next, !.keep = FALSE].status
                     = "UPDATE_COMPLETE"
      BY <1>0, StatusSet
    <3>3. [cfn[s] EXCEPT !.status = "CREATE_COMPLETE", !.keep = FALSE].status = "CREATE_COMPLETE"
      BY <1>0, StatusSet
    <3> QED BY <3>1, <3>2, <3>3, Zenon
  <2> QED BY <2>1 DEF Becomes, TypeOK, Exists, Removed, Deleting, HasOutputs
<1>2. CASE StackFails(s)
  <2>1. CASE cfn[s].status = "CREATE_IN_PROGRESS"
    <3>1. PICK stack : Becomes(s, stack) /\ stack.status = "CREATE_FAILED"
      BY <1>2, <2>1 DEF StackFails, TypeOK
    <3> QED BY <2>1, <3>1 DEF Becomes, TypeOK, Exists, Removed, Deleting, HasOutputs
  <2>2. CASE cfn[s].status = "UPDATE_IN_PROGRESS"
    <3>1. PICK stack :
            /\ Becomes(s, stack)
            /\ stack.status \in {"UPDATE_FAILED", "UPDATE_ROLLBACK_COMPLETE", "UPDATE_ROLLBACK_FAILED"}
      <4>1. PICK status \in {"UPDATE_FAILED", "UPDATE_ROLLBACK_COMPLETE", "UPDATE_ROLLBACK_FAILED"} :
              Becomes(s, [cfn[s] EXCEPT !.status = status, !.next = cfn[s].now])
        BY <1>2, <2>2 DEF StackFails
      <4>2. [cfn[s] EXCEPT !.status = status, !.next = cfn[s].now].status = status
        BY <1>0, StatusSet
      <4> QED BY <4>1, <4>2, Zenon
    <3> QED BY <3>1 DEF Becomes, TypeOK, Exists, Removed, Deleting, HasOutputs
  <2> QED BY <1>2, <2>1, <2>2 DEF StackFails, Deleting
<1>3. CASE ContinueRollback(s)
  BY <1>3 DEF ContinueRollback, Becomes, TypeOK, Exists, Removed, Deleting, HasOutputs
<1> QED BY <1>1, <1>2, <1>3 DEF CloudFormation

\* What an action other than a deletion makes of its stack.
LEMMA OperateKeeps ==
  ASSUME TypeOK, NEW s \in Stacks, Operate(s), task[s].action # "Delete",
         cfn[s].status \notin Deleting
  PROVE  /\ \A t \in Stacks \ {s} : cfn'[t] = cfn[t]
         /\ \/ news' = news /\ cfn' = cfn
            \/ news' = news \union {s}
         /\ task[s].action # "Pass"
         /\ cfn'[s].status \notin Deleting
         /\ Exists(s)'
         /\ HasOutputs(s) => HasOutputs(s)'
<1>1. CreateStack(s) \/ UpdateStack(s)
  BY DEF Operate, DeleteStack
<1>2. CASE CreateStack(s)
  <2>1. CASE Exists(s)
    BY <1>2, <2>1 DEF CreateStack, Exists, HasOutputs
  <2>2. CASE ~Exists(s)
    <3>1. PICK stack : Begin(s, stack) /\ stack.status = "CREATE_IN_PROGRESS"
      BY <1>2, <2>2 DEF CreateStack
    <3> QED BY <1>2, <2>2, <3>1 DEF CreateStack, Begin, TypeOK, Exists, Removed, Deleting, HasOutputs
  <2> QED BY <2>1, <2>2
<1>3. CASE UpdateStack(s)
  <2>1. CASE UNCHANGED <<cfn, news>>
    BY <1>3, <2>1 DEF UpdateStack, Exists, HasOutputs
  <2>2. CASE ~UNCHANGED <<cfn, news>>
    <3>1. PICK stack : Begin(s, stack) /\ stack.status = "UPDATE_IN_PROGRESS"
      BY <1>3, <2>2 DEF UpdateStack
    <3> QED BY <1>3, <3>1 DEF UpdateStack, Begin, TypeOK, Exists, Removed, Deleting, HasOutputs
  <2> QED BY <2>1, <2>2
<1> QED BY <1>1, <1>2, <1>3

-----------------------------------------------------------------------------
(* Requests.                                                                *)

\* After a deletion nothing but deletions are asked for.
LEMMA DeletionsFollow ==
  ASSUME TypeOK, Careful, OnceDeleted, lastAction = "Delete",
         UpdateRequest \/ AppRequest \/ UpgradeRequest \/ DeleteRequest \/ RetryRequest
  PROVE  Delete
<1>1. Orderly
  BY DEF Careful, OnceDeleted
<1>2. ASSUME NEW request \in {"Update", "App", "Upgrade"}, NEW statuses, MayAsk(request, statuses)
      PROVE  FALSE
  <2>1. PipelineStatus = "Active" /\ ~gone
    BY <1>1, <1>2 DEF MayAsk
  <2>2. result = "SUCCEEDED"
    BY <2>1 DEF PipelineStatus, Failed, RunningStatus, TypeOK
  <2> QED BY <2>1, <2>2 DEF OnceDeleted
<1>3. DeleteRequest \/ RetryRequest
  BY <1>2 DEF UpdateRequest, AppRequest, UpgradeRequest
<1> QED BY <1>3 DEF DeleteRequest, RetryRequest

\* When a request may be made, the record shows no stack as another than it is,
\* and no stack is in progress.
LEMMA RecordTrue ==
  ASSUME Careful, NotDeleted,
         NEW request, NEW statuses, MayAsk(request, statuses), NEW s \in Stacks
  PROVE  /\ known[s].status \in {cfn[s].status, "NONE"}
         /\ cfn[s].status \notin InProgress \union Deleting
BY DEF Careful, MayAsk, NotDeleted, RecordFresh, Busy

\* A stack passed on because it is complete has outputs.
LEMMA CompleteHasOutputs ==
  ASSUME NEW s \in Stacks, cfn[s].status \in StackStatus,
         cfn[s].status \notin InProgress \union Deleting \union Failures \union {"NONE"}
  PROVE  HasOutputs(s)
BY DEF HasOutputs, Exists, Removed, StackStatus, Failures, InProgress, Deleting

\* A new execution passes on no source but those that have outputs.
LEMMA PassedHaveOutputs ==
  ASSUME TypeOK, Careful, lastAction # "Delete", NotDeleted,
         UpdateRequest \/ AppRequest \/ UpgradeRequest \/ RetryRequest,
         NEW t \in Sources, task'[t].action = "Pass"
  PROVE  HasOutputs(t)
<1>1. t \in Stacks /\ t \in AppStacks
  BY DEF Sources, AppStacks
<1>2. cfn[t].status \in StackStatus
  BY <1>1 DEF TypeOK
<1>3. CASE UpdateRequest
  <2>1. PICK S \in SUBSET Stacks, tags \in BOOLEAN :
             Execute(UpdatePlan(S, tags), Edits(S), release)
    BY <1>3 DEF UpdateRequest
  <2>2. UpdatePlan(S, tags)[t] = "Pass"
    BY <1>1, <2>1 DEF Execute
  <2>3. /\ known[t].status \in {cfn[t].status, "NONE"}
        /\ cfn[t].status \notin InProgress \union Deleting
    BY <1>1, <1>3, RecordTrue DEF UpdateRequest
  <2>4. StatusByName(t) \notin Failures
    <3> SUFFICES ASSUME StatusByName(t) \in Failures PROVE FALSE
      OBVIOUS
    <3> QED BY <1>1, <2>2 DEF UpdatePlan, Failures, InProgress, Complete, Rollbacks
  <2>5. StatusByName(t) = known[t].status
    BY <2>4 DEF StatusByName, Failures
  <2>6. known[t].status # "NONE"
    <3> SUFFICES ASSUME known[t].status = "NONE" PROVE FALSE
      OBVIOUS
    <3>1. "NONE" \notin Failures \union InProgress \union Complete
      BY DEF Failures, InProgress, Complete, Rollbacks
    <3> QED BY <1>1, <2>2, <2>5, <3>1 DEF UpdatePlan
  <2> QED BY <1>1, <1>2, <2>3, <2>4, <2>5, <2>6, CompleteHasOutputs
<1>4. CASE AppRequest
  BY <1>1, <1>4 DEF AppRequest, Execute
<1>5. CASE UpgradeRequest
  BY <1>1, <1>5 DEF UpgradeRequest, Execute
<1>6. CASE RetryRequest
  <2>1. Execute([s \in Stacks |-> IF s \in RetryStacks THEN RetryAction(s) ELSE "Pass"],
                want, release)
    BY <1>6 DEF RetryRequest
  <2>2. t \notin RetryStacks
    BY <1>1, <2>1, RetryType DEF Execute
  <2>3. /\ known[t].status \in {cfn[t].status, "NONE"}
        /\ cfn[t].status \notin InProgress \union Deleting
    BY <1>1, <1>6, RecordTrue DEF RetryRequest
  <2>4. cfn[t].status \notin Failures \union {"NONE"}
    BY <1>1, <2>2, <2>3 DEF RetryStacks, Broken
  <2> QED BY <1>1, <1>2, <2>3, <2>4, CompleteHasOutputs
<1> QED BY <1>3, <1>4, <1>5, <1>6

LEMMA RequestKeepsOutputs ==
  ASSUME TypeOK, Careful, OutputsInv,
         UpdateRequest \/ AppRequest \/ UpgradeRequest \/ DeleteRequest \/ RetryRequest
  PROVE  OutputsInv'
<1>1. /\ phase' = "running" /\ pc' = [s \in Stacks |-> "wait"]
      /\ \A s \in Stacks : task'[s].action = "Delete" <=> lastAction' = "Delete"
      /\ UNCHANGED cfn
  BY RequestStarts
<1>2. ASSUME Delete PROVE lastAction' = "Delete" /\ result' = "RUNNING" /\ UNCHANGED blind
  BY <1>2 DEF Delete, Execute
<1>3. ASSUME ~Delete
      PROVE  /\ lastAction # "Delete" /\ lastAction' # "Delete"
             /\ result' = "RUNNING"
             /\ UNCHANGED <<news, known, blind>>
             /\ UpdateRequest \/ AppRequest \/ UpgradeRequest \/ RetryRequest
  <2>1. lastAction # "Delete"
    BY <1>3, DeletionsFollow DEF OutputsInv
  <2>2. CASE UpdateRequest
    BY <2>1, <2>2 DEF UpdateRequest, Execute
  <2>3. CASE AppRequest \/ UpgradeRequest
    BY <2>1, <2>3 DEF AppRequest, UpgradeRequest, Execute
  <2>4. CASE RetryRequest
    BY <2>1, <2>4 DEF RetryRequest, Execute
  <2> QED BY <1>3, <2>1, <2>2, <2>3, <2>4 DEF DeleteRequest
<1>4. "Delete" \notin Requests => ~Delete
  <2> SUFFICES ASSUME "Delete" \notin Requests, Delete PROVE FALSE
    OBVIOUS
  <2>1. lastAction # "Delete"
    BY DEF OutputsInv, OnceDeleted
  <2>2. CASE DeleteRequest
    BY <2>2 DEF DeleteRequest, MayAsk
  <2>3. CASE ~DeleteRequest
    <3>1. lastAction' # "Delete"
      BY <2>1, <2>3 DEF UpdateRequest, AppRequest, UpgradeRequest, RetryRequest
    <3> QED BY <1>2, <3>1
  <2> QED BY <2>2, <2>3
<1>5. OnceDeleted'
  BY <1>1, <1>2, <1>3, <1>4 DEF OnceDeleted
<1>6. lastAction' # "Delete" => NotDeleted'
  <2> SUFFICES ASSUME lastAction' # "Delete" PROVE NotDeleted'
    OBVIOUS
  <2>1. ~Delete
    BY <1>2
  <2>2. NotDeleted /\ lastAction # "Delete"
    BY <1>3, <2>1 DEF OutputsInv
  <2>3. ASSUME NEW t \in Sources PROVE SourceReady(t)'
    <3>1. t \in Stacks
      BY DEF Sources
    <3>2. task'[t].action = "Pass" => HasOutputs(t)
      BY <1>3, <2>1, <2>2, PassedHaveOutputs
    <3>3. HasOutputs(t) => HasOutputs(t)'
      BY <1>1 DEF HasOutputs, Exists
    <3> QED BY <1>1, <3>1, <3>2, <3>3 DEF SourceReady
  <2> QED BY <1>1, <1>3, <2>1, <2>2, <2>3 DEF NotDeleted, RecordFresh
<1> QED BY <1>2, <1>3, <1>5, <1>6 DEF OutputsInv

-----------------------------------------------------------------------------
(* Steps of an execution, of the listeners and of CloudFormation.           *)

\* A step in which stacks only grow better keeps what an execution has done.
LEMMA StacksMove ==
  ASSUME OnceDeleted, NotDeleted, NEW s \in Stacks,
         \A t \in Stacks \ {s} : cfn'[t] = cfn[t],
         (news' = news /\ cfn' = cfn) \/ news' = news \union {s},
         cfn'[s].status \notin Deleting,
         Exists(s)',
         HasOutputs(s) => HasOutputs(s)',
         UNCHANGED <<recordVars, phase, task, outputs>>,
         \A t \in Stacks : pc'[t] = pc[t] \/ (t = s /\ pc'[t] = "poll")
  PROVE  OnceDeleted' /\ NotDeleted'
<1>1. OnceDeleted'
  BY DEF OnceDeleted
<1>2. RecordFresh'
  BY DEF NotDeleted, RecordFresh
<1>3. ASSUME phase = "running", NEW t \in Sources PROVE SourceReady(t)'
  <2>1. t \in Stacks /\ SourceReady(t)
    BY <1>3 DEF Sources, NotDeleted
  <2>2. CASE t = s
    BY <2>1, <2>2 DEF SourceReady
  <2>3. CASE t # s
    BY <2>1, <2>3 DEF SourceReady, HasOutputs, Exists
  <2> QED BY <2>2, <2>3
<1> QED BY <1>1, <1>2, <1>3 DEF NotDeleted

\* The parameters of an action are resolved from outputs that are there.
LEMMA OperateKeepsOutputs ==
  ASSUME TypeOK, Careful, OutputsInv, NEW s \in Stacks, Operate(s),
         \A t \in Stacks : pc'[t] = pc[t] \/ (t = s /\ pc'[t] = "poll")
  PROVE  OutputsInv'
<1>1. /\ phase = "running"
      /\ \A t \in Preceding(s) : pc[t] = "done"
      /\ UNCHANGED <<recordVars, phase, task, outputs>>
      /\ (task[s].action = "Delete") <=> (lastAction = "Delete")
  BY DEF Operate, Startable, OutputsInv, OnceDeleted
<1>2. CASE lastAction = "Delete"
  <2>1. blind' = blind
    BY <1>1, <1>2 DEF Operate
  <2> QED BY <1>1, <1>2, <2>1 DEF OutputsInv, OnceDeleted
<1>3. CASE lastAction # "Delete"
  <2>1. NotDeleted /\ OnceDeleted
    BY <1>3 DEF OutputsInv
  <2>2. Needs(s) \subseteq outputs
    <3>1. \A t \in Sources \intersect Before(s) : pc[t] = "done"
      BY <1>1, <1>3 DEF Preceding
    <3>2. \A t \in Sources : pc[t] = "done" => t \in outputs
      BY <1>1, <2>1 DEF NotDeleted, SourceReady
    <3> QED BY <3>1, <3>2, NeedsBefore
  <2>3. blind' = blind
    BY <2>2 DEF Operate, Readable, Works, Careful
  <2>4. cfn[s].status \notin Deleting /\ task[s].action # "Delete"
    BY <1>1, <1>3, <2>1 DEF NotDeleted
  <2>5. OnceDeleted' /\ NotDeleted'
    BY <1>1, <2>1, <2>4, OperateKeeps, StacksMove
  <2> QED BY <2>3, <2>5 DEF OutputsInv
<1> QED BY <1>2, <1>3

\* A stack is passed on or has settled: a source is done when it has outputs.
LEMMA DoneKeepsOutputs ==
  ASSUME TypeOK, OutputsInv, NEW s \in Stacks, Finished(s), WriteOutputs(s),
         phase = "running",
         lastAction # "Delete" /\ s \in Sources => HasOutputs(s),
         UNCHANGED <<cfn, news, recordVars, phase, task, blind>>
  PROVE  OutputsInv'
<1>1. OnceDeleted'
  BY DEF OutputsInv, OnceDeleted
<1>2. ASSUME lastAction # "Delete", NEW t \in Sources PROVE SourceReady(t)'
  <2>1. t \in Stacks /\ SourceReady(t)
    BY <1>2 DEF Sources, OutputsInv, NotDeleted
  <2>2. outputs \subseteq outputs' /\ (HasOutputs(s) => s \in outputs')
    BY DEF WriteOutputs
  <2>3. pc'[t] = IF t = s THEN "done" ELSE pc[t]
    BY <2>1 DEF Finished, TypeOK
  <2>4. (HasOutputs(t) => HasOutputs(t)') /\ (Exists(t) => Exists(t)')
    BY DEF HasOutputs, Exists
  <2> QED BY <1>2, <2>1, <2>2, <2>3, <2>4 DEF SourceReady
<1> QED BY <1>1, <1>2 DEF OutputsInv, NotDeleted, RecordFresh

\* An execution that is not running says nothing of its stacks.
LEMMA EndKeepsOutputs ==
  ASSUME OutputsInv, phase' # "running", UNCHANGED <<cfn, news, recordVars, blind>>
  PROVE  OutputsInv'
BY DEF OutputsInv, OnceDeleted, NotDeleted, RecordFresh

LEMMA StackStepKeepsOutputs ==
  ASSUME TypeOK, Careful, OutputsInv, NEW s \in Stacks, StackStep(s)
  PROVE  OutputsInv'
<1>1. CASE PassStack(s)
  <2>1. phase = "running" /\ task[s].action = "Pass"
    BY <1>1 DEF PassStack, Startable
  <2>2. lastAction # "Delete" /\ s \in Sources => HasOutputs(s)
    BY <2>1 DEF OutputsInv, NotDeleted, SourceReady
  <2>3. WriteOutputs(s)
    BY <1>1 DEF PassStack, Works, Careful
  <2> QED BY <1>1, <2>1, <2>2, <2>3, DoneKeepsOutputs DEF PassStack
<1>2. CASE StartStack(s)
  BY <1>2, OperateKeepsOutputs DEF StartStack, TypeOK
<1>3. CASE StartAgain(s)
  BY <1>3, OperateKeepsOutputs DEF StartAgain
<1>4. CASE SkipDelete(s)
  <2>1. lastAction = "Delete" /\ UNCHANGED <<recordVars, phase, task, blind>>
    BY <1>4 DEF SkipDelete, Startable, OutputsInv, OnceDeleted
  <2> QED BY <2>1 DEF OutputsInv, OnceDeleted
<1>5. CASE SettleStack(s)
  <2>1. CASE cfn[s].status \in Failures
    BY <1>5, <2>1, EndKeepsOutputs DEF SettleStack, Abort
  <2>2. CASE cfn[s].status \notin Failures
    <3>1. /\ phase = "running" /\ pc[s] = "poll" /\ ~Busy(s)
          /\ Finished(s) /\ WriteOutputs(s)
          /\ UNCHANGED <<cfn, news, recordVars, phase, task, blind>>
      BY <1>5, <2>2 DEF SettleStack
    <3>2. lastAction # "Delete" /\ s \in Sources => HasOutputs(s)
      BY <2>2, <3>1
         DEF OutputsInv, NotDeleted, SourceReady, HasOutputs, Busy, InProgress, Failures
    <3> QED BY <3>1, <3>2, DoneKeepsOutputs
  <2> QED BY <2>1, <2>2
<1>6. CASE ActionFails(s)
  BY <1>6, EndKeepsOutputs DEF ActionFails, Abort
<1>7. CASE HandleStackEvent(s)
  <2>1. /\ UNCHANGED <<cfn, result, lastAction, gone, execVars>>
        /\ news' = news \ {s}
        /\ \A t \in Stacks : known'[t] = IF t = s THEN ById(s) ELSE known[t]
    BY <1>7 DEF HandleStackEvent, TypeOK
  <2>2. RecordFresh => RecordFresh'
    BY <2>1 DEF RecordFresh, ById
  <2>3. \A t \in Sources : SourceReady(t) => SourceReady(t)'
    BY <2>1 DEF SourceReady, HasOutputs, Exists
  <2> QED BY <2>1, <2>2, <2>3 DEF OutputsInv, OnceDeleted, NotDeleted
<1> QED BY <1>1, <1>2, <1>3, <1>4, <1>5, <1>6, <1>7 DEF StackStep

LEMMA CloudFormationKeepsOutputs ==
  ASSUME TypeOK, OutputsInv, NEW s \in Stacks, CloudFormation(s)
  PROVE  OutputsInv'
<1>1. UNCHANGED <<recordVars, execVars>>
  BY CloudFormationMoves
<1>2. CASE lastAction = "Delete"
  BY <1>1, <1>2 DEF OutputsInv, OnceDeleted
<1>3. CASE lastAction # "Delete"
  <2>1. NotDeleted /\ OnceDeleted /\ cfn[s].status \notin Deleting
    BY <1>3 DEF OutputsInv, NotDeleted
  <2>2. OnceDeleted' /\ NotDeleted'
    BY <1>1, <2>1, CloudFormationKeeps, StacksMove
  <2> QED BY <1>1, <2>2 DEF OutputsInv
<1> QED BY <1>2, <1>3

\* The end of an execution: every stack is described by its name, and one that
\* was never deleted is found unless it was never there or its describe fails.
LEMMA StateEventKeepsOutputs ==
  ASSUME OutputsInv, NEW unseen, HandleStateEvent(unseen) PROVE OutputsInv'
<1>1. /\ phase' = "idle"
      /\ UNCHANGED <<cfn, news, lastAction, blind>>
      /\ known' = [s \in Stacks |-> ByName(s, unseen)]
  BY DEF HandleStateEvent
<1>2. OnceDeleted'
  BY DEF HandleStateEvent, OutputsInv, OnceDeleted
<1>3. ASSUME lastAction # "Delete" PROVE RecordFresh'
  BY <1>1, <1>3
     DEF OutputsInv, NotDeleted, RecordFresh, ByName, ById, Exists, Removed, Deleting
<1> QED BY <1>1, <1>2, <1>3 DEF OutputsInv, NotDeleted

\* Every step keeps what an execution has done for the outputs.
THEOREM OutputsInvariance ==
  ASSUME Careful PROVE Spec => []OutputsInv
<1>1. Init => OutputsInv
  <2> SUFFICES ASSUME Init PROVE OutputsInv
    OBVIOUS
  <2>1. \A s \in Stacks : cfn[s].status = "NONE" /\ known[s].status = "NONE"
    BY DEF Init, NoStack
  <2>2. \A s \in Stacks : task[s].action = "Create" /\ pc[s] = "wait"
    BY DEF Init
  <2>3. NotDeleted
    BY <2>1, <2>2 DEF NotDeleted, RecordFresh, SourceReady, Sources, Deleting
  <2> QED BY <2>2, <2>3 DEF Init, OutputsInv, OnceDeleted
<1>2. TypeOK /\ OutputsInv /\ [Next]_vars => OutputsInv'
  <2> SUFFICES ASSUME TypeOK, OutputsInv, [Next]_vars PROVE OutputsInv'
    OBVIOUS
  <2>1. CASE UNCHANGED vars
    BY <2>1 DEF vars, OutputsInv, OnceDeleted, NotDeleted, RecordFresh, SourceReady,
                HasOutputs, Exists
  <2>2. CASE UpdateRequest \/ AppRequest \/ UpgradeRequest \/ DeleteRequest \/ RetryRequest
    BY <2>2, RequestKeepsOutputs
  <2>3. CASE EndExecution
    BY <2>3, EndKeepsOutputs DEF EndExecution
  <2>4. ASSUME NEW unseen \in SUBSET Unseen, HandleStateEvent(unseen) PROVE OutputsInv'
    BY <2>4, StateEventKeepsOutputs
  <2>5. ASSUME NEW s \in Stacks, StackStep(s) PROVE OutputsInv'
    BY <2>5, StackStepKeepsOutputs
  <2>6. ASSUME NEW s \in Stacks, CloudFormation(s) PROVE OutputsInv'
    BY <2>6, CloudFormationKeepsOutputs
  <2> QED BY <2>1, <2>2, <2>3, <2>4, <2>5, <2>6 DEF Next
<1> QED BY <1>1, <1>2, StacksTypeCorrect, PTL DEF Spec

\* No stack is given parameters from outputs that are not there, whatever was
\* left half made before, if requests wait for what is in progress, a failed
\* deletion is retried before anything else is asked for, and sfn-workflow's
\* describes of stacks that are passed on and its reads of outputs, whose errors
\* it takes for an empty answer, do not fail.  Those of the record may.
THEOREM OutputsAreThere == Spec => []NeverBlind
<1>1. OutputsInv => NeverBlind
  BY DEF OutputsInv, NeverBlind
<1>2. ~Careful => NeverBlind
  BY DEF Careful, NeverBlind
<1>3. CASE Careful
  BY <1>1, <1>3, OutputsInvariance, PTL
<1>4. CASE ~Careful
  <2>1. Spec => []NeverBlind
    BY <1>2, <1>4, PTL DEF Careful
  <2> QED BY <2>1
<1> QED BY <1>3, <1>4

-----------------------------------------------------------------------------
(* Active means deployed.  A stack that an execution has not brought to     *)
(* the saved workflow must be known to the next retry.  It is, when a retry *)
(* takes up all stacks after one that is broken, and no call is lost on a   *)
(* stack that is complete.  A creation leaves none but those it has made.   *)

\* One stack after the other, each retried with those before it.
RetriedTogether ==
  \A s \in Stacks : /\ \A t \in Stacks \ {s} : s \in Before(t) \/ t \in Before(s)
                    /\ After(s) \subseteq Dependents(s)

\* A pipeline that is created, and retried until it is, or deleted.
CreatedOnly == Requests \subseteq {"Retry", "Delete"}

NothingLost == /\ Patient /\ Orderly
               /\ FailingCalls \intersect {"Pass", "Update"} = {}
               /\ Swallowed \subseteq {"Action"}

Target(s) == Saved(s, release, want)

Whole(s)  == cfn[s].status \in {"CREATE_COMPLETE", "UPDATE_COMPLETE"}
Broke(s)  == cfn[s].status \in {"NONE"} \union Failures \union Rollbacks
Coming(s) == \/ cfn[s].status = "CREATE_IN_PROGRESS" /\ cfn[s].now = Target(s)
             \/ cfn[s].status = "UPDATE_IN_PROGRESS" /\ cfn[s].next = Target(s)

\* As the saved workflow has it, or of another version than the record's.
Current(s) == cfn[s].now = Target(s) \/ cfn[s].now.tag # release

\* A stack still to be updated: by this execution, or by the next retry.
Excused(s) ==
  /\ RetriedTogether
  /\ lastAction # "Upgrade"
  /\ IF phase = "running" THEN task[s].action = "Update" /\ pc[s] = "wait"
     ELSE \E t \in Before(s) : Broke(t)

RecordExactly == \A s \in Stacks : s \in news \/ known[s] = ById(s)

StackKinds ==
  \A s \in Stacks : Broke(s) \/ Coming(s) \/ (Whole(s) /\ (Current(s) \/ Excused(s)))

\* An update keeps the template, so it must be that of the record already.
TemplatesKept ==
  lastAction # "Upgrade" => \A s \in Stacks : Exists(s) => cfn[s].now.template = release

ToCreate(s) == phase = "running" /\ task[s].action = "Create" /\ pc[s] # "done"

CreatedInOrder ==
  \A s \in Stacks : ~Exists(s) \/ ToCreate(s) => \A t \in After(s) : ~Exists(t)

\* What the actions of an execution ask for, and of which stacks.
TaskFits(s) ==
  /\ task[s].give = Target(s)
  /\ task[s].action \in {"Update", "Upgrade"} => Exists(s)
  /\ task[s].action = "Update" => lastAction # "Upgrade"
  /\ task[s].action = "Upgrade" => lastAction = "Upgrade"
  /\ task[s].action = "Pass" => Whole(s)
  /\ pc[s] # "wait" => Exists(s) /\ \A t \in Before(s) : pc[t] = "done"

TasksFit == phase = "running" => \A s \in Stacks : TaskFits(s)

AllThere ==
  phase = "succeeded" \/ (phase = "idle" /\ result = "SUCCEEDED") => \A s \in Stacks : Exists(s)

DeployedInv ==
  lastAction # "Delete" =>
    RecordExactly /\ StackKinds /\ TemplatesKept /\ CreatedInOrder /\ TasksFit /\ AllThere

-----------------------------------------------------------------------------
(* Operators.                                                               *)

LEMMA BeforeAfter ==
  ASSUME NEW s \in Stacks, NEW t \in Stacks
  PROVE  /\ s \in Before(t) <=> t \in After(s)
         /\ s \notin Before(s)
         /\ Before(s) \subseteq Stacks /\ After(s) \subseteq Stacks
<1>1. Place[s] \in 1..4 /\ Place[t] \in 1..4
  BY PlaceType
<1> QED BY <1>1 DEF Before, After

LEMMA SameTemplate ==
  ASSUME NEW give \in Content PROVE [give EXCEPT !.template = give.template] = give
BY DEF Content

LEMMA ContentSet ==
  ASSUME NEW stack \in Stack, NEW status, NEW now, NEW next, NEW keep
  PROVE  /\ [stack EXCEPT !.status = status].now = stack.now
         /\ [stack EXCEPT !.status = status, !.keep = keep].now = stack.now
         /\ [stack EXCEPT !.status = status, !.next = next].now = stack.now
         /\ [stack EXCEPT !.status = status, !.now = now, !.keep = keep].now = now
BY DEF Stack

LEMMA KindsApart ==
  /\ {"CREATE_COMPLETE", "UPDATE_COMPLETE"} \subseteq Complete
  /\ {"CREATE_COMPLETE", "UPDATE_COMPLETE"} \intersect
       (InProgress \union Failures \union Rollbacks \union Removed) = {}
  /\ InProgress \intersect ({"NONE"} \union Failures \union Rollbacks) = {}
  /\ "NONE" \notin Failures \union Complete
BY DEF Complete, InProgress, Failures, Rollbacks, Removed

\* What CloudFormation makes of a stack that is not being deleted.
LEMMA CloudFormationMakes ==
  ASSUME TypeOK, NEW s \in Stacks, CloudFormation(s), cfn[s].status \notin Deleting
  PROVE  \/ /\ cfn[s].status = "CREATE_IN_PROGRESS"
            /\ cfn'[s].status \in {"CREATE_COMPLETE", "CREATE_FAILED"}
            /\ cfn'[s].now = cfn[s].now
         \/ /\ cfn[s].status = "UPDATE_IN_PROGRESS"
            /\ cfn'[s].status = "UPDATE_COMPLETE"
            /\ cfn'[s].now = cfn[s].next
         \/ /\ cfn[s].status \in {"UPDATE_IN_PROGRESS", "UPDATE_ROLLBACK_FAILED"}
            /\ cfn'[s].status \in {"UPDATE_FAILED", "UPDATE_ROLLBACK_COMPLETE",
                                   "UPDATE_ROLLBACK_FAILED"}
            /\ cfn'[s].now = cfn[s].now
<1> DEFINE Goal ==
         \/ /\ cfn[s].status = "CREATE_IN_PROGRESS"
            /\ cfn'[s].status \in {"CREATE_COMPLETE", "CREATE_FAILED"}
            /\ cfn'[s].now = cfn[s].now
         \/ /\ cfn[s].status = "UPDATE_IN_PROGRESS"
            /\ cfn'[s].status = "UPDATE_COMPLETE"
            /\ cfn'[s].now = cfn[s].next
         \/ /\ cfn[s].status \in {"UPDATE_IN_PROGRESS", "UPDATE_ROLLBACK_FAILED"}
            /\ cfn'[s].status \in {"UPDATE_FAILED", "UPDATE_ROLLBACK_COMPLETE",
                                   "UPDATE_ROLLBACK_FAILED"}
            /\ cfn'[s].now = cfn[s].now
<1>0. cfn[s] \in Stack /\ (\A stack : Becomes(s, stack) => cfn'[s] = stack)
  BY DEF TypeOK, Stack, Becomes
<1>1. CASE cfn[s].status = "CREATE_IN_PROGRESS"
  <2>1. \/ Becomes(s, [cfn[s] EXCEPT !.status = "CREATE_COMPLETE", !.keep = FALSE])
        \/ Becomes(s, [cfn[s] EXCEPT !.status = "CREATE_FAILED"])
    BY <1>1 DEF CloudFormation, StackSucceeds, StackFails, ContinueRollback
  <2>2. /\ [cfn[s] EXCEPT !.status = "CREATE_COMPLETE", !.keep = FALSE].status = "CREATE_COMPLETE"
        /\ [cfn[s] EXCEPT !.status = "CREATE_COMPLETE", !.keep = FALSE].now = cfn[s].now
        /\ [cfn[s] EXCEPT !.status = "CREATE_FAILED"].status = "CREATE_FAILED"
        /\ [cfn[s] EXCEPT !.status = "CREATE_FAILED"].now = cfn[s].now
    BY <1>0, StatusSet, ContentSet
  <2> QED BY <1>0, <1>1, <2>1, <2>2
<1>2. CASE cfn[s].status = "UPDATE_IN_PROGRESS"
  <2>1. \/ Becomes(s, [cfn[s] EXCEPT !.status = "UPDATE_COMPLETE", !.now = cfn[s].next, !.keep = FALSE])
        \/ \E status \in {"UPDATE_FAILED", "UPDATE_ROLLBACK_COMPLETE", "UPDATE_ROLLBACK_FAILED"} :
             Becomes(s, [cfn[s] EXCEPT !.status = status, !.next = cfn[s].now])
    BY <1>2 DEF CloudFormation, StackSucceeds, StackFails, ContinueRollback
  <2>2. CASE Becomes(s, [cfn[s] EXCEPT !.status = "UPDATE_COMPLETE", !.now = cfn[s].next, !.keep = FALSE])
    <3>1. \A now : /\ [cfn[s] EXCEPT !.status = "UPDATE_COMPLETE", !.now = now, !.keep = FALSE].status
                        = "UPDATE_COMPLETE"
                   /\ [cfn[s] EXCEPT !.status = "UPDATE_COMPLETE", !.now = now, !.keep = FALSE].now = now
      BY <1>0, StatusSet, ContentSet
    <3> QED BY <1>0, <1>2, <2>2, <3>1, Zenon
  <2>3. ASSUME NEW status \in {"UPDATE_FAILED", "UPDATE_ROLLBACK_COMPLETE", "UPDATE_ROLLBACK_FAILED"},
               Becomes(s, [cfn[s] EXCEPT !.status = status, !.next = cfn[s].now])
        PROVE  Goal
    <3>1. \A next : /\ [cfn[s] EXCEPT !.status = status, !.next = next].status = status
                    /\ [cfn[s] EXCEPT !.status = status, !.next = next].now = cfn[s].now
      BY <1>0, StatusSet, ContentSet
    <3>2. cfn'[s].status = status /\ cfn'[s].now = cfn[s].now
      BY <1>0, <2>3, <3>1, Zenon
    <3> QED BY <1>2, <2>3, <3>2
  <2> QED BY <2>1, <2>2, <2>3
<1>3. CASE cfn[s].status \notin {"CREATE_IN_PROGRESS", "UPDATE_IN_PROGRESS"}
  <2>1. /\ cfn[s].status = "UPDATE_ROLLBACK_FAILED"
        /\ Becomes(s, [cfn[s] EXCEPT !.status = "UPDATE_ROLLBACK_COMPLETE"])
    BY <1>3 DEF CloudFormation, StackSucceeds, StackFails, ContinueRollback, Deleting
  <2>2. /\ [cfn[s] EXCEPT !.status = "UPDATE_ROLLBACK_COMPLETE"].status = "UPDATE_ROLLBACK_COMPLETE"
        /\ [cfn[s] EXCEPT !.status = "UPDATE_ROLLBACK_COMPLETE"].now = cfn[s].now
    BY <1>0, StatusSet, ContentSet
  <2> QED BY <1>0, <2>1, <2>2
<1> QED BY <1>1, <1>2, <1>3

\* What an action makes of its stack: nothing, or a creation or an update to
\* what it was given.
LEMMA OperateMakes ==
  ASSUME TypeOK, NEW s \in Stacks, Operate(s), task[s].action # "Delete",
         task[s].action = "Update" => cfn[s].now.template = task[s].give.template
  PROVE  \/ /\ UNCHANGED <<cfn, news>>
            /\ \/ task[s].action = "Create" /\ Exists(s)
               \/ /\ task[s].action \in {"Update", "Upgrade"}
                  /\ Exists(s)
                  /\ cfn[s].status \in Settled => cfn[s].now = task[s].give
         \/ /\ cfn' = [cfn EXCEPT ![s] = cfn'[s]]
            /\ news' = news \union {s}
            /\ \/ /\ task[s].action = "Create"
                  /\ cfn'[s].status = "CREATE_IN_PROGRESS" /\ cfn'[s].now = task[s].give
               \/ /\ task[s].action \in {"Update", "Upgrade"}
                  /\ Exists(s)
                  /\ cfn'[s].status = "UPDATE_IN_PROGRESS"
                  /\ cfn'[s].now = cfn[s].now /\ cfn'[s].next = task[s].give
<1>1. CreateStack(s) \/ UpdateStack(s)
  BY DEF Operate, DeleteStack
<1>2. CASE CreateStack(s)
  <2>1. CASE Exists(s)
    BY <1>2, <2>1 DEF CreateStack
  <2>2. CASE ~Exists(s)
    BY <1>2, <2>2 DEF CreateStack, Begin, TypeOK
  <2> QED BY <2>1, <2>2
<1>3. CASE UpdateStack(s)
  <2> DEFINE give == IF task[s].action = "Upgrade" THEN task[s].give
                     ELSE [task[s].give EXCEPT !.template = cfn[s].now.template]
             stack == [status |-> "UPDATE_IN_PROGRESS", now |-> cfn[s].now, next |-> give,
                       keep |-> cfn[s].status \in Partial]
  <2>1. task[s].give \in Content
    BY DEF TypeOK
  <2>2. task[s].action \in {"Update", "Upgrade"} /\ Exists(s)
    BY <1>3 DEF UpdateStack
  <2>3. give = task[s].give
    BY <2>1, <2>2, SameTemplate
  <2>4. \/ /\ UNCHANGED <<cfn, news>>
           /\ \/ cfn[s].status \notin Settled \union Partial
              \/ cfn[s].status \in Settled /\ give = cfn[s].now
        \/ Begin(s, stack)
    BY <1>3 DEF UpdateStack
  <2>5. stack.status = "UPDATE_IN_PROGRESS" /\ stack.now = cfn[s].now /\ stack.next = give
    OBVIOUS
  <2>6. Settled \intersect Partial = {}
    BY DEF Settled, Partial, Rollbacks
  <2> HIDE DEF give, stack
  <2>7. CASE Begin(s, stack)
    <3>1. cfn'[s] = stack
      BY <2>7 DEF Begin, TypeOK
    <3> QED BY <2>2, <2>3, <2>5, <2>7, <3>1 DEF Begin
  <2> QED BY <2>2, <2>3, <2>4, <2>6, <2>7
<1> QED BY <1>1, <1>2, <1>3

-----------------------------------------------------------------------------
(* Requests.                                                                *)

\* When a request may be made, the record shows all stacks as they are, and
\* none is in progress.
LEMMA RecordShows ==
  ASSUME TypeOK, Patient, OutputsInv, DeployedInv, lastAction # "Delete",
         NEW request, NEW statuses, MayAsk(request, statuses), NEW s \in Stacks
  PROVE  /\ known[s] = ById(s)
         /\ known[s].status = cfn[s].status
         /\ Exists(s) => known[s].tag = cfn[s].now.tag
         /\ ~Coming(s)
         /\ cfn[s].status \notin InProgress \union Removed \/ cfn[s].status = "NONE"
<1>1. news = {} /\ ~Busy(s)
  BY DEF MayAsk
<1>2. known[s] = ById(s)
  BY <1>1 DEF DeployedInv, RecordExactly
<1>3. cfn[s].status \notin InProgress \union Deleting
  BY <1>1 DEF Busy, OutputsInv, NotDeleted
<1> QED BY <1>2, <1>3 DEF ById, Coming, InProgress, Removed, Deleting

\* When the status is Active, every stack is as the saved workflow has it.
LEMMA ActiveIsWhole ==
  ASSUME TypeOK, OutputsInv, DeployedInv, lastAction # "Delete",
         phase = "idle", news = {}, PipelineStatus = "Active", NEW s \in Stacks
  PROVE  Whole(s) /\ Exists(s) /\ cfn[s].now = Target(s) /\ ~OtherVersion(s)
         /\ known[s].status = cfn[s].status
<1>1. result = "SUCCEEDED"
  BY DEF PipelineStatus, Failed, RunningStatus, TypeOK
<1>2. StatusFromStacks = "COMPLETE"
  <2>1. StatusFromStacks \notin {"IN_PROGRESS", "FAILED", "ROLLBACK_COMPLETE",
                                 "DELETE_COMPLETE", "INCONSISTENT_VERSION"}
    BY <1>1 DEF PipelineStatus, Failed, RunningStatus
  <2> QED BY <2>1 DEF StatusFromStacks
<1>3. \A t \in Stacks : /\ known[t].status \notin Failures \union Rollbacks \union InProgress
                        /\ ~OtherVersion(t)
  <2>1. ~SomeKnown(Failures)
    BY <1>2 DEF StatusFromStacks
  <2>2. ~SomeKnown(Rollbacks)
    BY <1>2, <2>1 DEF StatusFromStacks
  <2>3. ~SomeKnown(Failures \union Rollbacks)
    BY <2>1, <2>2 DEF SomeKnown
  <2>4. ~SomeKnown(InProgress)
    BY <1>2, <2>3 DEF StatusFromStacks
  <2>5. \A t \in Stacks : ~OtherVersion(t)
    BY <1>2, <2>1, <2>2, <2>4 DEF StatusFromStacks
  <2> QED BY <2>1, <2>2, <2>4, <2>5 DEF SomeKnown
<1>4. \A t \in Stacks : /\ known[t] = ById(t)
                        /\ known[t].status = cfn[t].status
                        /\ Exists(t)
  BY <1>1 DEF DeployedInv, RecordExactly, AllThere, ById
<1>5. \A t \in Stacks : ~Broke(t) /\ ~Coming(t)
  BY <1>3, <1>4 DEF Broke, Coming, Exists, Removed, InProgress
<1>6. ~Excused(s)
  BY <1>5, BeforeAfter DEF Excused
<1>7. Whole(s) /\ Current(s)
  BY <1>5, <1>6 DEF DeployedInv, StackKinds
<1>8. cfn[s].now.tag = release
  <2>1. HasTag(s)
    BY <1>4 DEF HasTag, Exists
  <2>2. known[s].tag = cfn[s].now.tag
    <3>1. known[s] = ById(s) /\ Exists(s)
      BY <1>4
    <3>2. ById(s).tag = cfn[s].now.tag
      BY <3>1 DEF ById
    <3> QED BY <3>1, <3>2
  <2> QED BY <1>3, <2>1, <2>2 DEF OtherVersion
<1> QED BY <1>3, <1>4, <1>7, <1>8 DEF Current

\* The start of an execution: only what is new in it is left to show.
LEMMA StartsDeployed ==
  ASSUME TypeOK, OutputsInv, DeployedInv, lastAction # "Delete",
         UNCHANGED <<cfn, news, known>>, phase' = "running",
         pc' = [s \in Stacks |-> "wait"],
         TemplatesKept', StackKinds',
         \A s \in Stacks :
           /\ task'[s].give = Target(s)'
           /\ task'[s].action \in {"Update", "Upgrade"} => Exists(s)
           /\ task'[s].action = "Update" => lastAction' # "Upgrade"
           /\ task'[s].action = "Upgrade" => lastAction' = "Upgrade"
           /\ task'[s].action = "Pass" => Whole(s)
           /\ task'[s].action = "Create" => ~Exists(s)
  PROVE  DeployedInv'
<1>1. RecordExactly'
  BY DEF DeployedInv, RecordExactly, ById, Exists
<1>2. CreatedInOrder'
  BY DEF DeployedInv, CreatedInOrder, ToCreate, Exists
<1>3. TasksFit'
  BY DEF TasksFit, TaskFits, Exists, Whole
<1>4. AllThere'
  BY DEF AllThere
<1> QED BY <1>1, <1>2, <1>3, <1>4 DEF DeployedInv

\* An update of a pipeline that is Active.
LEMMA UpdateStarts ==
  ASSUME TypeOK, RetriedTogether, OutputsInv, DeployedInv, lastAction # "Delete",
         NEW S \in SUBSET Stacks, NEW plan, Execute(plan, Edits(S), release),
         \A s \in Stacks : plan[s] = "Update" \/ (plan[s] = "Pass" /\ s \notin S),
         UNCHANGED <<cfn, news, known>>, lastAction' = "Update",
         \A s \in Stacks : Whole(s) /\ Exists(s) /\ cfn[s].now = Target(s)
  PROVE  DeployedInv'
<1>1. /\ phase' = "running" /\ pc' = [s \in Stacks |-> "wait"]
      /\ \A s \in Stacks : task'[s].action = plan[s] /\ task'[s].give = Saved(s, release, Edits(S))
      /\ want' = Edits(S) /\ release' = release
  BY DEF Execute
<1>2. \A s \in Stacks : Target(s)' = Saved(s, release, Edits(S))
  BY <1>1 DEF Target
<1>3. \A s \in Stacks : s \notin S => Target(s)' = Target(s)
  BY <1>1 DEF Target, Saved, Edits
<1>4. TemplatesKept'
  <2>1. \A s \in Stacks : Target(s).template = release
    BY DEF Target, Saved
  <2> QED BY <1>1, <2>1 DEF TemplatesKept
<1>5. StackKinds'
  <2> SUFFICES ASSUME NEW s \in Stacks PROVE Whole(s)' /\ (Current(s)' \/ Excused(s)')
    BY DEF StackKinds
  <2>1. CASE plan[s] = "Update"
    BY <1>1, <2>1 DEF Excused, Whole
  <2>2. CASE plan[s] = "Pass" /\ s \notin S
    BY <1>1, <1>3, <2>2 DEF Current, Whole
  <2> QED BY <2>1, <2>2
<1> QED BY <1>1, <1>2, <1>4, <1>5, StartsDeployed

\* A retry takes up a stack that is broken with all stacks after it.
LEMMA RetryStarts ==
  ASSUME TypeOK, OutputsInv, DeployedInv, lastAction # "Delete",
         Patient, RetryRequest
  PROVE  DeployedInv'
<1> DEFINE plan == [s \in Stacks |-> IF s \in RetryStacks THEN RetryAction(s) ELSE "Pass"]
<1>1. /\ MayAsk("Retry", {"Failed", "Warning"})
      /\ Execute(plan, want, release)
      /\ UNCHANGED <<cfn, news, known, lastAction>>
  BY DEF RetryRequest
<1>2. /\ phase = "idle" /\ phase' = "running" /\ pc' = [s \in Stacks |-> "wait"]
      /\ \A s \in Stacks : task'[s].action = plan[s] /\ task'[s].give = Target(s)
      /\ UNCHANGED <<want, release>>
  BY <1>1 DEF Execute, Target
<1>3. ASSUME NEW s \in Stacks
      PROVE  /\ known[s].status = cfn[s].status
             /\ Exists(s) => known[s].tag = cfn[s].now.tag
             /\ ~Coming(s)
             /\ cfn[s].status \notin InProgress
             /\ Exists(s) <=> cfn[s].status # "NONE"
  BY <1>1, RecordShows DEF Exists, Removed, InProgress
<1>4. ASSUME NEW s \in Stacks
      PROVE  IF Exists(s) THEN StatusByName(s) \in Failures \union Complete
             ELSE StatusByName(s) = "NONE"
  <2>1. cfn[s].status \in StackStatus
    BY DEF TypeOK
  <2>2. ~Exists(s) => ~HasTag(s)
    BY <1>3 DEF HasTag, Removed
  <2>3. "UPDATE_FAILED" \in Failures
    BY DEF Failures
  <2> QED BY <1>3, <2>1, <2>2, <2>3 DEF StatusByName, OtherVersion, StackStatus
<1>5. ASSUME NEW s \in Stacks
      PROVE  RetryAction(s) = IF ~Exists(s) THEN "Create"
                              ELSE IF lastAction = "Upgrade" THEN "Upgrade" ELSE "Update"
  BY <1>4, KindsApart DEF RetryAction
<1>6. ASSUME NEW s \in Stacks, s \notin RetryStacks
      PROVE  Whole(s) /\ Current(s)
  <2>1. ~Broke(s)
    BY <1>3, <1>6 DEF RetryStacks, Broken, Broke
  <2>2. RetriedTogether => \A t \in Before(s) : ~Broke(t)
    <3> SUFFICES ASSUME RetriedTogether, NEW t \in Before(s), Broke(t) PROVE FALSE
      OBVIOUS
    <3>1. t \in Stacks /\ s \in After(t)
      BY BeforeAfter
    <3>2. Broken(t)
      BY <1>3, <3>1 DEF Broken, Broke
    <3> QED BY <1>6, <3>1, <3>2 DEF RetriedTogether, RetryStacks
  <2>3. ~Excused(s)
    BY <1>2, <2>2 DEF Excused
  <2> QED BY <1>3, <2>1, <2>3 DEF DeployedInv, StackKinds
<1>7. ASSUME NEW s \in Stacks
      PROVE  Broke(s)' \/ Coming(s)' \/ (Whole(s)' /\ (Current(s)' \/ Excused(s)'))
  <2>1. /\ Broke(s)' <=> Broke(s)
        /\ Whole(s)' <=> Whole(s)
        /\ Current(s)' <=> Current(s)
    BY <1>1, <1>2 DEF Broke, Whole, Current, Target
  <2>2. Broke(s) \/ (Whole(s) /\ (Current(s) \/ Excused(s)))
    BY <1>3 DEF DeployedInv, StackKinds
  <2>3. Whole(s) /\ ~Current(s) => Excused(s)'
    <3> SUFFICES ASSUME Whole(s), ~Current(s) PROVE Excused(s)'
      OBVIOUS
    <3>1. Excused(s) /\ lastAction # "Upgrade"
      BY <2>2, KindsApart DEF Excused, Broke, Whole
    <3>2. Exists(s)
      BY KindsApart DEF Whole, Exists
    <3>3. plan[s] = "Update"
      BY <1>5, <1>6, <3>1, <3>2
    <3> QED BY <1>1, <1>2, <3>1, <3>3 DEF Excused
  <2> QED BY <2>1, <2>2, <2>3
<1>8. TemplatesKept'
  BY <1>1, <1>2 DEF DeployedInv, TemplatesKept, Exists
<1>9. \A s \in Stacks :
        /\ plan[s] \in {"Update", "Upgrade"} => Exists(s)
        /\ plan[s] = "Update" => lastAction # "Upgrade"
        /\ plan[s] = "Upgrade" => lastAction = "Upgrade"
        /\ plan[s] = "Pass" => Whole(s)
        /\ plan[s] = "Create" => ~Exists(s)
  BY <1>5, <1>6
<1>10. \A s \in Stacks : Target(s)' = Target(s)
  BY <1>2 DEF Target
<1>11. StackKinds'
  BY <1>7 DEF StackKinds
<1> HIDE DEF plan
<1> QED BY <1>1, <1>2, <1>8, <1>9, <1>10, <1>11, StartsDeployed

LEMMA RequestDeploys ==
  ASSUME TypeOK, NothingLost, RetriedTogether \/ CreatedOnly, OutputsInv, DeployedInv,
         UpdateRequest \/ AppRequest \/ UpgradeRequest \/ DeleteRequest \/ RetryRequest
  PROVE  DeployedInv'
<1>1. Careful
  BY DEF Careful, NothingLost
<1>2. Delete => lastAction' = "Delete"
  BY DEF Delete
<1>3. CASE lastAction = "Delete" \/ DeleteRequest
  BY <1>1, <1>2, <1>3, DeletionsFollow DEF OutputsInv, DeployedInv, DeleteRequest
<1>4. ASSUME lastAction # "Delete", NEW request \in {"Update", "App", "Upgrade"}, NEW statuses,
             MayAsk(request, statuses), phase = "idle", NEW s \in Stacks
      PROVE  /\ Whole(s) /\ Exists(s) /\ cfn[s].now = Target(s) /\ ~OtherVersion(s)
             /\ known[s].status = cfn[s].status
  <2>1. PipelineStatus = "Active" /\ news = {}
    BY <1>4 DEF MayAsk, NothingLost
  <2> QED BY <1>4, <2>1, ActiveIsWhole
<1>4a. UpdateRequest \/ AppRequest => RetriedTogether
  BY DEF UpdateRequest, AppRequest, MayAsk, CreatedOnly
<1>5. CASE lastAction # "Delete" /\ UpdateRequest
  <2>1. PICK S \in SUBSET Stacks, tags \in BOOLEAN :
             Execute(UpdatePlan(S, tags), Edits(S), release)
    BY <1>5 DEF UpdateRequest
  <2>2. \A s \in Stacks : /\ Whole(s) /\ Exists(s) /\ cfn[s].now = Target(s) /\ ~OtherVersion(s)
                          /\ known[s].status = cfn[s].status
    BY <1>4, <1>5, <2>1 DEF UpdateRequest, Execute
  <2>3. ASSUME NEW s \in Stacks
        PROVE  UpdatePlan(S, tags)[s] = IF tags \/ s \in S THEN "Update" ELSE "Pass"
    <3>1. /\ StatusByName(s) \in Complete
          /\ StatusByName(s) \notin Failures \union InProgress
      BY <2>2, KindsApart DEF StatusByName, Whole
    <3> QED BY <3>1 DEF UpdatePlan
  <2> QED BY <1>5, <1>4a, <2>1, <2>2, <2>3, UpdateStarts DEF UpdateRequest
<1>6. CASE lastAction # "Delete" /\ AppRequest
  <2> DEFINE plan == [s \in Stacks |-> IF s \in AppStacks THEN "Update" ELSE "Pass"]
  <2>1. Execute(plan, Edits(AppStacks), release) /\ AppStacks \in SUBSET Stacks
    BY <1>6 DEF AppRequest, AppStacks
  <2>2. \A s \in Stacks : Whole(s) /\ Exists(s) /\ cfn[s].now = Target(s)
    BY <1>4, <1>6, <2>1 DEF AppRequest, Execute
  <2>3. \A s \in Stacks : plan[s] = "Update" \/ (plan[s] = "Pass" /\ s \notin AppStacks)
    OBVIOUS
  <2> HIDE DEF plan
  <2> QED BY <1>6, <1>4a, <2>1, <2>2, <2>3, UpdateStarts DEF AppRequest
<1>7. CASE lastAction # "Delete" /\ UpgradeRequest
  <2>1. /\ phase = "idle" /\ phase' = "running" /\ pc' = [s \in Stacks |-> "wait"]
        /\ \A s \in Stacks : task'[s].action = "Upgrade" /\ task'[s].give = Saved(s, 1, want)
        /\ want' = want /\ release = 0 /\ release' = 1
        /\ UNCHANGED <<cfn, news, known>> /\ lastAction' = "Upgrade"
    BY <1>7 DEF UpgradeRequest, Execute
  <2>2. \A s \in Stacks : Whole(s) /\ Exists(s) /\ cfn[s].now = Target(s)
    BY <1>4, <1>7, <2>1 DEF UpgradeRequest
  <2>3. \A s \in Stacks : Target(s)' = Saved(s, 1, want)
    BY <2>1 DEF Target
  <2>4. StackKinds'
    <3>1. \A s \in Stacks : Target(s).tag = release
      BY DEF Target, Saved
    <3> QED BY <2>1, <2>2, <3>1 DEF StackKinds, Whole, Current
  <2>5. TemplatesKept'
    BY <2>1 DEF TemplatesKept
  <2> QED BY <1>7, <2>1, <2>2, <2>3, <2>4, <2>5, StartsDeployed
<1>8. CASE lastAction # "Delete" /\ RetryRequest
  BY <1>8, RetryStarts DEF NothingLost
<1> QED BY <1>3, <1>5, <1>6, <1>7, <1>8

-----------------------------------------------------------------------------
(* Steps of an execution, of the listeners and of CloudFormation.           *)

LEMMA OperateDeploys ==
  ASSUME TypeOK, NothingLost, OutputsInv, DeployedInv, lastAction # "Delete",
         NEW s \in Stacks, Operate(s),
         pc' = [pc EXCEPT ![s] = "poll"] \/ (pc' = pc /\ task[s].action # "Update")
  PROVE  DeployedInv'
<1>1. /\ phase = "running" /\ pc[s] = "wait"
      /\ \A t \in Before(s) : pc[t] = "done"
      /\ UNCHANGED <<recordVars, phase, task>>
  BY DEF Operate, Startable, Preceding
<1>2. /\ TaskFits(s) /\ task[s].action \notin {"Delete", "Pass"}
      /\ cfn[s].status \notin Deleting
  <2>1. TaskFits(s) /\ task[s].action # "Delete"
    BY <1>1 DEF DeployedInv, TasksFit, OutputsInv, OnceDeleted
  <2>2. cfn[s].status \notin Deleting
    BY DEF OutputsInv, NotDeleted
  <2> QED BY <2>1, <2>2, OperateKeeps
<1>3. \A t \in Stacks \ {s} : cfn'[t] = cfn[t] /\ pc'[t] = pc[t]
  BY <1>2, OperateKeeps DEF TypeOK
<1>4. pc'[s] \in {"wait", "poll"} /\ (pc'[s] = "wait" => task[s].action # "Update")
  BY <1>1 DEF TypeOK
<1>5. /\ Exists(s)'
      /\ \A t \in Stacks : Target(t)' = Target(t) /\ Target(t).template = release
  BY <1>1, <1>2, OperateKeeps DEF Target, Saved
<1>6. task[s].action = "Update" => cfn[s].now.template = task[s].give.template
  BY <1>2, <1>5 DEF TaskFits, DeployedInv, TemplatesKept
<1>7. RecordExactly'
  <2>1. (news' = news /\ cfn' = cfn) \/ news' = news \union {s}
    BY <1>2, OperateKeeps
  <2> QED BY <1>1, <1>3, <2>1 DEF DeployedInv, RecordExactly, ById, Exists
<1>8. Broke(s)' \/ Coming(s)' \/ (Whole(s)' /\ Current(s)')
  <2>1. CASE UNCHANGED <<cfn, news>>
    <3>1. ~Broke(s) /\ ~Coming(s) => Whole(s) /\ Current(s)
      <4> SUFFICES ASSUME ~Broke(s), ~Coming(s) PROVE Whole(s) /\ Current(s)
        OBVIOUS
      <4>1. Whole(s) /\ (Current(s) \/ Excused(s))
        BY DEF DeployedInv, StackKinds
      <4>2. CASE task[s].action = "Create"
        BY <1>1, <4>1, <4>2 DEF Excused
      <4>3. CASE task[s].action # "Create"
        <5>1. cfn[s].status \in Settled => cfn[s].now = task[s].give
          BY <1>2, <1>6, <2>1, <4>3, OperateMakes DEF Settled, Rollbacks
        <5> QED BY <1>2, <4>1, <5>1 DEF Whole, Settled, Current, TaskFits
      <4> QED BY <4>2, <4>3
    <3>2. /\ Broke(s)' <=> Broke(s)
          /\ Coming(s)' <=> Coming(s)
          /\ Whole(s)' <=> Whole(s)
          /\ Current(s)' <=> Current(s)
      BY <1>1, <1>5, <2>1 DEF Broke, Coming, Whole, Current
    <3> QED BY <3>1, <3>2
  <2>2. CASE ~UNCHANGED <<cfn, news>>
    <3>1. \/ cfn'[s].status = "CREATE_IN_PROGRESS" /\ cfn'[s].now = task[s].give
          \/ cfn'[s].status = "UPDATE_IN_PROGRESS" /\ cfn'[s].next = task[s].give
      BY <1>2, <1>6, <2>2, OperateMakes
    <3> QED BY <1>2, <1>5, <3>1 DEF Coming, TaskFits
  <2> QED BY <2>1, <2>2
<1>9. StackKinds'
  <2>1. ASSUME NEW t \in Stacks \ {s}
        PROVE  Broke(t)' \/ Coming(t)' \/ (Whole(t)' /\ (Current(t)' \/ Excused(t)'))
    <3>1. Broke(t) \/ Coming(t) \/ (Whole(t) /\ (Current(t) \/ Excused(t)))
      BY DEF DeployedInv, StackKinds
    <3>2. /\ Broke(t)' <=> Broke(t)
          /\ Coming(t)' <=> Coming(t)
          /\ Whole(t)' <=> Whole(t)
          /\ Current(t)' <=> Current(t)
      BY <1>1, <1>3, <1>5 DEF Broke, Coming, Whole, Current
    <3>3. Excused(t) => Excused(t)'
      BY <1>1, <1>3 DEF Excused
    <3> QED BY <3>1, <3>2, <3>3
  <2> QED BY <1>8, <2>1 DEF StackKinds
<1>10. TemplatesKept'
  <2>1. lastAction # "Upgrade" => cfn'[s].now.template = release
    <3>1. \/ cfn' = cfn /\ Exists(s)
          \/ cfn'[s].now = Target(s)
          \/ cfn'[s].now = cfn[s].now /\ Exists(s)
      BY <1>2, <1>6, OperateMakes DEF TaskFits
    <3> QED BY <1>5, <3>1 DEF DeployedInv, TemplatesKept
  <2> QED BY <1>1, <1>3, <2>1 DEF DeployedInv, TemplatesKept, Exists
<1>11. TasksFit'
  <2>1. \A t \in Stacks : Exists(t) => Exists(t)'
    BY <1>3, <1>5 DEF Exists
  <2>2. \A t \in Stacks : pc[t] = "done" => pc'[t] = "done"
    BY <1>1, <1>3
  <2>3. ASSUME NEW t \in Stacks PROVE TaskFits(t)'
    <3>1. TaskFits(t)
      BY <1>1 DEF DeployedInv, TasksFit
    <3>2. task[t].action = "Pass" => Whole(t)'
      BY <1>2, <1>3, <3>1 DEF TaskFits, Whole
    <3>3. pc'[t] # "wait" => Exists(t)' /\ \A u \in Before(t) : pc'[u] = "done"
      BY <1>1, <1>3, <1>5, <2>1, <2>2, <3>1, BeforeAfter DEF TaskFits
    <3> QED BY <1>1, <1>5, <2>1, <3>1, <3>2, <3>3 DEF TaskFits
  <2> QED BY <2>3 DEF TasksFit
<1>12. CreatedInOrder'
  <2>1. ASSUME NEW t \in Stacks, ~Exists(t)' \/ ToCreate(t)', NEW u \in After(t), Exists(u)'
        PROVE  FALSE
    <3>1. u \in Stacks /\ t \in Before(u)
      BY <2>1, BeforeAfter
    <3>2. ~Exists(t) \/ ToCreate(t)
      BY <1>1, <1>3, <1>5, <2>1 DEF ToCreate, Exists
    <3>3. ~Exists(u)
      BY <2>1, <3>2 DEF DeployedInv, CreatedInOrder
    <3>4. u = s
      BY <1>3, <2>1, <3>1, <3>3 DEF Exists
    <3>5. pc[t] = "done"
      BY <1>1, <3>1, <3>4
    <3>6. Exists(t)
      BY <1>1, <3>5 DEF DeployedInv, TasksFit, TaskFits
    <3> QED BY <3>2, <3>5, <3>6 DEF ToCreate
  <2> QED BY <2>1 DEF CreatedInOrder
<1>13. AllThere'
  BY <1>1 DEF AllThere
<1> QED BY <1>7, <1>9, <1>10, <1>11, <1>12, <1>13 DEF DeployedInv

\* A stack that is passed on, or has settled, is not waited for any more.
LEMMA DoneDeploys ==
  ASSUME TypeOK, DeployedInv, lastAction # "Delete", NEW s \in Stacks, Finished(s),
         phase = "running", Exists(s), \A t \in Before(s) : pc[t] = "done",
         task[s].action = "Pass" \/ pc[s] = "poll",
         UNCHANGED <<cfn, news, recordVars, phase, task>>
  PROVE  DeployedInv'
<1>1. \A t \in Stacks : pc'[t] = IF t = s THEN "done" ELSE pc[t]
  BY DEF Finished, TypeOK
<1>2. \A t \in Stacks : /\ Broke(t)' <=> Broke(t)
                        /\ Coming(t)' <=> Coming(t)
                        /\ Whole(t)' <=> Whole(t)
                        /\ Current(t)' <=> Current(t)
                        /\ Exists(t)' <=> Exists(t)
                        /\ Target(t)' = Target(t)
  BY DEF Broke, Coming, Whole, Current, Exists, Target
<1>3. \A t \in Stacks : Excused(t) => Excused(t)'
  BY <1>1 DEF Excused
<1>4. StackKinds'
  BY <1>2, <1>3 DEF DeployedInv, StackKinds
<1>5. RecordExactly' /\ TemplatesKept' /\ AllThere'
  BY DEF DeployedInv, RecordExactly, ById, TemplatesKept, AllThere, Exists
<1>6. CreatedInOrder'
  <2>1. \A t \in Stacks : ToCreate(t)' => ToCreate(t)
    BY <1>1 DEF ToCreate
  <2> QED BY <1>2, <2>1, BeforeAfter DEF DeployedInv, CreatedInOrder
<1>7. TasksFit'
  <2>1. ASSUME NEW t \in Stacks PROVE TaskFits(t)'
    <3>1. TaskFits(t)
      BY DEF DeployedInv, TasksFit
    <3>2. \A u \in Stacks : pc[u] = "done" => pc'[u] = "done"
      BY <1>1
    <3> QED BY <1>1, <1>2, <3>1, <3>2, BeforeAfter DEF TaskFits
  <2> QED BY <2>1 DEF TasksFit
<1> QED BY <1>4, <1>5, <1>6, <1>7 DEF DeployedInv

\* An execution fails at a stack that is broken, or that it was creating or
\* upgrading: what it has not reached will be found.
LEMMA AbortDeploys ==
  ASSUME TypeOK, DeployedInv, lastAction # "Delete", NEW s \in Stacks,
         phase = "running", Abort, UNCHANGED <<cfn, news, recordVars>>,
         pc[s] # "done",
         \/ pc[s] = "poll" /\ cfn[s].status \in Failures
         \/ /\ task[s].action \in {"Create", "Upgrade"}
            /\ \A t \in Before(s) : pc[t] = "done"
  PROVE  DeployedInv'
<1>1. phase' = "failed"
  BY DEF Abort
<1>2. \A t \in Stacks : /\ Broke(t)' <=> Broke(t)
                        /\ Coming(t)' <=> Coming(t)
                        /\ Whole(t)' <=> Whole(t)
                        /\ Current(t)' <=> Current(t)
                        /\ Exists(t)' <=> Exists(t)
  BY DEF Broke, Coming, Whole, Current, Exists, Target
<1>3. TaskFits(s)
  BY DEF DeployedInv, TasksFit
<1>4. ASSUME NEW t \in Stacks, Whole(t), Excused(t)
      PROVE  Excused(t)'
  <2>1. /\ lastAction # "Upgrade" /\ task[t].action = "Update" /\ pc[t] = "wait"
        /\ task[s].action # "Upgrade"
    BY <1>3, <1>4 DEF Excused, TaskFits
  <2>2. \A u \in Before(s) : pc[u] = "done"
    BY <1>3 DEF TaskFits
  <2>3. t # s
    BY <2>1
  <2>4. s \in Before(t)
    BY <1>4, <2>1, <2>2, <2>3 DEF RetriedTogether, Excused
  <2>5. Broke(s)
    <3>1. CASE pc[s] = "poll" /\ cfn[s].status \in Failures
      BY <3>1 DEF Broke
    <3>2. CASE task[s].action = "Create"
      <4>1. ~Exists(t)
        BY <2>4, <3>2, BeforeAfter DEF DeployedInv, CreatedInOrder, ToCreate
      <4> QED BY <1>4, <4>1, KindsApart DEF Whole, Exists
    <3> QED BY <2>1, <3>1, <3>2
  <2>6. Broke(s)'
    BY <1>2, <2>5
  <2> QED BY <1>1, <1>4, <2>1, <2>4, <2>6 DEF Excused, Before
<1>5. StackKinds'
  BY <1>2, <1>4 DEF DeployedInv, StackKinds
<1>6. RecordExactly' /\ TemplatesKept' /\ AllThere' /\ TasksFit'
  BY <1>1 DEF DeployedInv, RecordExactly, ById, TemplatesKept, AllThere, TasksFit, Exists
<1>7. CreatedInOrder'
  BY <1>1, <1>2, BeforeAfter DEF DeployedInv, CreatedInOrder, ToCreate
<1> QED BY <1>5, <1>6, <1>7 DEF DeployedInv

LEMMA StackStepDeploys ==
  ASSUME TypeOK, NothingLost, OutputsInv, DeployedInv, lastAction # "Delete",
         NEW s \in Stacks, StackStep(s)
  PROVE  DeployedInv'
<1>1. phase = "running" => TaskFits(s) /\ task[s].action # "Delete"
  BY DEF DeployedInv, TasksFit, OutputsInv, OnceDeleted
<1>2. CASE PassStack(s)
  <2>1. /\ phase = "running" /\ task[s].action = "Pass" /\ Finished(s)
        /\ \A t \in Before(s) : pc[t] = "done"
        /\ UNCHANGED <<cfn, news, recordVars, phase, task>>
    BY <1>2 DEF PassStack, Startable, Preceding
  <2>2. Exists(s)
    BY <1>1, <2>1, KindsApart DEF TaskFits, Whole, Exists
  <2> QED BY <2>1, <2>2, DoneDeploys
<1>3. CASE StartStack(s)
  BY <1>3, OperateDeploys DEF StartStack
<1>4. CASE StartAgain(s)
  BY <1>4, OperateDeploys DEF StartAgain, NothingLost
<1>5. CASE SkipDelete(s)
  BY <1>1, <1>5 DEF SkipDelete, Startable
<1>6. CASE SettleStack(s)
  <2>1. /\ phase = "running" /\ pc[s] = "poll"
        /\ UNCHANGED <<cfn, news, recordVars>>
    BY <1>6 DEF SettleStack
  <2>2. CASE cfn[s].status \in Failures
    BY <1>6, <2>1, <2>2, AbortDeploys DEF SettleStack
  <2>3. CASE cfn[s].status \notin Failures
    BY <1>1, <1>6, <2>1, <2>3, DoneDeploys DEF SettleStack, TaskFits
  <2> QED BY <2>2, <2>3
<1>7. CASE ActionFails(s)
  <2>1. Abort /\ UNCHANGED <<cfn, news, recordVars>>
    BY <1>7 DEF ActionFails
  <2>2. /\ phase = "running"
        /\ Startable(s) \/ pc[s] = "poll"
        /\ Refused(s) \/ task[s].action \in FailingCalls
    BY <1>7 DEF ActionFails, Refused, Startable
  <2>3. ~Refused(s)
    BY <1>1, <2>2 DEF Refused, TaskFits
  <2>4. task[s].action \in {"Create", "Upgrade"}
    BY <1>1, <2>2, <2>3 DEF NothingLost, TypeOK, Actions
  <2>5. pc[s] # "done" /\ \A t \in Before(s) : pc[t] = "done"
    BY <1>1, <2>2 DEF Startable, Preceding, TaskFits
  <2> QED BY <2>1, <2>2, <2>4, <2>5, AbortDeploys
<1>8. CASE HandleStackEvent(s)
  <2>1. /\ UNCHANGED <<cfn, want, release, result, lastAction, execVars>>
        /\ news' = news \ {s}
        /\ \A t \in Stacks : known'[t] = IF t = s THEN ById(s) ELSE known[t]
    BY <1>8 DEF HandleStackEvent, TypeOK
  <2>2. RecordExactly'
    BY <2>1 DEF DeployedInv, RecordExactly, ById, Exists
  <2>3. StackKinds'
    BY <2>1 DEF DeployedInv, StackKinds, Broke, Coming, Whole, Current, Excused, Target
  <2>4. TemplatesKept' /\ AllThere' /\ CreatedInOrder'
    BY <2>1 DEF DeployedInv, TemplatesKept, AllThere, CreatedInOrder, ToCreate, Exists
  <2>5. TasksFit'
    BY <2>1 DEF DeployedInv, TasksFit, TaskFits, Exists, Whole, Target
  <2> QED BY <2>2, <2>3, <2>4, <2>5 DEF DeployedInv
<1> QED BY <1>2, <1>3, <1>4, <1>5, <1>6, <1>7, <1>8 DEF StackStep

LEMMA CloudFormationDeploys ==
  ASSUME TypeOK, OutputsInv, DeployedInv, lastAction # "Delete",
         NEW s \in Stacks, CloudFormation(s)
  PROVE  DeployedInv'
<1>1. cfn[s].status \notin Deleting
  BY DEF OutputsInv, NotDeleted
<1>2. /\ \A t \in Stacks \ {s} : cfn'[t] = cfn[t]
      /\ news' = news \union {s}
      /\ UNCHANGED <<recordVars, execVars>>
      /\ Exists(s) /\ Exists(s)'
      /\ \A t \in Stacks : Target(t)' = Target(t) /\ Target(t).template = release
  BY <1>1, CloudFormationKeeps, CloudFormationMoves DEF Target, Saved
<1>3. \/ /\ Broke(s) \/ Coming(s)
         /\ Broke(s)'
         /\ cfn'[s].now = cfn[s].now
      \/ /\ Coming(s)
         /\ Whole(s)'
         /\ cfn'[s].now = Target(s)
  <2>1. Broke(s) \/ Coming(s) \/ Whole(s)
    BY DEF DeployedInv, StackKinds
  <2>2. "CREATE_IN_PROGRESS" \in InProgress /\ "UPDATE_IN_PROGRESS" \in InProgress
    BY DEF InProgress
  <2>3. CASE cfn[s].status \in {"CREATE_IN_PROGRESS", "UPDATE_IN_PROGRESS"}
    <3>1. Coming(s)
      BY <2>1, <2>2, <2>3, KindsApart DEF Broke, Whole
    <3> QED BY <1>1, <2>3, <3>1, CloudFormationMakes
            DEF Coming, Whole, Broke, Failures, Rollbacks
  <2>4. CASE cfn[s].status = "UPDATE_ROLLBACK_FAILED"
    BY <1>1, <2>4, CloudFormationMakes DEF Broke, Failures, Rollbacks
  <2> QED BY <1>1, <2>3, <2>4, CloudFormationMakes
<1>4. RecordExactly'
  BY <1>2 DEF DeployedInv, RecordExactly, ById, Exists
<1>5. \A t \in Stacks : Exists(t)' <=> Exists(t)
  BY <1>2 DEF Exists
<1>6. \A t \in Stacks : Broke(t) => Broke(t)'
  <2>1. Broke(s) => Broke(s)'
    <3>1. Broke(s) => ~Coming(s)
      BY KindsApart DEF Broke, Coming, InProgress
    <3> QED BY <1>3, <3>1
  <2> QED BY <1>2, <2>1 DEF Broke
<1>7. StackKinds'
  <2>1. \A t \in Stacks : Excused(t) => Excused(t)'
    BY <1>2, <1>6, BeforeAfter DEF Excused
  <2>2. \A t \in Stacks \ {s} : /\ Broke(t)' <=> Broke(t)
                                /\ Coming(t)' <=> Coming(t)
                                /\ Whole(t)' <=> Whole(t)
                                /\ Current(t)' <=> Current(t)
    BY <1>2 DEF Broke, Coming, Whole, Current
  <2>3. Broke(s)' \/ (Whole(s)' /\ Current(s)')
    BY <1>2, <1>3 DEF Current
  <2> QED BY <2>1, <2>2, <2>3 DEF DeployedInv, StackKinds
<1>8. TemplatesKept'
  <2>1. lastAction # "Upgrade" => cfn'[s].now.template = release
    BY <1>2, <1>3 DEF DeployedInv, TemplatesKept
  <2> QED BY <1>2, <2>1 DEF DeployedInv, TemplatesKept, Exists
<1>9. CreatedInOrder' /\ AllThere'
  BY <1>2, <1>5, BeforeAfter DEF DeployedInv, CreatedInOrder, ToCreate, AllThere
<1>10. TasksFit'
  <2>1. \A t \in Stacks : Whole(t) => Whole(t)'
    <3>1. ~Whole(s)
      BY <1>3, KindsApart DEF Whole, Broke, Coming, InProgress
    <3> QED BY <1>2, <3>1 DEF Whole
  <2> QED BY <1>2, <1>5, <2>1 DEF DeployedInv, TasksFit, TaskFits
<1> QED BY <1>4, <1>7, <1>8, <1>9, <1>10 DEF DeployedInv

LEMMA EndDeploys ==
  ASSUME NothingLost, OutputsInv, DeployedInv, lastAction # "Delete",
         EndExecution \/ \E unseen \in SUBSET Unseen : HandleStateEvent(unseen)
  PROVE  DeployedInv'
<1>0. Unseen = {}
  BY DEF NothingLost, Unseen
<1>1. /\ UNCHANGED <<cfn, news, want, release, lastAction, task, pc>>
      /\ phase' # "running"
  BY <1>0 DEF EndExecution, HandleStateEvent
<1>2. RecordExactly'
  <2>1. CASE EndExecution
    BY <1>1, <2>1 DEF EndExecution, DeployedInv, RecordExactly, ById, Exists
  <2>2. CASE HandleStateEvent({})
    <3>1. \A s \in Stacks : cfn[s].status \notin Deleting
      BY DEF OutputsInv, NotDeleted
    <3>2. \A s \in Stacks : ByName(s, {}) = ById(s)
      BY <3>1 DEF ByName, ById, Exists, Removed, Deleting
    <3> QED BY <1>1, <2>2, <3>2 DEF HandleStateEvent, RecordExactly, ById, Exists
  <2> QED BY <1>0, <2>1, <2>2
<1>3. StackKinds'
  <2>1. \A s \in Stacks : /\ Broke(s)' <=> Broke(s)
                          /\ Coming(s)' <=> Coming(s)
                          /\ Whole(s)' <=> Whole(s)
                          /\ Current(s)' <=> Current(s)
    BY <1>1 DEF Broke, Coming, Whole, Current, Target
  <2>2. \A s \in Stacks : Excused(s) => Excused(s)'
    BY <1>0, <1>1, <2>1, BeforeAfter DEF EndExecution, HandleStateEvent, Excused, Before
  <2> QED BY <2>1, <2>2 DEF DeployedInv, StackKinds
<1>4. TemplatesKept' /\ CreatedInOrder' /\ TasksFit'
  BY <1>1 DEF DeployedInv, TemplatesKept, CreatedInOrder, ToCreate, TasksFit, Exists
<1>5. AllThere'
  <2>1. CASE EndExecution
    BY <1>1, <2>1 DEF EndExecution, DeployedInv, TasksFit, TaskFits, AllThere, Exists
  <2>2. CASE HandleStateEvent({})
    BY <1>1, <2>2 DEF HandleStateEvent, DeployedInv, AllThere, Exists
  <2> QED BY <1>0, <2>1, <2>2
<1> QED BY <1>1, <1>2, <1>3, <1>4, <1>5 DEF DeployedInv

\* When the status is Active, every stack has the parameters, the template and
\* the tags of the saved workflow, if requests wait for what is in progress and
\* retry what failed, no call of an update, or on a stack passed on the way to
\* one, fails for good, no describe or read for the outputs or for the record fails,
\* and either the stacks of the pipeline are one line of
\* which a retry takes up all that comes after a broken one, or the pipeline,
\* whatever its stacks, is only created and retried.
THEOREM ActiveIsDeployed ==
  ASSUME NothingLost, RetriedTogether \/ CreatedOnly PROVE Spec => []ActiveMeansDeployed
<1>1. Careful
  BY DEF Careful, NothingLost
<1>2. Init => DeployedInv
  <2> SUFFICES ASSUME Init PROVE DeployedInv
    OBVIOUS
  <2>1. \A s \in Stacks : cfn[s].status = "NONE" /\ ~Exists(s) /\ Broke(s)
    BY DEF Init, NoStack, Exists, Removed, Broke
  <2>2. RecordExactly
    BY <2>1 DEF Init, RecordExactly, ById
  <2>3. TasksFit
    BY DEF Init, TasksFit, TaskFits, Target, Saved, Blank
  <2> QED BY <2>1, <2>2, <2>3, BeforeAfter
          DEF Init, DeployedInv, StackKinds, TemplatesKept, CreatedInOrder, AllThere
<1>3. TypeOK /\ OutputsInv /\ DeployedInv /\ [Next]_vars => DeployedInv'
  <2> SUFFICES ASSUME TypeOK, OutputsInv, DeployedInv, [Next]_vars PROVE DeployedInv'
    OBVIOUS
  <2>1. CASE UNCHANGED vars
    BY <2>1 DEF vars, DeployedInv, RecordExactly, StackKinds, TemplatesKept, CreatedInOrder,
                TasksFit, TaskFits, AllThere, Broke, Coming, Whole, Current, Excused, ToCreate,
                Target, ById, Exists
  <2>2. CASE UpdateRequest \/ AppRequest \/ UpgradeRequest \/ DeleteRequest \/ RetryRequest
    BY <2>2, RequestDeploys
  <2>3. CASE lastAction = "Delete" /\ UNCHANGED lastAction
    BY <2>3 DEF DeployedInv
  <2>4. CASE EndExecution \/ \E unseen \in SUBSET Unseen : HandleStateEvent(unseen)
    BY <2>3, <2>4, EndDeploys DEF EndExecution, HandleStateEvent
  <2>5. ASSUME NEW s \in Stacks, StackStep(s) PROVE DeployedInv'
    <3>1. UNCHANGED lastAction
      BY <2>5 DEF StackStep, PassStack, StartStack, StartAgain, Operate, SkipDelete,
                  SettleStack, ActionFails, HandleStackEvent
    <3> QED BY <2>3, <2>5, <3>1, StackStepDeploys
  <2>6. ASSUME NEW s \in Stacks, CloudFormation(s) PROVE DeployedInv'
    BY <2>3, <2>6, CloudFormationMoves, CloudFormationDeploys
  <2> QED BY <2>1, <2>2, <2>4, <2>5, <2>6 DEF Next
<1>4. TypeOK /\ OutputsInv /\ DeployedInv => ActiveMeansDeployed
  <2> SUFFICES ASSUME TypeOK, OutputsInv, DeployedInv, Quiet, PipelineStatus = "Active",
                      NEW s \in Stacks
               PROVE  UpToDate(s)
    BY DEF ActiveMeansDeployed
  <2>1. lastAction # "Delete"
    <3>1. result = "SUCCEEDED"
      BY DEF PipelineStatus, Failed, RunningStatus, TypeOK
    <3> QED BY <3>1 DEF OutputsInv, OnceDeleted, Quiet
  <2> QED BY <2>1, ActiveIsWhole DEF Quiet, UpToDate, Target, OutputsInv
<1> QED BY <1>1, <1>2, <1>3, <1>4, OutputsInvariance, StacksTypeCorrect, PTL DEF Spec
=============================================================================
