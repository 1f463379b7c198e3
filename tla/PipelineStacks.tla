--------------------------- MODULE PipelineStacks ---------------------------
(***************************************************************************)
(* How the control plane deploys a data pipeline: the requests of the      *)
(* users build a workflow of CloudFormation stacks (CPipeline and          *)
(* StackManager), one execution of the stack workflow state machine runs   *)
(* it, with one execution of the stack action state machine per stack, and *)
(* two listeners keep the record of the pipeline up to date.               *)
(*                                                                         *)
(* CloudFormation and Step Functions are modelled as the code uses them.   *)
(* A request and a listener are one step each: their interleavings are the *)
(* subject of PipelineRecord.                                              *)
(***************************************************************************)
EXTENDS Naturals

CONSTANTS
  Stacks,       \* types of the stacks of the pipeline
  Requests,     \* kinds of requests the users make
  MaxEdits,     \* bound: changes of parameters
  Patient,      \* TRUE: no request while a stack is in progress or its event is on its way
  Orderly,      \* TRUE: what failed is retried before anything else is asked for
  FailingCalls, \* actions with calls that may fail for good, time out or be repeated
  Swallowed     \* calls that may fail and whose failure the code takes for an empty answer:
                \* "Action", "Pass": describe of sfn-action, of sfn-workflow for a stack passed on;
                \* "Read": output.json read by sfn-workflow; "Record": describes for the record

StackTypes == {"Ingestion", "KafkaConnector", "DataProcessing", "Athena",
               "DataModelingRedshift", "DataModelingS3Tables", "Reporting", "Metrics"}

ASSUME StacksAssumption ==
  /\ Stacks \subseteq StackTypes
  /\ Requests \subseteq {"Update", "App", "Upgrade", "Delete", "Retry"}
  /\ MaxEdits \in Nat
  /\ Patient \in BOOLEAN
  /\ Orderly \in BOOLEAN
  /\ FailingCalls \subseteq {"Pass", "Create", "Update", "Upgrade", "Delete"}
  /\ Swallowed \subseteq {"Action", "Pass", "Read", "Record"}

VARIABLES
  cfn,        \* stacks in CloudFormation
  news,       \* stacks with a status change event not handled yet
  want,       \* saved workflow: parameters of each stack
  release,    \* record: templateVersion, 0 or (upgraded) 1
  known,      \* record: stackDetails, status and version tag of each stack
  result,     \* record: executionDetail.status
  lastAction, \* record: lastAction
  phase,      \* execution of the workflow; ended, its event is still to be handled
  task,       \* execution: action of each stack, and what it asks for
  pc,         \* execution: progress of each stack
  outputs,    \* execution: stacks whose output.json has outputs
  blind,      \* history: stacks given parameters from outputs that were not there
  gone        \* record: the project is deleted

recordVars == <<want, release, known, result, lastAction, gone>>
execVars   == <<phase, task, pc, outputs, blind>>
vars == <<cfn, news, recordVars, execVars>>

-----------------------------------------------------------------------------
(* The workflow: branches run in parallel, the stacks of a branch in order. *)

Branch == [s \in StackTypes |->
            CASE s \in {"Ingestion", "KafkaConnector"} -> "Ingestion"
              [] s = "Metrics" -> "Metrics"
              [] OTHER -> "DataProcessing"]

Place == [s \in StackTypes |->
           CASE s \in {"Ingestion", "DataProcessing", "Metrics"} -> 1
             [] s \in {"KafkaConnector", "Athena"} -> 2
             [] s \in {"DataModelingRedshift", "DataModelingS3Tables"} -> 3
             [] s = "Reporting" -> 4]

Before(s) == {t \in Stacks : Branch[t] = Branch[s] /\ Place[t] < Place[s]}
After(s)  == {t \in Stacks : Branch[t] = Branch[s] /\ Place[t] > Place[s]}

\* Stacks whose outputs the parameters of s refer to (#.stack.output).
Needs(s) == Stacks \intersect
  CASE s \in {"Athena", "DataModelingRedshift"} -> {"DataProcessing"}
    [] s = "Reporting" -> {"DataModelingRedshift"}
    [] OTHER -> {}

\* Stacks whose parameters change with the applications of the project.
AppStacks == Stacks \intersect
  {"Ingestion", "DataProcessing", "DataModelingRedshift", "Reporting"}

\* Mutant: a retry takes up the broken stacks alone.
NoDependents(s) == {}

\* Stacks a retry runs again with s.
Dependents(s) == Stacks \intersect
  CASE s = "Ingestion" -> {"KafkaConnector"}
    [] s = "DataProcessing" -> {"Athena", "DataModelingRedshift", "Reporting"}
    [] s \in {"Athena", "DataModelingRedshift"} -> {"Reporting"}
    [] OTHER -> {}

-----------------------------------------------------------------------------
(* Stacks.                                                                  *)

Failures   == {"CREATE_FAILED", "UPDATE_FAILED", "UPDATE_ROLLBACK_FAILED", "DELETE_FAILED"}
Rollbacks  == {"UPDATE_ROLLBACK_COMPLETE"}
InProgress == {"CREATE_IN_PROGRESS", "UPDATE_IN_PROGRESS", "DELETE_IN_PROGRESS"}
Complete   == {"CREATE_COMPLETE", "UPDATE_COMPLETE", "DELETE_COMPLETE"} \union Rollbacks
StackStatus == {"NONE"} \union Failures \union InProgress \union Complete

Removed == {"NONE", "DELETE_COMPLETE"}

\* What a stack is made from: its parameters, its template and its version tag.
Content == [params : 0..MaxEdits, template : {0, 1}, tag : {0, 1}]
Blank   == [params |-> 0, template |-> 0, tag |-> 0]
NoStack == [status |-> "NONE", now |-> Blank, next |-> Blank, keep |-> FALSE]

Exists(s) == cfn[s].status \notin Removed
Busy(s)   == cfn[s].status \in InProgress

\* What DescribeStacks shows.
ById(s) == [status |-> cfn[s].status, tag |-> IF Exists(s) THEN cfn[s].now.tag ELSE 0]

\* By name a deleted stack is not found, nor is one whose describe fails.
ByName(s, unseen) ==
  IF Exists(s) /\ s \notin unseen THEN ById(s) ELSE [status |-> "NONE", tag |-> 0]

\* Stacks whose describe may fail when the record is written.
Unseen == IF "Record" \in Swallowed THEN Stacks ELSE {}

\* Whether a call that the code swallows works.
Works(call) == IF call \in Swallowed THEN BOOLEAN ELSE {TRUE}

-----------------------------------------------------------------------------
(* Status of the pipeline, derived from its record.                         *)

Actions == {"Pass", "Create", "Update", "Upgrade", "Delete"}
NoTask  == [action |-> "Pass", give |-> Blank]

HasTag(s) == known[s].status \notin Removed

SomeKnown(S) == \E s \in Stacks : known[s].status \in S

\* A stack of another version than the record's.
OtherVersion(s) == HasTag(s) /\ known[s].tag # release

StatusFromStacks ==
  CASE SomeKnown(Failures) -> "FAILED"
    [] SomeKnown(Rollbacks) /\ ~SomeKnown(Failures) -> "ROLLBACK_COMPLETE"
    [] SomeKnown(InProgress) /\ ~SomeKnown(Failures \union Rollbacks) -> "IN_PROGRESS"
    [] OTHER ->
         IF \A s \in Stacks : known[s].status = "DELETE_COMPLETE" THEN "DELETE_COMPLETE"
         ELSE IF \E s \in Stacks : OtherVersion(s) THEN "INCONSISTENT_VERSION"
         ELSE "COMPLETE"

Failed == IF lastAction \in {"Update", "Upgrade"} THEN "Warning" ELSE "Failed"

RunningStatus == CASE lastAction = "Create" -> "Creating"
                   [] lastAction = "Delete" -> "Deleting"
                   [] OTHER -> "Updating"

PipelineStatus ==
  IF result = "FAILED" THEN Failed
  ELSE IF result = "RUNNING" \/ StatusFromStacks = "IN_PROGRESS" THEN RunningStatus
  ELSE CASE StatusFromStacks \in {"FAILED", "ROLLBACK_COMPLETE"} -> Failed
         [] StatusFromStacks = "DELETE_COMPLETE" -> "Deleted"
         [] StatusFromStacks = "INCONSISTENT_VERSION" -> "Warning"
         [] OTHER -> "Active"

-----------------------------------------------------------------------------
TypeOK ==
  /\ cfn \in [Stacks -> [status : StackStatus, now : Content, next : Content, keep : BOOLEAN]]
  /\ news \in SUBSET Stacks
  /\ want \in [Stacks -> 0..MaxEdits]
  /\ release \in {0, 1}
  /\ known \in [Stacks -> [status : StackStatus, tag : {0, 1}]]
  /\ result \in {"RUNNING", "SUCCEEDED", "FAILED"}
  /\ lastAction \in {"Create", "Update", "Upgrade", "Delete"}
  /\ phase \in {"idle", "running", "succeeded", "failed"}
  /\ task \in [Stacks -> [action : Actions, give : Content]]
  /\ pc \in [Stacks -> {"wait", "poll", "done"}]
  /\ outputs \in SUBSET Stacks
  /\ blind \in SUBSET Stacks
  /\ gone \in BOOLEAN

\* The saved workflow creates each stack from the release of the record.
Saved(s, r, w) == [params |-> w[s], template |-> r, tag |-> r]

\* CPipeline.create: the rules, the execution, the record.
Init ==
  /\ cfn = [s \in Stacks |-> NoStack]
  /\ news = {}
  /\ want = [s \in Stacks |-> 0]
  /\ release = 0
  /\ known = [s \in Stacks |-> [status |-> "NONE", tag |-> 0]]
  /\ result = "RUNNING"
  /\ lastAction = "Create"
  /\ phase = "running"
  /\ task = [s \in Stacks |-> [action |-> "Create", give |-> Blank]]
  /\ pc = [s \in Stacks |-> "wait"]
  /\ outputs = {}
  /\ blind = {}
  /\ gone = FALSE

-----------------------------------------------------------------------------
(* Requests.  Each is refused unless the status of the record allows it,    *)
(* starts an execution of the workflow it builds, and saves the record.     *)

MayAsk(request, statuses) ==
  /\ request \in Requests
  /\ ~gone
  /\ PipelineStatus \in statuses
  /\ Patient => news = {} /\ \A s \in Stacks : ~Busy(s)
  /\ Orderly => request \in {"Retry", "Delete"} \/ PipelineStatus = "Active"

\* The execution of a workflow; what it gives to a stack is in its input.  It starts without
\* outputs; those that updateApp may find under the prefix of the execution before are the same.
Execute(plan, w, r) ==
  /\ phase = "idle"
  /\ phase' = "running"
  /\ task' = [s \in Stacks |-> [action |-> plan[s], give |-> Saved(s, r, w)]]
  /\ pc' = [s \in Stacks |-> "wait"]
  /\ outputs' = {}
  /\ result' = "RUNNING"
  /\ want' = w
  /\ release' = r

\* getStackStatusByName: a stack of another version counts as failed.
StatusByName(s) == IF OtherVersion(s) THEN "UPDATE_FAILED" ELSE known[s].status

Edits(S) == [s \in Stacks |-> IF s \in S THEN want[s] + 1 ELSE want[s]]

\* CPipeline.update: parameters of the stacks S are edited, or only the tags.
UpdatePlan(S, tags) ==
  [s \in Stacks |->
    LET status == StatusByName(s)
    IN  IF tags THEN "Update"
        ELSE CASE status \in Failures -> "Update"
               [] status \in InProgress -> "Pass"
               [] status \in Complete -> IF s \in S THEN "Update" ELSE "Pass"
               [] OTHER -> IF s \in S THEN "Update" ELSE "Create"]

Final == {"Active", "Failed", "Warning"}

UpdateRequest ==
  /\ MayAsk("Update", Final \union {"Deleted"})
  /\ \E S \in SUBSET Stacks, tags \in BOOLEAN :
       /\ \A s \in S : want[s] < MaxEdits
       /\ S # {} \/ tags
       /\ Execute(UpdatePlan(S, tags), Edits(S), release)
  /\ lastAction' = "Update"
  /\ UNCHANGED <<cfn, news, known, blind, gone>>

\* CPipeline.updateApp: an application is added or deleted.
AppRequest ==
  /\ MayAsk("App", Final \union {"Deleted"})
  /\ \A s \in AppStacks : want[s] < MaxEdits
  /\ Execute([s \in Stacks |-> IF s \in AppStacks THEN "Update" ELSE "Pass"],
             Edits(AppStacks), release)
  /\ lastAction' = "Update"
  /\ UNCHANGED <<cfn, news, known, blind, gone>>

\* CPipeline.upgrade, to the release of the control plane.
UpgradeRequest ==
  /\ MayAsk("Upgrade", {"Active"})
  /\ release = 0
  /\ Execute([s \in Stacks |-> "Upgrade"], want, 1)
  /\ lastAction' = "Upgrade"
  /\ UNCHANGED <<cfn, news, known, blind, gone>>

\* CPipeline.delete, called by the deletion of the project.
Delete ==
  /\ Execute([s \in Stacks |-> "Delete"], want, release)
  /\ \E unseen \in SUBSET Unseen : known' = [s \in Stacks |-> ByName(s, unseen)]
  /\ lastAction' = "Delete"
  /\ UNCHANGED <<cfn, news, blind, gone>>

DeleteRequest == MayAsk("Delete", Final) /\ Delete

Broken(s) == known[s].status \in {"NONE"} \union Failures \union Rollbacks

\* _getRetryStackNames.
RetryStacks == {s \in Stacks : Broken(s) \/ \E t \in Stacks : Broken(t) /\ s \in Dependents(t)}

\* Mutant: the action table has no entry for a stack that is complete.
NoEntry(s) == IF StatusByName(s) \in Failures THEN "Update"
              ELSE IF StatusByName(s) \in Complete THEN "" ELSE "Create"

\* Mutant: a stack that failed is created again.
CreateAgain(s) == IF StatusByName(s) \in Complete THEN "Update" ELSE "Create"

\* _getRetryAction.
RetryAction(s) ==
  CASE lastAction = "Upgrade" ->
         IF StatusByName(s) \in Failures \union Complete THEN "Upgrade" ELSE "Create"
    [] OTHER ->
         IF StatusByName(s) \in Failures \union Complete THEN "Update" ELSE "Create"

\* CPipeline.retry.
RetryRequest ==
  /\ MayAsk("Retry", {"Failed", "Warning"})
  /\ IF lastAction = "Delete" THEN Delete
     ELSE /\ Execute([s \in Stacks |-> IF s \in RetryStacks THEN RetryAction(s) ELSE "Pass"],
                     want, release)
          /\ UNCHANGED <<cfn, news, known, lastAction, blind, gone>>

-----------------------------------------------------------------------------
(* An execution of the stack workflow.  The deletion of a branch runs its   *)
(* stacks in the reverse order.  Step Functions stops the other branches    *)
(* when one fails; what CloudFormation has begun goes on.                   *)

Preceding(s) == IF lastAction = "Delete" THEN After(s) ELSE Before(s)

Startable(s) ==
  /\ phase = "running"
  /\ pc[s] = "wait"
  /\ \A t \in Preceding(s) : pc[t] = "done"

Finished(s) == pc' = [pc EXCEPT ![s] = "done"]

HasOutputs(s) == Exists(s) /\ cfn[s].status \notin {"CREATE_IN_PROGRESS", "CREATE_FAILED"}

WriteOutputs(s) == outputs' = IF HasOutputs(s) THEN outputs \union {s} ELSE outputs

\* The execution ends with a failure, whatever its other branches do.
Abort ==
  /\ phase' = "failed"
  /\ pc' = [s \in Stacks |-> "wait"]
  /\ outputs' = {}
  /\ UNCHANGED task

\* sfn-workflow: a Pass state describes its stack for the stacks after it; without an
\* answer it goes on, and output.json is empty.
PassStack(s) ==
  /\ Startable(s)
  /\ task[s].action = "Pass"
  /\ \E found \in Works("Pass") : IF found THEN WriteOutputs(s) ELSE UNCHANGED outputs
  /\ Finished(s)
  /\ UNCHANGED <<cfn, news, recordVars, phase, task, blind>>

Begin(s, stack) ==
  /\ cfn' = [cfn EXCEPT ![s] = stack]
  /\ news' = news \union {s}

Settled == {"CREATE_COMPLETE", "UPDATE_COMPLETE"} \union Rollbacks
Partial == {"CREATE_FAILED", "UPDATE_FAILED"}

\* sfn-action: createStack.  A stack that is there already is described.
CreateStack(s) ==
  /\ task[s].action = "Create"
  /\ IF Exists(s) THEN UNCHANGED <<cfn, news>>
     ELSE Begin(s, [status |-> "CREATE_IN_PROGRESS", now |-> task[s].give,
                    next |-> task[s].give, keep |-> TRUE])

\* sfn-action: updateStack, upgradeStack and doUpdate.  An update keeps the
\* template; an update that changes nothing and a stack that cannot be updated
\* are not errors; a stack left half made is updated with rollback disabled.
UpdateStack(s) ==
  /\ task[s].action \in {"Update", "Upgrade"}
  /\ Exists(s)
  /\ LET give == IF task[s].action = "Upgrade" THEN task[s].give
                 ELSE [task[s].give EXCEPT !.template = cfn[s].now.template]
         idle == \/ cfn[s].status \notin Settled \union Partial
                 \/ cfn[s].status \in Settled /\ give = cfn[s].now
     IN  IF idle THEN UNCHANGED <<cfn, news>>
         ELSE Begin(s, [status |-> "UPDATE_IN_PROGRESS", now |-> cfn[s].now, next |-> give,
                        keep |-> cfn[s].status \in Partial])

\* sfn-action: deleteStack.  A stack being deleted is described.
DeleteStack(s) ==
  /\ task[s].action = "Delete"
  /\ Exists(s)
  /\ cfn[s].status # "UPDATE_IN_PROGRESS"
  /\ IF cfn[s].status = "DELETE_IN_PROGRESS" THEN UNCHANGED <<cfn, news>>
     ELSE Begin(s, [cfn[s] EXCEPT !.status = "DELETE_IN_PROGRESS"])

\* What cannot be read is as if it was not there.
Readable == {IF read THEN outputs ELSE {} : read \in Works("Read")}

Operate(s) ==
  /\ Startable(s)
  /\ CreateStack(s) \/ UpdateStack(s) \/ DeleteStack(s)
  /\ \E found \in Readable :
       blind' = IF task[s].action # "Delete" /\ ~(Needs(s) \subseteq found)
                THEN blind \union {s} ELSE blind
  /\ UNCHANGED <<recordVars, phase, task, outputs>>

\* Mutant: an action does not wait for the end of what it started.
StartAndGo(s) == Operate(s) /\ Finished(s)

\* The parameters are resolved from the outputs, then the action is executed.
StartStack(s) == Operate(s) /\ pc' = [pc EXCEPT ![s] = "poll"]

\* The answer of the lambda is lost: it is invoked again.
StartAgain(s) == task[s].action \in FailingCalls /\ Operate(s) /\ UNCHANGED pc

\* sfn-action: deleteStack, when describe finds no stack or fails.
SkipDelete(s) ==
  /\ Startable(s)
  /\ task[s].action = "Delete"
  /\ Exists(s) => "Action" \in Swallowed
  /\ Finished(s)
  /\ UNCHANGED <<cfn, news, recordVars, phase, task, outputs, blind>>

\* Describe Stack until the stack is stable, then the callback.
SettleStack(s) ==
  /\ phase = "running"
  /\ pc[s] = "poll"
  /\ ~Busy(s)
  /\ IF cfn[s].status \in Failures THEN Abort
     ELSE Finished(s) /\ WriteOutputs(s) /\ UNCHANGED <<phase, task>>
  /\ UNCHANGED <<cfn, news, recordVars, blind>>

\* CloudFormation refuses to update no stack, or to delete one being updated.
Refused(s) ==
  /\ Startable(s)
  /\ \/ task[s].action \in {"Update", "Upgrade"} /\ ~Exists(s)
     \/ task[s].action = "Delete" /\ cfn[s].status = "UPDATE_IN_PROGRESS"

\* A call is refused, fails for good, or the action times out.
ActionFails(s) ==
  /\ \/ Refused(s)
     \/ /\ task[s].action \in FailingCalls
        /\ Startable(s) \/ (phase = "running" /\ pc[s] = "poll")
  /\ Abort
  /\ UNCHANGED <<cfn, news, recordVars, blind>>

EndExecution ==
  /\ phase = "running"
  /\ \A s \in Stacks : pc[s] = "done"
  /\ phase' = "succeeded"
  /\ UNCHANGED <<cfn, news, recordVars, task, pc, outputs, blind>>

-----------------------------------------------------------------------------
(* The listeners.                                                           *)

\* listen-stack-status: the stack is described when its event is handled.
HandleStackEvent(s) ==
  /\ s \in news
  /\ ~gone
  /\ news' = news \ {s}
  /\ known' = [known EXCEPT ![s] = ById(s)]
  /\ UNCHANGED <<cfn, want, release, result, lastAction, gone, execVars>>

\* Mutant: the project is deleted when a deletion ends, even with a failure.
HandleAnyEnd(unseen) ==
  /\ phase \in {"succeeded", "failed"}
  /\ ~gone
  /\ result' = IF phase = "succeeded" THEN "SUCCEEDED" ELSE "FAILED"
  /\ known' = [s \in Stacks |-> ByName(s, unseen)]
  /\ gone' = (lastAction = "Delete")
  /\ phase' = "idle"
  /\ UNCHANGED <<cfn, news, want, release, lastAction, task, pc, outputs, blind>>

\* listen-state-status: the end of an execution.  All stacks are described by name.
HandleStateEvent(unseen) ==
  /\ phase \in {"succeeded", "failed"}
  /\ ~gone
  /\ result' = IF phase = "succeeded" THEN "SUCCEEDED" ELSE "FAILED"
  /\ known' = [s \in Stacks |-> ByName(s, unseen)]
  /\ gone' = (phase = "succeeded" /\ lastAction = "Delete")
  /\ phase' = "idle"
  /\ UNCHANGED <<cfn, news, want, release, lastAction, task, pc, outputs, blind>>

-----------------------------------------------------------------------------
(* CloudFormation.                                                          *)

Becomes(s, stack) ==
  /\ cfn' = [cfn EXCEPT ![s] = stack]
  /\ news' = news \union {s}
  /\ UNCHANGED <<recordVars, execVars>>

StackSucceeds(s) ==
  \/ /\ cfn[s].status = "CREATE_IN_PROGRESS"
     /\ Becomes(s, [cfn[s] EXCEPT !.status = "CREATE_COMPLETE", !.keep = FALSE])
  \/ /\ cfn[s].status = "UPDATE_IN_PROGRESS"
     /\ Becomes(s, [cfn[s] EXCEPT !.status = "UPDATE_COMPLETE", !.now = cfn[s].next, !.keep = FALSE])
  \/ /\ cfn[s].status = "DELETE_IN_PROGRESS"
     /\ Becomes(s, [NoStack EXCEPT !.status = "DELETE_COMPLETE"])

\* Without rollback the failed stack is kept as it is.
StackFails(s) ==
  \/ /\ cfn[s].status = "CREATE_IN_PROGRESS"
     /\ Becomes(s, [cfn[s] EXCEPT !.status = "CREATE_FAILED"])
  \/ /\ cfn[s].status = "UPDATE_IN_PROGRESS"
     /\ \E status \in IF cfn[s].keep THEN {"UPDATE_FAILED"}
                      ELSE {"UPDATE_ROLLBACK_COMPLETE", "UPDATE_ROLLBACK_FAILED"} :
          Becomes(s, [cfn[s] EXCEPT !.status = status, !.next = cfn[s].now])
  \/ /\ cfn[s].status = "DELETE_IN_PROGRESS"
     /\ Becomes(s, [cfn[s] EXCEPT !.status = "DELETE_FAILED"])

\* An operator continues the rollback in the console.
ContinueRollback(s) ==
  /\ cfn[s].status = "UPDATE_ROLLBACK_FAILED"
  /\ Becomes(s, [cfn[s] EXCEPT !.status = "UPDATE_ROLLBACK_COMPLETE"])

-----------------------------------------------------------------------------
StackStep(s) == \/ PassStack(s) \/ StartStack(s) \/ StartAgain(s) \/ SkipDelete(s)
                \/ SettleStack(s) \/ ActionFails(s) \/ HandleStackEvent(s)

CloudFormation(s) == StackSucceeds(s) \/ StackFails(s) \/ ContinueRollback(s)

Next == \/ UpdateRequest \/ AppRequest \/ UpgradeRequest \/ DeleteRequest \/ RetryRequest
        \/ EndExecution \/ \E unseen \in SUBSET Unseen : HandleStateEvent(unseen)
        \/ \E s \in Stacks : StackStep(s) \/ CloudFormation(s)

Spec == Init /\ [][Next]_vars

-----------------------------------------------------------------------------
(* Properties.                                                              *)

\* A stack never gets parameters from the outputs of a stack that has none,
\* whatever was left half made before, and whatever the record misses of a
\* stack that was not found, as long as nobody asks for anything while a stack
\* is in progress (a PASS state would describe it too early), or edits a
\* pipeline whose deletion failed (a deleted stack is DELETE_COMPLETE, which an
\* update passes on), and sfn-workflow can describe the stacks it passes on and
\* read the outputs: with an error in either it goes on with empty parameters.
NeverBlind ==
  Patient /\ (Orderly \/ "Delete" \notin Requests) /\ Swallowed \subseteq {"Action", "Record"} =>
    blind = {}

\* A stack is deleted only when no stack after it is left: its outputs are in
\* use as long as there is one.
DeletedInOrder ==
  \A s \in Stacks : cfn[s].status = "DELETE_IN_PROGRESS" => \A t \in After(s) : ~Exists(t)

\* The project is marked as deleted only when all of its stacks are.
NothingLeftBehind == gone => \A s \in Stacks : ~Exists(s)

\* What a deletion has done so far, in every state of its execution: the
\* inductive invariant behind NothingLeftBehind.
DeletionInv ==
  /\ phase \in {"running", "succeeded"} =>
       \A s \in Stacks : (task[s].action = "Delete") <=> (lastAction = "Delete")
  /\ \A s \in Stacks :
       lastAction = "Delete" /\ phase = "running" /\ pc[s] = "poll" =>
         cfn[s].status \in {"DELETE_IN_PROGRESS", "DELETE_COMPLETE", "DELETE_FAILED"}
  /\ \A s \in Stacks :
       lastAction = "Delete" /\ phase \in {"running", "succeeded"} /\ pc[s] = "done" => ~Exists(s)
  /\ phase = "succeeded" => \A s \in Stacks : pc[s] = "done"
  /\ gone => phase = "idle"
  /\ NothingLeftBehind

\* A stack is deleted as long as the last request is a deletion: nothing is
\* created again next to it.
OrderInv ==
  /\ \A s \in Stacks : cfn[s].status = "DELETE_IN_PROGRESS" => lastAction = "Delete"
  /\ DeletedInOrder

UpToDate(s) == Exists(s) /\ cfn[s].now = Saved(s, release, want) /\ s \notin blind

Quiet == phase = "idle" /\ news = {} /\ ~gone

\* When the status is Active, every stack has the parameters, the template and the
\* tags of the saved workflow, none of them empty, as long as
\*   - a retry of a stack takes up all stacks after it (so there is one branch);
\*   - no call of an update, or of a stack passed on the way to one, fails for good:
\*     the stacks not reached are COMPLETE, and no retry knows of them;
\*   - no describe fails for the record, which would hide a stack that was rolled
\*     back, and none and no read for the outputs, which would leave parameters empty.
ActiveMeansDeployed == Quiet /\ PipelineStatus = "Active" => \A s \in Stacks : UpToDate(s)
=============================================================================
