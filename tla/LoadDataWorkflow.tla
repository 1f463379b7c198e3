-------------------------- MODULE LoadDataWorkflow --------------------------
(***************************************************************************)
(* The workflow that loads the files written by the data pipeline into     *)
(* Redshift (src/src/analytics).  A DynamoDB row per file is put by the    *)
(* lambda that receives the S3 notifications; every EMR job that succeeds  *)
(* starts an execution of the main state machine, which runs one           *)
(* sub-workflow per Redshift table; a sub-workflow takes a batch of rows,  *)
(* writes a manifest per application, submits one merge statement per      *)
(* manifest, polls it, and deletes the rows of a finished statement.       *)
(*                                                                         *)
(* Redshift, EMR, the notifications and Step Functions itself are outside  *)
(* the repository; they are modelled as its code uses them.                *)
(***************************************************************************)
EXTENDS Naturals, FiniteSets

CONSTANTS
  Tables,        \* Redshift tables, one sub-workflow each
  Files,         \* files the data pipeline may write
  Apps,          \* applications of the project
  Executions,    \* slots for executions of the main state machine
  Statements,    \* slots for Redshift statements (bound on how many are alive)
  None,          \* no statement
  TableOf,       \* the table a file is for, by its prefix
  AppOf,         \* the application whose partition it is in
  Limit,         \* QUERY_RESULT_LIMIT: files per batch
  MaxRetry,      \* MAX_RETRY: resubmissions after a transaction conflict
  MaxNotices,    \* bound: notifications delivered per file
  StaleListing,  \* TRUE: ListExecutions may miss running executions
  PromptStop,    \* TRUE: a failed execution stops its sub-workflows at once
  CaughtErrors,  \* TRUE: a merge procedure may catch an error
  SpacedJobs     \* TRUE: no EMR job ends during the skip check of another

ASSUME LoadAssumption ==
  /\ TableOf \in [Files -> Tables]
  /\ AppOf \in [Files -> Apps]
  /\ None \notin Statements
  /\ Limit \in Nat \ {0}
  /\ MaxRetry \in Nat
  /\ MaxNotices \in Nat \ {0}
  /\ StaleListing \in BOOLEAN
  /\ PromptStop \in BOOLEAN
  /\ CaughtErrors \in BOOLEAN
  /\ SpacedJobs \in BOOLEAN

VARIABLES
  notices,   \* notifications of each file not handled yet
  sent,      \* notifications of each file sent so far
  row,       \* job status of the file in the DynamoDB table, or "none"
  phase,     \* main execution
  pc,        \* sub-workflow: the state it is about to run
  batch,     \* sub-workflow: files of the batch still to be loaded
  job,       \* sub-workflow: files of the current manifest
  retry,     \* sub-workflow: retryCount of the current manifest
  ref,       \* sub-workflow: the statement it polls
  stmt,      \* Redshift Data API statements
  merged,    \* files whose content is committed in Redshift
  announced, \* history: files that had a row
  caught     \* history: files of a merge procedure that caught an error

queueVars == <<notices, sent>>
subVars   == <<pc, batch, job, retry, ref>>
vars == <<queueVars, row, phase, subVars, stmt, merged, announced, caught>>

Subs      == Executions \X Tables
SubsOf(e) == {e} \X Tables

\* "UNLISTED": a row without a timestamp, so in no index.
Status    == {"none", "NEW", "ENQUEUE", "PROCESSING", "UNLISTED"}
Phases    == {"idle", "check", "load", "refresh", "succeeded", "failed", "skipped"}
Running   == {"check", "load", "refresh"}
Steps     == {"none", "query", "enqueue", "map", "submit", "poll", "more",
              "done", "failed", "stopped"}
Over      == {"none", "done", "failed", "stopped"}
StmtState == {"idle", "running", "finished", "conflict", "failed", "aborted"}

Idle == [status |-> "idle", files |-> {}]

\* Files of table t whose row has the given status (the status_timestamp_index).
RowsOf(t, status) == {f \in Files : TableOf[f] = t /\ row[f] = status}
Processing == {f \in Files : row[f] = "PROCESSING"}
Pending    == {f \in Files : row[f] \in {"NEW", "ENQUEUE", "PROCESSING"}}
Existing   == {f \in Files : row[f] # "none"}

\* The order in which create-load-manifest lists its candidates.
Rank(status) == CASE status = "NEW" -> 1 [] status = "PROCESSING" -> 2 [] OTHER -> 3

\* Mutant: files left PROCESSING or ENQUEUE are not taken up again.
BatchesOfNewFiles(t) ==
  {B \in SUBSET RowsOf(t, "NEW") : Cardinality(B) <= Limit /\ (B = {} => RowsOf(t, "NEW") = {})}

\* What create-load-manifest may take: at most Limit rows of the table, those
\* of a lower rank first.  The timestamps that order rows of equal status are
\* abstracted to any order.
Batches(t) ==
  LET candidates == {f \in Pending : TableOf[f] = t}
  IN  {B \in SUBSET candidates :
         /\ Cardinality(B) = (IF Cardinality(candidates) < Limit
                              THEN Cardinality(candidates) ELSE Limit)
         /\ \A f \in B, g \in candidates \ B : Rank(row[f]) <= Rank(row[g])}

\* A put or a delete of the rows of S.
SetRows(S, status) == row' = [f \in Files |-> IF f \in S THEN status ELSE row[f]]

\* An update sets the status alone: a row it creates has no timestamp.
UpdateRows(S, status) ==
  row' = [f \in Files |-> IF f \notin S THEN row[f]
                          ELSE IF f \in Pending THEN status ELSE "UNLISTED"]

Polled(s) == \E x \in Subs : pc[x] = "poll" /\ ref[x] = s

TypeOK ==
  /\ notices \in [Files -> Nat]
  /\ sent \in [Files -> 0..MaxNotices]
  /\ row \in [Files -> Status]
  /\ phase \in [Executions -> Phases]
  /\ pc \in [Subs -> Steps]
  /\ batch \in [Subs -> SUBSET Files]
  /\ job \in [Subs -> SUBSET Files]
  /\ retry \in [Subs -> 0..MaxRetry]
  /\ ref \in [Subs -> Statements \union {None}]
  /\ stmt \in [Statements -> [status : StmtState, files : SUBSET Files]]
  /\ merged \in SUBSET Files
  /\ announced \in SUBSET Files
  /\ caught \in SUBSET Files

Init ==
  /\ notices = [f \in Files |-> 0]
  /\ sent = [f \in Files |-> 0]
  /\ row = [f \in Files |-> "none"]
  /\ phase = [e \in Executions |-> "idle"]
  /\ pc = [x \in Subs |-> "none"]
  /\ batch = [x \in Subs |-> {}]
  /\ job = [x \in Subs |-> {}]
  /\ retry = [x \in Subs |-> 0]
  /\ ref = [x \in Subs |-> None]
  /\ stmt = [s \in Statements |-> Idle]
  /\ merged = {}
  /\ announced = {}
  /\ caught = {}

-----------------------------------------------------------------------------
(* Notifications.  EventBridge delivers at least once, in any order, and    *)
(* drops an event whose lambda keeps failing.                               *)

SendNotice(f) ==
  /\ sent[f] < MaxNotices
  /\ sent' = [sent EXCEPT ![f] = @ + 1]
  /\ notices' = [notices EXCEPT ![f] = @ + 1]
  /\ UNCHANGED <<row, phase, subVars, stmt, merged, announced, caught>>

DropNotice(f) ==
  /\ notices[f] > 0
  /\ notices' = [notices EXCEPT ![f] = @ - 1]
  /\ UNCHANGED <<sent, row, phase, subVars, stmt, merged, announced, caught>>

\* put-ods-source-to-store: an unconditional put, whatever the row was.
PutItem(f) ==
  /\ notices[f] > 0
  /\ notices' = [notices EXCEPT ![f] = @ - 1]
  /\ SetRows({f}, "NEW")
  /\ announced' = announced \union {f}
  /\ UNCHANGED <<sent, phase, subVars, stmt, merged, caught>>

-----------------------------------------------------------------------------
(* The main state machine.                                                  *)

\* An EMR job succeeded.  A slot is reused once nothing of its last execution
\* is left.
StartExecution(e) ==
  /\ phase[e] \notin Running
  /\ \A x \in SubsOf(e) : pc[x] \in Over
  /\ SpacedJobs => \A d \in Executions : phase[d] # "check"
  /\ phase' = [phase EXCEPT ![e] = "check"]
  /\ pc' = [x \in Subs |-> IF x[1] = e THEN "none" ELSE pc[x]]
  /\ UNCHANGED <<queueVars, row, batch, job, retry, ref, stmt, merged, announced, caught>>

OthersRunning(e) == {d \in Executions \ {e} : phase[d] \in Running}

\* Mutant: the other executions are not looked at.
CheckPendingOnly(e) ==
  /\ phase[e] = "check"
  /\ Pending # {}
  /\ phase' = [phase EXCEPT ![e] = "load"]
  /\ pc' = [x \in Subs |-> IF x[1] = e THEN "query" ELSE pc[x]]
  /\ UNCHANGED <<queueVars, row, batch, job, retry, ref, stmt, merged, announced, caught>>

\* skip-running-workflow and the choice that follows it: the execution goes on
\* only if the listing shows no other one running and some row is pending.
CheckSkipping(e) ==
  /\ phase[e] = "check"
  /\ \E seen \in SUBSET OthersRunning(e) :
       /\ ~StaleListing => seen = OthersRunning(e)
       /\ IF seen # {} \/ Pending = {}
            THEN /\ phase' = [phase EXCEPT ![e] = "skipped"]
                 /\ UNCHANGED pc
            ELSE /\ phase' = [phase EXCEPT ![e] = "load"]
                 /\ pc' = [x \in Subs |-> IF x[1] = e THEN "query" ELSE pc[x]]
  /\ UNCHANGED <<queueVars, row, batch, job, retry, ref, stmt, merged, announced, caught>>

LoadCompleted(e) ==
  /\ phase[e] = "load"
  /\ \A x \in SubsOf(e) : pc[x] = "done"
  /\ phase' = [phase EXCEPT ![e] = "refresh"]
  /\ UNCHANGED <<queueVars, row, subVars, stmt, merged, announced, caught>>

\* refresh-views and the state machines started after it.
RefreshViews(e) ==
  /\ phase[e] = "refresh"
  /\ phase' = [phase EXCEPT ![e] = "succeeded"]
  /\ UNCHANGED <<queueVars, row, subVars, stmt, merged, announced, caught>>

\* The sub-workflows of X end early.  A statement one of them polled goes on
\* running in Redshift; one that had ended is of no use to anyone any more.
EndSubs(X, how) ==
  /\ pc' = [x \in Subs |-> IF x \in X /\ pc[x] \notin Over THEN how ELSE pc[x]]
  /\ batch' = [x \in Subs |-> IF x \in X THEN {} ELSE batch[x]]
  /\ job' = [x \in Subs |-> IF x \in X THEN {} ELSE job[x]]
  /\ retry' = [x \in Subs |-> IF x \in X THEN 0 ELSE retry[x]]
  /\ ref' = [x \in Subs |-> IF x \in X THEN None ELSE ref[x]]
  /\ stmt' = [s \in Statements |->
                IF stmt[s].status # "running"
                   /\ \E x \in X : pc[x] = "poll" /\ ref[x] = s
                THEN Idle ELSE stmt[s]]

\* A lambda of the main state machine failed, or a branch of its Parallel
\* state did: there is no Catch.  Stopping the other branches' sub-workflows
\* is a best effort of Step Functions.
ExecutionFails(e) ==
  /\ \/ phase[e] \in {"check", "refresh"}
     \/ phase[e] = "load" /\ \E x \in SubsOf(e) : pc[x] = "failed"
  /\ phase' = [phase EXCEPT ![e] = "failed"]
  /\ IF PromptStop THEN EndSubs(SubsOf(e), "stopped") ELSE UNCHANGED <<subVars, stmt>>
  /\ UNCHANGED <<queueVars, row, merged, announced, caught>>

StopSub(x) ==
  /\ phase[x[1]] = "failed"
  /\ pc[x] \notin Over
  /\ EndSubs({x}, "stopped")
  /\ UNCHANGED <<queueVars, row, phase, merged, announced, caught>>

-----------------------------------------------------------------------------
(* A sub-workflow x = <<execution, table>>.  Every lambda may fail for good  *)
(* (a throttled or broken call, after the retries of its state), and may be  *)
(* invoked again after it did its work when its answer is lost.              *)

Goto(x, step) == pc' = [pc EXCEPT ![x] = step]

\* create-load-manifest: the queries.  They read an index, which may lag behind
\* the rows; here it shows them as they are.  A row it shows after its deletion
\* fails the conditional updates, as in EnqueueFails.
QueryItems(x) ==
  /\ pc[x] = "query"
  /\ \E B \in Batches(x[2]) :
       /\ batch' = [batch EXCEPT ![x] = B]
       /\ Goto(x, IF B = {} THEN "more" ELSE "enqueue")
  /\ UNCHANGED <<queueVars, row, phase, job, retry, ref, stmt, merged, announced, caught>>

\* create-load-manifest: the conditional updates of the batch and the upload
\* of the manifests.
EnqueueItems(x) ==
  /\ pc[x] = "enqueue"
  /\ batch[x] \subseteq Existing
  /\ UpdateRows(batch[x], "ENQUEUE")
  /\ Goto(x, "map")
  /\ UNCHANGED <<queueVars, phase, batch, job, retry, ref, stmt, merged, announced, caught>>

\* The answer of create-load-manifest is lost: the next invocation starts over.
EnqueueAgain(x) ==
  /\ pc[x] = "enqueue"
  /\ \E S \in SUBSET (batch[x] \intersect Existing) : UpdateRows(S, "ENQUEUE")
  /\ batch' = [batch EXCEPT ![x] = {}]
  /\ Goto(x, "query")
  /\ UNCHANGED <<queueVars, phase, job, retry, ref, stmt, merged, announced, caught>>

\* One of the updates or an upload fails; the others may have been done.
EnqueueFails(x) ==
  /\ pc[x] = "enqueue"
  /\ \E S \in SUBSET (batch[x] \intersect Existing) : UpdateRows(S, "ENQUEUE")
  /\ EndSubs({x}, "failed")
  /\ UNCHANGED <<queueVars, phase, merged, announced, caught>>

\* The Map state takes the next manifest, one application after the other.
NextManifest(x) ==
  /\ pc[x] = "map"
  /\ IF batch[x] = {}
       THEN Goto(x, "more") /\ UNCHANGED <<batch, job, retry>>
       ELSE \E a \in {AppOf[f] : f \in batch[x]} :
              LET files == {f \in batch[x] : AppOf[f] = a}
              IN  /\ job' = [job EXCEPT ![x] = files]
                  /\ batch' = [batch EXCEPT ![x] = @ \ files]
                  /\ retry' = [retry EXCEPT ![x] = 0]
                  /\ Goto(x, "submit")
  /\ UNCHANGED <<queueVars, row, phase, ref, stmt, merged, announced, caught>>

Free(s) == stmt[s].status = "idle"

Execute(s, x) == stmt' = [stmt EXCEPT ![s] = [status |-> "running", files |-> job[x]]]

\* Mutant: the id of the new statement does not reach the state that polls.
SubmitUnseen(x) ==
  /\ pc[x] = "submit"
  /\ UpdateRows(job[x], "PROCESSING")
  /\ \E s \in Statements : Free(s) /\ Execute(s, x)
  /\ Goto(x, "poll")
  /\ UNCHANGED <<queueVars, phase, batch, job, retry, ref, merged, announced, caught>>

\* load-manifest-to-redshift: the rows of the manifest are updated whether
\* they exist or not, then the merge procedure is called.
SubmitJob(x) ==
  /\ pc[x] = "submit"
  /\ UpdateRows(job[x], "PROCESSING")
  /\ \E s \in Statements :
       /\ Free(s)
       /\ Execute(s, x)
       /\ ref' = [ref EXCEPT ![x] = s]
  /\ Goto(x, "poll")
  /\ UNCHANGED <<queueVars, phase, batch, job, retry, merged, announced, caught>>

\* Its answer is lost: the statement runs, but nobody will ever poll it.
SubmitAgain(x) ==
  /\ pc[x] = "submit"
  /\ UpdateRows(job[x], "PROCESSING")
  /\ \E s \in Statements : Free(s) /\ Execute(s, x)
  /\ UNCHANGED <<queueVars, phase, subVars, merged, announced, caught>>

SubmitFails(x) ==
  /\ pc[x] = "submit"
  /\ \E S \in SUBSET job[x] : UpdateRows(S, "PROCESSING")
  /\ EndSubs({x}, "failed")
  /\ UNCHANGED <<queueVars, phase, merged, announced, caught>>

Polls(x, status) == pc[x] = "poll" /\ stmt[ref[x]].status = status

Release(x) ==
  /\ stmt' = [stmt EXCEPT ![ref[x]] = Idle]
  /\ ref' = [ref EXCEPT ![x] = None]

\* Mutant: the rows of the manifests still to be loaded are deleted too.
DeleteWholeBatch(x) ==
  /\ Polls(x, "finished")
  /\ SetRows(job[x] \union batch[x], "none")
  /\ job' = [job EXCEPT ![x] = {}]
  /\ retry' = [retry EXCEPT ![x] = 0]
  /\ Release(x)
  /\ Goto(x, "map")
  /\ UNCHANGED <<queueVars, phase, batch, merged, announced, caught>>

\* Mutant: the rows are deleted however the statement ended.
DeleteWhateverTheStatus(x) ==
  /\ pc[x] = "poll" /\ stmt[ref[x]].status # "running"
  /\ SetRows(job[x], "none")
  /\ job' = [job EXCEPT ![x] = {}]
  /\ retry' = [retry EXCEPT ![x] = 0]
  /\ Release(x)
  /\ Goto(x, "map")
  /\ UNCHANGED <<queueVars, phase, batch, merged, announced, caught>>

\* check-load-status: the statement is finished, the rows are deleted.
CheckFinished(x) ==
  /\ Polls(x, "finished")
  /\ SetRows(job[x], "none")
  /\ job' = [job EXCEPT ![x] = {}]
  /\ retry' = [retry EXCEPT ![x] = 0]
  /\ Release(x)
  /\ Goto(x, "map")
  /\ UNCHANGED <<queueVars, phase, batch, merged, announced, caught>>

\* check-load-status deletes row after row: some are deleted when it fails or
\* is invoked again.
CheckFinishedAgain(x) ==
  /\ Polls(x, "finished")
  /\ \E S \in SUBSET job[x] : SetRows(S, "none")
  /\ UNCHANGED <<queueVars, phase, subVars, stmt, merged, announced, caught>>

CheckFails(x) ==
  /\ pc[x] = "poll"
  /\ \E S \in SUBSET job[x] :
       /\ S # {} => Polls(x, "finished")
       /\ SetRows(S, "none")
  /\ EndSubs({x}, "failed")
  /\ UNCHANGED <<queueVars, phase, merged, announced, caught>>

\* Mutant: resubmitted as long as there are conflicts.
RetryWithoutLimit(x) ==
  /\ Polls(x, "conflict")
  /\ retry' = [retry EXCEPT ![x] = @ + 1]
  /\ Release(x)
  /\ Goto(x, "submit")
  /\ UNCHANGED <<queueVars, row, phase, batch, job, merged, announced, caught>>

\* Mutant: the rows are deleted before the statement is resubmitted.
DeleteAndRetry(x) ==
  /\ Polls(x, "conflict")
  /\ retry[x] < MaxRetry
  /\ SetRows(job[x], "none")
  /\ retry' = [retry EXCEPT ![x] = @ + 1]
  /\ Release(x)
  /\ Goto(x, "submit")
  /\ UNCHANGED <<queueVars, phase, batch, job, merged, announced, caught>>

\* A transaction conflict is resubmitted MaxRetry times.
CheckConflict(x) ==
  /\ Polls(x, "conflict")
  /\ retry[x] < MaxRetry
  /\ retry' = [retry EXCEPT ![x] = @ + 1]
  /\ Release(x)
  /\ Goto(x, "submit")
  /\ UNCHANGED <<queueVars, row, phase, batch, job, merged, announced, caught>>

\* Any other failure, and an aborted statement, fail the sub-workflow.
JobFails(x) ==
  /\ \/ Polls(x, "conflict") /\ retry[x] >= MaxRetry
     \/ Polls(x, "failed")
     \/ Polls(x, "aborted")
  /\ EndSubs({x}, "failed")
  /\ UNCHANGED <<queueVars, row, phase, merged, announced, caught>>

\* Mutant: the PROCESSING rows are not counted.
CheckNewOnly(x) ==
  /\ pc[x] = "more"
  /\ Goto(x, IF RowsOf(x[2], "NEW") = {} THEN "done" ELSE "query")
  /\ UNCHANGED <<queueVars, row, phase, batch, job, retry, ref, stmt, merged, announced, caught>>

\* has-more-job-new: NEW rows of this table, PROCESSING rows of every table.
CheckMoreWork(x) ==
  /\ pc[x] = "more"
  /\ Goto(x, IF RowsOf(x[2], "NEW") \union Processing = {} THEN "done" ELSE "query")
  /\ UNCHANGED <<queueVars, row, phase, batch, job, retry, ref, stmt, merged, announced, caught>>

LambdaFails(x) ==
  /\ pc[x] \in {"query", "more"}
  /\ EndSubs({x}, "failed")
  /\ UNCHANGED <<queueVars, row, phase, merged, announced, caught>>

-----------------------------------------------------------------------------
(* Redshift.  The merge procedures replace what the target already has, so   *)
(* that a file merged twice counts once.  They are NONATOMIC and end with    *)
(* EXCEPTION WHEN OTHERS: an error they catch is only logged, and the call   *)
(* ends like one that worked.                                                *)

FinishStatement(s) ==
  /\ stmt[s].status = "running"
  /\ merged' = merged \union stmt[s].files
  /\ stmt' = [stmt EXCEPT ![s] =
                IF Polled(s) THEN [@ EXCEPT !.status = "finished"] ELSE Idle]
  /\ UNCHANGED <<queueVars, row, phase, subVars, announced, caught>>

CatchError(s) ==
  /\ CaughtErrors
  /\ stmt[s].status = "running"
  /\ \E S \in SUBSET stmt[s].files : merged' = merged \union S
  /\ caught' = caught \union stmt[s].files
  /\ stmt' = [stmt EXCEPT ![s] =
                IF Polled(s) THEN [@ EXCEPT !.status = "finished"] ELSE Idle]
  /\ UNCHANGED <<queueVars, row, phase, subVars, announced>>

\* An error outside the block, or a statement cancelled.
BreakStatement(s) ==
  /\ stmt[s].status = "running"
  /\ \E status \in {"conflict", "failed", "aborted"} :
       stmt' = [stmt EXCEPT ![s] =
                 IF Polled(s) THEN [@ EXCEPT !.status = status] ELSE Idle]
  /\ UNCHANGED <<queueVars, row, phase, subVars, merged, announced, caught>>

-----------------------------------------------------------------------------
Notify(f)    == SendNotice(f) \/ DropNotice(f) \/ PutItem(f)
MainStep(e)  == StartExecution(e) \/ CheckSkipping(e) \/ LoadCompleted(e)
                \/ RefreshViews(e) \/ ExecutionFails(e)
SubStep(x)   == \/ QueryItems(x) \/ EnqueueItems(x) \/ EnqueueAgain(x) \/ EnqueueFails(x)
                \/ NextManifest(x) \/ SubmitJob(x) \/ SubmitAgain(x) \/ SubmitFails(x)
                \/ CheckFinished(x) \/ CheckFinishedAgain(x) \/ CheckFails(x)
                \/ CheckConflict(x) \/ JobFails(x) \/ CheckMoreWork(x)
                \/ LambdaFails(x) \/ StopSub(x)
Redshift(s)  == FinishStatement(s) \/ CatchError(s) \/ BreakStatement(s)

Next == \/ \E f \in Files : Notify(f)
        \/ \E e \in Executions : MainStep(e)
        \/ \E x \in Subs : SubStep(x)
        \/ \E s \in Statements : Redshift(s)

Spec == Init /\ [][Next]_vars

-----------------------------------------------------------------------------
(* Properties.                                                              *)

\* A file that was announced keeps a job row until its content is in
\* Redshift; only an error caught by a merge procedure can break this: the
\* rows are deleted for finished statements alone, and every row of a batch
\* is in one of its manifests.
NoFileLost == announced \subseteq merged \union caught \union Existing

\* The inductive invariant behind NoFileLost.  A sub-workflow polls a statement
\* of its own, for exactly the files of its manifest; a finished statement has
\* called the merge procedure for all its files; nothing is loaded that was not
\* announced.
PollsItsStatement ==
  \A x \in Subs : pc[x] = "poll" =>
    /\ ref[x] \in Statements
    /\ stmt[ref[x]].status # "idle"
    /\ stmt[ref[x]].files = job[x]

OneObserver ==
  \A x, y \in Subs : pc[x] = "poll" /\ pc[y] = "poll" /\ ref[x] = ref[y] => x = y

FinishedWasCalled ==
  \A s \in Statements : stmt[s].status = "finished" => stmt[s].files \subseteq merged \union caught

OnlyAnnounced ==
  /\ Existing \subseteq announced
  /\ \A x \in Subs : batch[x] \union job[x] \subseteq announced
  /\ \A s \in Statements : stmt[s].files \subseteq announced

LoadInv == TypeOK /\ PollsItsStatement /\ OneObserver /\ FinishedWasCalled
           /\ OnlyAnnounced /\ NoFileLost

\* The FAQ says: "Any failure won't lose any data for loading into Redshift".
\* It does when a merge procedure catches its error: the call ends like one
\* that worked and the rows of its files are deleted.
FailureLosesNothing == announced \subseteq merged \union Existing

\* Two executions never load at the same time, whatever order they start and
\* check in, as long as ListExecutions shows every running execution.
OneActiveExecution ==
  ~StaleListing =>
    \A d, e \in Executions :
      phase[d] \in {"load", "refresh"} /\ phase[e] \in {"load", "refresh"} => d = e

Exclusive == ~StaleListing /\ PromptStop

\* The views are refreshed when no table has a row left in the middle of a merge:
\* the sub-workflow that ends last has seen that no row is PROCESSING.  It is about
\* rows: a statement that was submitted again, and is polled by nobody, may still run.
RefreshAfterMerges ==
  Exclusive => \A e \in Executions : phase[e] = "refresh" => Processing = {}

\* load-manifest-to-redshift updates rows it does not know to exist; when
\* sub-workflows never overlap it does not bring a deleted one back, which
\* would have no timestamp and never be listed again.
NoUnlistedRow == Exclusive => \A f \in Files : row[f] # "UNLISTED"

-----------------------------------------------------------------------------
\* The promise to each file, as long as no merge procedure catches an error.
Stage(f) ==
  IF f \in merged THEN IF row[f] = "none" THEN "settled" ELSE "merged"
  ELSE IF row[f] = "none" THEN "absent" ELSE "pending"

Lifecycle == INSTANCE FileLifecycle WITH stage <- [f \in Files |-> Stage(f)]

LifecycleSpec == Lifecycle!Spec
=============================================================================
