# Clickstream lakehouse: a TLA+ verification project

Specifications of the core protocols of this repository, TLC runs that check
them on small instances, and theorems about them checked by TLAPS. The code is
the reference: a definition is a translation of the lines that `PROJECT.json`
("map") names for it. A module comments only on what the code does not say.

    tlasany M.tla                              parse
    tlc -workers 2 -config X.cfg M             model-check (X and M: see Runs)
    tlapm M_proofs.tla                         prove

## 1. The system

Clickstream events go from SDKs through an ingestion server to S3, are
transformed by EMR Serverless jobs, loaded into Redshift (or left to Athena),
and shown in QuickSight. A control plane deploys all of that as CloudFormation
stacks, one pipeline per project.

    users -> control plane API -> Step Functions -> CloudFormation stacks
                   ^  record (DynamoDB)  |
                   +---- listeners <-----+  status change events

    SDK -> ingestion server -> S3 -> EMR job (Spark ETL) -> S3 (ODS files)
              S3 notification ----------------+   | EMR job succeeded
                     v                            v
              DynamoDB rows  <---------  load-data workflow -> Redshift
                                                  | ended
                       scan-metadata, refresh-views, clear-expired workflows

### Components

`PROJECT.json` ("components") names the sources of each, and why it is not
modelled where it is not.

| component | state | operations and interactions | hard behaviour | what makes it correct |
|---|---|---|---|---|
| **Load-data workflow** (`src/analytics`) | a DynamoDB row per file (NEW, ENQUEUE, PROCESSING), executions of the main and of the per-table state machine, statements in Redshift | a notification puts a row; an EMR job that succeeds starts an execution, which skips or loads; per table: batch, manifests, merge statement, poll, delete rows | interleaved executions and tables, repeated and dropped notifications, lambdas that fail or are invoked again, statements nobody polls, procedures that catch errors | no file is lost; one execution loads at a time; views are refreshed after the merges; left-over rows are loaded in the end |
| **Deployment of stacks** (control plane: `stack.ts`, `pipeline.ts`, `sfn-action`, `sfn-workflow`, listeners) | the saved workflow and the record, executions, `output.json` per stack, stacks in CloudFormation | create, update, update of applications, upgrade, delete, retry; per stack: start, wait, callback; listeners write statuses | partial failures of parallel branches, a second invocation, statuses read too early, retries | parameters come from outputs that exist; deletion in reverse order, nothing left; Active means deployed; retries recover |
| **Record of a pipeline** (`dynamodb-store.ts`, `listen-tools.ts`, `pipeline.ts`) | DynamoDB item with `version` and `updateAt`, an index that lags behind it | requests start an execution, then save; the console's reads save what they computed; two listeners read, compute and write under a condition, with retries | stale index reads, two locks that do not see each other, an execution started before the write, a write of all stacks for the event of one | the record ends with the statuses there are; no write takes one back; the project goes after its stacks |
| **EMR job submitter and listener** (`src/data-pipeline/lambda`) | `job-<id>.json` and `job-latest.json` in S3, EMR job runs | a schedule submits a job for the window since the latest one; the job reads the files of its window; the listener reports a job that failed; an operator runs it again | records written one after the other after the job is started, seconds against milliseconds, day prefixes, runs by hand | every file is in one window; no failed job goes unreported |
| **Scan-metadata workflow** (`src/analytics`) | DynamoDB items per id and month, one of them as "latest"; `workflow-job-info.json` | started by the load-data workflow; skip if another runs or within a day; scan a range of days, merge into the items, record the end | mutual skips, unordered writes in batches without a transaction while the latest item is moved, failures half-way | stored days stay; latest is the newest; no day is left out |
| **Refresh-materialized-views workflow** (`src/analytics`) | the base view, a table per report, `refresh_mv_sp_status` | started after a load or by an operator; skip if another runs; copy what was merged to the base view; write the reports of a day; record the day | a watermark and a freshness that may pass events, the day record is not awaited, days of a time zone, stops and failures | a recorded day is whole in every report; no event is passed |
| Clear-expired workflow | Step Functions executions | started by the load-data workflow; skip if another runs; one statement | conflicts with the load | expired rows go |
| SQL execution state machine | a list of SQL files, a query id | submit, poll, next | errors that count as success | all statements of a file are executed |
| S3 tables modeling | `job-latest.json`, Iceberg tables | submitter, status handler, merge jobs | races on the latest file, jobs submitted twice | totals count each event once |
| API services, users, middleware, field filter, plugins | DynamoDB items | validated single-item requests | cascading deletions | references stay valid |
| Redshift procedures and views, Spark ETL, SQL and QuickSight builders | data | transformations | - | data, out of TLC's reach |
| Ingestion server, Kafka connector, custom resources, metrics, CDK, web console | configuration | one sequence of service calls per CloudFormation event | repeated events | idempotence |

`PROJECT.json` ("hazards") lists what is hard to test, at its line, with the
properties that would catch it. One without a property has a note that says why.

## 2. Modules

| module | what |
|---|---|
| `LoadDataWorkflow` | the load-data workflow; one action per lambda or state, per outcome |
| `FileLifecycle` | what it promises to a file: absent, pending, merged, settled |
| `LoadDataRecovery` | the workflow with an end to the failures, for liveness |
| `LoadDataWorkflow_proofs` | theorems |
| `LoadDataExclusive_proofs` | theorems about executions that do not overlap |
| `PipelineStacks` | requests, stack workflow, stack actions, listeners, CloudFormation |
| `PipelineRecovery` | the deployment with an end to the failures, for liveness |
| `PipelineStacks_proofs` | theorems |
| `PipelineOutputs_proofs` | theorems about what stacks get: outputs that are there, and what the saved workflow says |
| `PipelineRecord` | the record: requests, the console's reads and the two listeners, read by read and write by write |
| `PipelineRecord_proofs` | theorems |
| `EmrJobWindows` | files, the submitter, jobs, the listener to their ends |
| `EmrJobWindows_proofs` | theorems |
| `MetadataScan` | the scan-metadata workflow and its items of one id |
| `MetadataScan_proofs` | theorems |
| `ViewRefresh` | the refresh-materialized-views workflow of one app |
| `ViewRefresh_proofs` | theorems |
| `MCLoadData`, `MCLoadRecovery`, `MCPipelineStacks`, `MCRecord`, `MCMetadata`, `MCRefresh` | instances for TLC (`EmrJobWindows` needs none) |

### LoadDataWorkflow and the code

* `row[f]` is the job status of the file's item in `OdsEventTable`; "none": no
  item. "UNLISTED" is an item that an unconditional update created, without a
  timestamp: it is in no index, so no query finds it.
* `notices`, `sent`: S3 notifications under way. `PutItem` is
  `put-ods-source-to-store`, an unconditional put.
* `phase[e]` is an execution of the main state machine, `pc[x]` with
  `x = <<execution, table>>` the sub-workflow of a table: "query" and "enqueue"
  are `create-load-manifest`, "map" the Map state over manifests (one per
  application, one at a time), "submit" `load-manifest-to-redshift`, "poll"
  `check-load-status` with its wait, "more" `has-more-job-new`.
* `batch[x]`, `job[x]`, `retry[x]`, `ref[x]` are the state input: the files not
  yet in a manifest under way, those of the manifest, `retryCount`, the query id.
* `stmt[s]`: statements of the Data API, kept only while they run or somebody
  polls them, so that a finite number of slots is enough.
* A lambda that does several writes has actions for each outcome: all done; some
  done and failed for good (`...Fails`); some or all done and invoked again
  (`...Again`). `create-load-manifest` is split in two ("query", "enqueue"): rows
  may change between its queries and its updates.
* `Batches` takes NEW before PROCESSING before ENQUEUE rows, up to
  `QUERY_RESULT_LIMIT`. Timestamps within a status are abstracted to any order. The
  queries read an index, which may lag (`create-load-manifest.ts:291-353`): `QueryItems`
  reads the rows themselves. A deleted row that is still listed makes the conditional
  update (380) fail the execution, like `EnqueueFails`; a row not listed yet waits for
  the next batch.
* `Next` includes what surrounds the code: statements finish, break or (in a
  procedure with `EXCEPTION WHEN OTHERS`) catch their error; Step Functions stops
  the sub-workflows of a failed execution at some time (`StopSub`).

CONSTANTS that widen or narrow the environment: `StaleListing` (ListExecutions
is eventually consistent), `PromptStop` (a failed execution stops its
sub-workflows at once), `CaughtErrors`, `SpacedJobs` (no EMR job ends during the
skip check of another). `MaxNotices` bounds the notifications per file.

### PipelineStacks and the code

* `want`, `release`, `known`, `result`, `lastAction`, `gone` are the record:
  parameters of the saved workflow (how often they were edited, up to
  `MaxEdits`), `templateVersion`, `stackDetails` (status and version tag),
  `executionDetail.status`, `lastAction`, and the deletion of the project.
  `PipelineStatus` is `getPipelineStatus`, computed on reading.
* `cfn[s]` is a stack: its status, what it is made from, what an update is
  turning it into, whether a failure keeps it (`DisableRollback`). `news`:
  status change events not handled.
* `phase`, `task`, `pc`, `outputs`: an execution of the stack workflow; `task`
  is the action of each stack, `outputs` the stacks whose `output.json` has
  outputs. `blind` is a history variable.
* Requests are actions with the guard of the API (`MayAsk`) and the plan that
  `StackManager` makes (`UpdatePlan`, `RetryAction`, ...). `StartStack` is one
  run of `sfn-action`'s create, update, upgrade or delete after the parameters
  are resolved; `SettleStack` is the wait and `callback`; `PassStack` is
  `sfn-workflow` describing a stack whose action is Pass.
* `HandleStackEvent` and `HandleStateEvent` are the two listeners.

CONSTANTS: `Patient` (nobody asks while a stack is in progress or an event is
under way), `Orderly` (what failed is retried before anything else but a
deletion is asked for), `FailingCalls` (the actions whose calls of CloudFormation
may fail for good, time out or be made twice), `Swallowed` (the calls that may fail and
whose failure the code takes for an empty answer: "Action", the describe of
`sfn-action`; "Pass", that of `sfn-workflow` for a stack passed on; "Read", its reads of
`output.json`; "Record", the describes by name that the record is written from). In a
new workflow the outputs are empty (`Execute`): `updateApp` may reuse the prefix of an
earlier one, whose files an execution overwrites as it goes on.

### PipelineRecord and the code

* `rec` is the item, `index` what the global secondary index returns for it: one
  write behind, until `CatchUp`. `Put` is a write. `old` stands for `version`: a
  copy whose version is not that of the record any more. `updateAt` stamps are
  numbers of which only equality matters; a write takes one in no use (`Now`): two writes
  of one millisecond are left out.
* `req` is a request under way: the page on which the operator edits ("page",
  its copy is the body of the update) or what it saves after it has started its
  execution ("save"). `Update`, `UpdateApp`, `Retry` and `Delete` differ in where
  they read the record and its status, and in the condition of the save.
* `get` is the console's read: `Get` reads the index, `SaveGet` is
  `refreshStatus`, which saves the copy with its old `updateAt`.
* `lis[l]` is an invocation of a listener. "read", "write": `listen-stack-status`,
  for one stack, writes the statuses of all. "state", "again", "fetch", "all":
  `listen-state-status` writes the status of the execution, then (at an end) that
  of all stacks on the `updateAt` of its first read, and deletes the project when
  a deletion succeeded. `tries` is the `retryCount` of `listen-tools.ts`.
* `Found(missed)` are the statuses that `getStacksDetailsByNames` finds: "unknown" for a
  deleted stack, and for one whose describe fails, which is only logged (`Miss`).
* `lost` is history: a save that failed ("save"), a listener that gave up ("write"), a
  describe that failed ("describe").
* `exec`, `kind`, `cfn`, `left`: executions and stacks, which touch each stack at
  most once, in any order; how is the subject of `PipelineStacks`.
* `Init` is the end of an update, not yet told, after which `Broken` stacks are
  failed: the states in which a retry is possible are reached at once.

Timing: an execution lasts longer than the save of its request and the lag of the
index (`Seconds`), its stacks longer than the delivery of the events of executions
(`Minutes`), and its end is polled after the listeners of the last stack have asked
for its status (`UpToDate`). A deletion is asked for by an operator who sees the
last action fully. `RacingReads` lets the console's read interleave with writes.

### EmrJobWindows and the code

* `now` is the clock, in ticks of which a second has `Sec`: modification times in
  S3 and Spark's `modifiedAfter`/`modifiedBefore` are whole seconds, the submitter
  has milliseconds. `file[f]` has the day of its key, chosen before the upload,
  and its modification time, the start of the upload; it is listed up to `PutTime`
  later.
* `call` is the one invocation of the submitter (its concurrency is reserved as 1):
  `Invoke` is `getJobTimestamps`, `NoFiles` the early return, then the start of
  the job, `RecordJob` and `RecordLatest`, with `InvocationFails` between any two.
* `latest`, `info` are `job-latest.json` and the ids with a `job-<id>.json`; `chain`
  is a history variable, the jobs whose window became the latest.
* `JobReads` is `ETLRunner`'s choice of files. `HandleEnd` is the listener, `queue`
  the dead letter queue, `DropEnd` an event that Lambda gives up on. Runs by hand
  are those of the FAQ: `InvokeRerun` (`reRunJob`) and `CloneJob`.

CONSTANTS: `Buffer` is `dataBufferedSeconds`; `LateKeys` lets a key have the day
before its upload, as Vector's batches can; `CallsFail` lets the listener's calls fail in
all of its invocations.

### MetadataScan and the code

* The days of an item stand for its content; `Month` gives the month of a day.
  `table` has one id's items, by month or as `Latest`, each with the month it came
  from (`origin`).
* `exec[e]`: "check" is `check-metadata-workflow-start`, "scan" the procedure, which
  makes its tables (`found`) anew, "read", "merge", "write" are
  `store-metadata-into-ddb`, "info" is `update-workflow-info`.
* `Merge` takes the rows in any order; only which month comes first matters: it
  decides whether the former latest item is put under its month. `MergeThrows` is
  the TypeError of the other order. `BatchWrite` puts batches in any order, except
  that items DynamoDB had go first, or with new ones in one batch.
* `window` is the day of the end of the latest EMR window. It moves on when a scan
  depends on it: where the range of a scheduled one ends, which events one by hand can
  find. `kept`, `covered`, `torn` are history.

CONSTANTS: `FailsAgain` (a scan may fail before it has stored again what the one before
left half-way), `Careless` (an operator asks for a scan while one runs, or after one
failed half-way), `Throttled` (items that DynamoDB leaves unprocessed, which the
code does not look at), `Paged` (the query for an item may not find it: the code reads
one page), `EarlyEvents` (events of days after the latest window, from
devices whose clocks are ahead, which a scan by hand can find).

### ViewRefresh and the code

* Events are told apart by their time only, so `created`, `base` and `report` are about
  times. `created[t]` is the `created_time` that the merge procedure gives, a second.
* `latest` is the end of the latest EMR window and, at the same time, the clock: the
  delay between the two is part of what `MaxGap` allows.
* `load` and `MergeEvents` are what a load does to `event_v2`. Merges come one after
  the other (`OneActiveExecution` of `LoadDataWorkflow`); two may have the same second,
  and so do the two MERGEs of one procedure.
* `exec[e]` is an execution with its sub-workflow: "check", "base", "start", "sp" and
  "done" are the lambdas in their order, `sp` the report in turn, `hand`, `from` and `to`
  its input. A statement and the poll that sees it finished are one action; one that goes on
  after its execution failed adds to the base view, or writes a report, what the next
  execution does anyhow.
* `ToCopy(since)` is what the procedure of the base view takes: events of the freshness,
  merged no earlier than the newest one it has. A run by hand replaces the freshness
  (rounded to the hour, which is below the unit of time of the model).
* `unsaved` are the INSERTs that nobody waits for, `recorded` is what
  `isSkipSpRefresh` finds.

CONSTANTS: `DayStart` has the days of the app's time zone, `LastDay` bounds them; `MaxGap` is how long no refresh
may succeed; `LateLoads`, `CaughtErrors` and `ShortRanges` are under Findings.

### Recovery modules

Both add `stable`, which becomes TRUE once at any time; from then on no failure
action is taken, and everything else goes on as before, including failures that
the state forces (a refused call, an execution whose sub-workflow has failed).
So the liveness properties need weak fairness only, from every state that any
sequence of failures can leave.

## 3. Runs

A run is a `.cfg` with its module; times are with two workers.

| run | instance | shows |
|---|---|---|
| `load_exclusive` | 2 executions, 3 files of 2 tables, batches of 1, 1 statement, 1 resubmission; symmetry in executions and in the two files of a table; 342k states, 30 s | types; one execution past the check; no deleted row brought back without its timestamp; no row in a merge when the views are refreshed |
| `load_lifecycle` | 2 executions, 2 tables with a file each, 2 notifications per file, sub-workflows that outlive their execution; symmetry also in the (file, table) pairs; 771k states, 100 s | `LifecycleSpec`: the workflow implements `FileLifecycle` |
| `load_overlap` | 2 executions, 1 table, 2 applications (2 manifests per batch), stale listings, late stops, caught errors; 498k states, 45 s | a file is lost through a caught error only; the inductive invariant `LoadInv` |
| `load_recover` | 1 execution, 3 files of 2 tables, batches of 1, 1 statement; 143k states, 100 s | every row is loaded and deleted in the end |
| `load_caught` | 1 execution, caught errors | violation: see Findings |
| `stacks_update` | one branch of 3 stacks, 1 edit, applications, upgrade, deletion, retries, calls of creations and deletions that fail; 292k states, 20 s | types (every plan has an action for each stack); Active means deployed; reverse order of a deletion, nothing left behind |
| `stacks_recover` | 2 branches, 3 stacks, creation, an application, failures of calls (none of those that are swallowed) and stacks; 201k states, 100 s | no parameters from outputs that are not there; retries reach Active |
| `stacks_branches` | 2 branches | violation: see Findings |
| `windows` | 2 files, 3 jobs, seconds of 2 ticks, days of 4, a buffer of 2; 1.19M states, 35 s | types; no file between the windows; none in two; failed jobs reported |
| `record` | 2 stacks, 2 invocations of listeners, 2 retries, 1 request after an update that left a stack failed, 1 failure (of a describe too); 1.97M states, 180 s | types; the record settles, up to a describe that failed; no status taken back; the project goes last |
| `metadata` | 2 executions, 5 days of 3 months (2, 1 and 2 days), 2 failures, none of a scan before it has stored again what one left half-way, 1 scan by hand; 3.75M states, 195 s | types; stored days stay; latest is the newest; no day before the recorded end is left out |
| `refresh` | 2 executions, 2 reports, 4 units of 12 hours from the third day on, freshness and gap of a day, 1 failure, 1 run by hand; 1.02M states, 40 s | types; a recorded day is whole in every report; no merged event is passed |

Why the bounds are enough. The load-data workflow shares nothing between files
but the batch, the manifest and PROCESSING rows: two files give both orders of
every pair of steps on them, two tables the only interaction between
sub-workflows (`has-more-job-new` counts PROCESSING rows of every table), two
executions the skip check; a slot is reused, so executions follow one another
without bound. A limit of 1 with three files leaves rows beyond the batch.
`load_recover` and `load_lifecycle` have no resubmission (`MaxRetry = 0`): the
counter is in the other runs. The stacks of a branch interact with the neighbours and the one two
places on (Reporting needs the outputs of DataModelingRedshift, whose retry needs
DataProcessing's): three places; branches interact through the failure of the
execution only: two. One edit tells an old parameter from a new one.

In `windows`, time up to 7 has two days and three seconds with a window end in the
middle of a second, on its limit and on that of a day; two files are on both sides of
an end; three jobs are two windows and one run again. In `record`, two listeners are
one that reads before the other writes; two retries are one that fails and one that
must not; one failed stack of two is the case in which both a retry and an update
change statuses (no failed stack, or two, pass as well). In `metadata`, three months
are the former latest, the new latest and one that is skipped or comes between; with five
days two of them can be scanned in halves; two failures are two scans that both stop half-way. In `refresh`, two days after the first event
are one that is recorded and one whose events come meanwhile, with windows of half a day
and of one; two reports are the last and another.

Fairness (recovery modules only). Weak fairness of what Step Functions,
Redshift, EventBridge and CloudFormation run without anybody asking; of EMR jobs,
which are scheduled (`StartExecution`); and, for the deployment, of the user's
retry and of the operator who continues a rollback that failed, without which
nobody restarts a failed execution. In both modules the failures stop at some time; how long they
last and what they leave is free.

## 4. Proofs

For every value of the constants (under their named ASSUMEs):

| theorem | property | argument |
|---|---|---|
| `TypeCorrect` | `TypeOK` | one lemma per kind of action |
| `LoadInvariance`, `FilesAreKept` | `LoadInv`, `NoFileLost` | below |
| `ExecutionsExclude` | `OneActiveExecution` | an execution that goes on has seen no other one running, and one that starts after is in its check |
| `NoRowComesBack`, `RefreshFollowsMerges` | `NoUnlistedRow`, `RefreshAfterMerges` | `ExclusiveInv`, below; both are about `~StaleListing` and `PromptStop` |
| `WorkflowRefinesLifecycle` | `LifecycleSpec` | each step maps to steps of `FileLifecycle` or a stutter, by `LoadInv` and `~CaughtErrors` |
| `StacksTypeCorrect` | `TypeOK` | every plan has an action for each stack |
| `DeletionLeavesNothing` | `NothingLeftBehind` | `DeletionInv`, with `"Action" \notin Swallowed` |
| `DeletionInOrder` | `DeletedInOrder` | `OrderInv` over `DeletionInv`, with `"Action" \notin Swallowed` and no request but retries and deletions unless the users are `Patient` |
| `OutputsAreThere` | `NeverBlind` | `OutputsInv`, below; `NeverBlind` is about `Patient` users who retry a deletion that failed, and about describes ("Pass") and reads of `output.json` that work |
| `ActiveIsDeployed` | `ActiveMeansDeployed` | `DeployedInv` over `OutputsInv`, below, with `NothingLost` (`Patient`, `Orderly`, neither "Pass" nor "Update" in `FailingCalls`, nothing but "Action" in `Swallowed`), and `RetriedTogether` or `CreatedOnly` |
| `RecordTypes` | `TypeOK` | the copies of the record in use are fewer than the stamps there are (`NowIsFresh`) |
| `NothingTakenBack` | `NoStatusTakenBack` | `StampInv`, below |
| `ProjectOutlivesStacks` | `DeletedOnlyWhenGone` | `ProjectInv`, below, with `~RacingReads` |
| `RecordSettles` | `StatusSettles` | `SettleInv`, below, with `~RacingReads`; a status is missing only if a describe has failed |
| `WindowsTypeCorrect` | `TypeOK` | with it, that an invocation past the start of a job names that job |
| `NoFailureUnreported` | `FailuresReported` | with `~CallsFail`: a recorded job was started (`StartedInv`); one that failed is in `queue` or its event is under way (`ReportInv`) |
| `FilesReadOnce` | `NoFileTwice` | `ChainInv`, `ReadInv`, below |
| `NoFileLeftBehind` | `NoFileSkipped` | `CoverInv`, `PlaceInv`, below, with `~LateKeys`, a `Buffer` of a second or more and a `Day` of whole seconds |
| `ScanTypeCorrect` | `TypeOK` | ranges are within the windows that there are (`WithinWindows`); the newest month of a scan exists |
| `RecordedDaysCovered` | `DaysCovered` | `CoverInv`: a scheduled scan under way starts no later than what is covered ends |
| `StoredStays`, `NewestIsLatest` | `StoredDaysKept`, `LatestIsNewest` | `ItemsInv`, below, under `Mild`: `~FailsAgain`, `~Careless`, `~Throttled`, `~Paged`, `~EarlyEvents`; any number of failures |
| `RefreshTypeCorrect` | `TypeOK` | with it, that a scheduled execution ends no later than the latest window |
| `NothingPassed` | `NoEventPassed` | `CopyInv`, below, under `Careful`: `~LateLoads`, `~CaughtErrors`, `~ShortRanges` and `MaxGap <= Freshness` |
| `RecordedDaysWhole` | `ReportsComplete` | `ReportInv`, below, under `Careful` and `RegularDays`: no day is longer than `Day`, and `ReportDays` days no shorter than `MaxGap` |

*Why `NoFileLost` needs more.* Rows are deleted when a statement is seen to be
finished: that this statement has merged exactly the files of the manifest whose
rows go is not in `NoFileLost`. `LoadInv` adds that a sub-workflow polls a
statement with the files of its `job` (`PollsItsStatement`), that no two poll the
same one, so a release does not pull it from under another (`OneObserver`),
that a finished statement has called the procedure for all its files
(`FinishedWasCalled`), and that nothing is in a batch, a manifest or a statement
that was not announced (`OnlyAnnounced`).

*Why rows do not come back.* A lambda updates the rows of its batch or manifest without
looking whether they are still there. `ExclusiveInv` says why they are: sub-workflows that
go on are of one execution (`LiveInLoad`, from `OneActiveExecution`) and so of different
tables (`OwnTable`), and what one has still to load has rows until its own deletion
(`Listed`): nobody else takes them away. For the views, `DoneIsQuiet`: the last sub-workflow
of an execution to end has looked at the rows of all tables.

*Why `NothingLeftBehind` needs more.* The project is marked as deleted when an
execution of a deletion succeeded. `DeletionInv` says what such an execution has
done so far: all of its tasks are deletions, a stack it waits for was being
deleted, a stack it is done with does not exist, and nothing is created meanwhile.

*Why outputs are there.* A stack gets its parameters when the stacks before it are done;
one of these may have been passed on, so what counts is what was there before the
execution. `OutputsInv` says that as long as no deletion was asked for no stack is being
deleted, that the record shows every stack as it is, or as not found, unless its event is under way
(`RecordFresh`), so a stack that is passed is complete or not found by a retry, and that one
the execution is done with has outputs (`SourceReady`), which needs describes and reads that
work.

*Why Active means deployed.* The status is computed from the record, not from what was asked
for. `DeployedInv` says that the record shows status and version of every stack as they are
unless an event is under way (`RecordExactly`), and sorts the stacks (`StackKinds`): one is
broken, or on its way to what the saved workflow asks for, or complete. A complete stack is as
the saved workflow has it, or shows that it is of another version, or waits for its update in
this execution or, when the execution has failed, for the next retry, because a stack before it
is broken; the retry takes it up (`RetriedTogether`). That a retry can bring a stack that is half made to
the right template needs `TemplatesKept`, for an update keeps the template there is; that a
creation that times out leaves nothing complete behind it needs `CreatedInOrder`. Both parts
of `RetriedTogether` are needed: with stacks side by side, or with a stack that is not retried
with one before it, TLC finds an Active pipeline that is not deployed (section 5). It holds for
a branch by itself: the ingestion server with its Kafka connector, or data processing with
either Athena or Redshift before reporting. A whole pipeline has several branches; for it, with
any stacks, the theorem is about its creation and the retries until it is there (`CreatedOnly`),
in which no stack has to wait for a change. TLC has checked `DeployedInv` on both lines of
three stacks, with all requests and with calls of creations, upgrades and deletions that fail
(3.1M states each), and on two branches that are only created.

*Why the record needs more.* A listener writes the statuses of all stacks from a copy it has
read earlier, on the condition that `updateAt` is still that of the copy. `StampInv` says why
this is enough: of all copies (the record, the index, those of requests, reads and
listeners) two with the same stamp have the same statuses, because each write of the
statuses takes a stamp in no use, which exists because the listeners are finitely many; and
saves that put an old stamp back put its statuses back with it. `ProjectInv` is about the
deletion of the project on the end of an execution that succeeded: this is the deletion, and
no stack is left, or it is an update, and then the record has said so since before its end, so
that the listener reads that. Its parts are that a read of the console meets no other write
(`ReadsAlone`), what an execution's events still on their way may find in the record
(`EventsTrue`), that an update is in the record before its end (`UpdatesShown`), and that what
succeeded as a deletion left nothing (`DeletionsTrue`). For `StatusSettles`, `OutsideInv` says
that between executions nothing changes a stack, so that what listeners hold then is
current, and `SettleInv` that whatever the record shows wrongly is owed by an end of an
execution of which the event, or the listener at work on it, is still to come. What a
listener has fetched is right, or lacks a status for a describe that failed (`Near`).

*Why the windows need more.* `NoFileTwice` compares two windows of which neither is
the previous one of the other. `ChainInv` says that no two windows of `chain` overlap,
that `latest` is the last of them and that the invocation under way starts at its
end; `ReadInv` that a job read only what is in its seconds, and
`OneWindow` that the seconds of two windows in order have no time in common.
For `NoFileSkipped`, `CoverInv` says that every time between the start of the first
window and the end of the last is in one of `chain`, and `PlaceInv` that a job which
has read has all files of its seconds: a key has the day of the upload, so the job
looked at that day, and the upload was over when it did, by the buffer.

*Why stored days stay.* A month is read from its own key or from the latest item, and may
be under both. A scan that fails half-way leaves months newer than the latest item under
their own keys. `ItemsInv` says that then the latest item is under its own key as well, and
that the newest of these months is still torn (`Left`): a scheduled scan that reaches it
moves the latest item there, and finds it again because it starts at the recorded end
(`Ranges`). Until then the copy of the latest item under its own key may lack days stored
since; by then scans are past these days (`Beyond`), so nobody reads that copy
(`NewerFound`). `WriteInv` follows the batches: the former latest item is under its own key,
with its days, before or in the batch that overwrites the latest (`BatchItems`). There may be
any number of failures; the hypothesis that counts is that none is of a scan before it has
stored again what the one before left half-way (`~FailsAgain`): else the copies differ and
TLC finds a lost day.

*Why the refreshes need more.* `NoEventPassed` looks at one refresh; that the next one
passes nothing either depends on what the base view has. `CopyInv` says that it was filled
in the order of the merges (`OldestFirst`), that everything before `refreshed` is in it
(`RefreshedCopied`), that what a scheduled execution reports was loaded when it started, and
copied once it is past the base view (`RangesLoaded`); an operator's range reaches back to
the freshness (`LongRanges`), so it copies all that was waiting. `ReportInv` adds that a
report has only what the base view has (`OnlyCopied`), so a day that is whole stays whole
when it is written again, that every day up to that of the last success is whole
(`RefreshedWhole`), which are the days that an execution does not go back to, and that it
has made the others whole in the reports it is done with (`WrittenWhole`).
The hypotheses are not for the proof only: without each of them a run finds a
counterexample (section 5). `refresh` satisfies them all.

Assumptions on constants are those of the code's types, with one of substance: the
listeners of `PipelineRecord` are finitely many (`RecordAssumption`), as invocations are.

Model-checked only: `RowsDrain` and `RetryRecovers`, which are liveness, beyond the prover.
Every invariant and safety property of the passing runs is stated by a theorem.

## 5. Findings

* **`load_caught`** (`sp-merge-event-v2.sql:178`): the FAQ promises that no failure
  loses data; a merge procedure that catches its error ends like one that worked,
  and the rows of its files are deleted.
* **`stacks_branches`** (`stack.ts:126`): an application is added, one branch fails
  before the other has done all its stacks; the retry passes the stacks that are
  COMPLETE but were never updated, and the status becomes Active without the
  application. After an upgrade that failed in one branch, in the same
  way, the pipeline stays in Warning however often the upgrade is retried.

Caveats that the constants exclude, met while modelling:

* One branch is not enough for `ActiveMeansDeployed`: with Athena, the workflow is
  DataProcessing, Athena, DataModelingRedshift, Reporting (`pipeline.ts:1032`), but a retry of
  Athena takes up Reporting alone (`stack.ts:139`). When the update of the Athena stack ends in
  UPDATE_ROLLBACK_FAILED, the Redshift stack is not reached; the rollback is continued, the
  pipeline retried, and it is Active with the old Redshift stack (27 steps, with
  `Stacks = {"Athena", "DataModelingRedshift"}`).
* Without `Orderly`, `ActiveMeansDeployed` fails: an update asked for after a failed
  one does not run the stacks the failed one has not reached. With "Pass" or "Update"
  in `FailingCalls` too: a call that fails on a COMPLETE stack leaves no trace for the
  retry.
* Calls whose failure is only logged (`Swallowed`). With "Action", `NothingLeftBehind`
  fails: a describe that is throttled or refused during a deletion counts as a stack that
  does not exist (`sfn-action/index.ts:210`); the project is deleted, the stack is left.
  With "Pass" or "Read", stacks get empty parameters however patient the users are: a
  describe of `sfn-workflow` that fails leaves an `output.json` without outputs
  (`sfn-workflow/index.ts:104-106`, 129-131), a read of it that fails counts as an empty one
  (223-231, 252-257), and the next stack is created or updated with `''`. With "Record",
  `ActiveMeansDeployed` fails (19 steps): an update ends in UPDATE_ROLLBACK_COMPLETE, which
  `sfn-action` goes on from; the describe of that stack fails when the listener writes the
  statuses at the end of the execution (`cloudformation.ts:34-37`), its status becomes
  undefined, and the pipeline is Active.
* In `PipelineRecord` a describe that fails in the last listener leaves a status undefined
  (`StatusSettles` says so): no event is left to put it right, only a forced refresh
  (`pipeline.ts:547-555`), which is not modelled.
* With `RacingReads`, `StatusSettles` fails: the console's list reads a record that
  says RUNNING, the listener writes SUCCEEDED, the list saves the old record back,
  `updateAt` included (`pipeline.ts:563`). The pipeline stays "Updating" until somebody
  asks for a forced refresh. `DeletedOnlyWhenGone` fails too, in 27 steps: a request to add an
  application passes the check of the status through the index that lags just after a
  deletion was started, a console's read saves back the record whose last action is the
  deletion, and the end of the update deletes the project before its stacks.
* A listener that meets more than `MAX_RETRY_COUNT` other writes gives up without an
  error (`listen-tools.ts:173`): `StatusSettles` is about runs without one. A request
  whose save fails has started its execution already: `DeletedOnlyWhenGone` is about
  runs without one; and an end of an earlier execution that is delivered again after
  the deletion was asked for would delete the project at once (guard of `Delete`).
* With `LateKeys`, `NoFileSkipped` fails: Vector names a batch after the day of its
  first event (`vector-s3.toml`), up to an hour before it uploads it; the window after
  midnight does not look at the day before.
* With `FailsAgain`, `Careless`, `Throttled`, `Paged` or `EarlyEvents`, `StoredDaysKept`
  fails. A scan that fails half-way leaves a month under both keys with different days:
  another failure before its days are stored again, of which a repeated timeout is the
  likely case (`FailsAgain`), or an operator's scan before the next scheduled one
  (`Careless`) loses some of them, and so does a scan by hand that fails on days no
  scheduled scan reaches yet (`EarlyEvents`). Unprocessed items of a batch are dropped
  (`store-metadata-into-ddb.ts:203`, `Throttled`). The query for an item (367-385) has a
  filter and ignores `LastEvaluatedKey`: with more than a page of items, an older month
  behind the first page is taken for a new one and its item overwritten (`Paged`).
* With `CallsFail`, `FailuresReported` does not say anything, and a failed job goes
  unreported: `emr-job-state-listener` (`index.ts:88-95`) is invoked three times, and then
  the event is gone.
* `RefreshAfterMerges` is about rows. When the answer of a submission is lost
  (`SubmitAgain`), the first statement runs unobserved, and may still run when the views
  are refreshed.
* `NeverBlind` is about users who retry a deletion that failed: an update is allowed then as
  well (`api/service/pipeline.ts:182`), and passes a stack whose status is DELETE_COMPLETE like
  any that is not edited (`stack.ts:381`); those after it get empty parameters.
* With `LateLoads`, `ReportsComplete` fails: the day to report is that before the end of
  the latest window, which is submitted but not loaded (`refresh-views.ts:44`). With a day
  of 25 hours in `DayStart` too: the lambda goes back 24 (`refresh-views.ts:106`).
* With `CaughtErrors`, `NoEventPassed` and `ReportsComplete` fail. Whether the code can get
  there is Redshift's: the procedures of the base view and of the reports end with EXCEPTION
  WHEN OTHERS too (`clickstream_event_base_view_sp.sql:519`), but they are not NONATOMIC like
  those of the load, and Redshift raises an error again that an atomic procedure has caught,
  so the statement ends FAILED and nothing is recorded. `CaughtErrors` is FALSE for that reason.
* With `ShortRanges`, `NoEventPassed` fails: a run by hand for the last hours copies newer
  merges, and the older events that were not copied yet are behind the watermark from then
  on. With a `MaxGap` beyond `Freshness`: events of a longer stop are too old to be copied;
  with one beyond `ReportDays` days, `ReportsComplete` fails: days before them are skipped.
* `getRrefreshSpDays` counts whole times of 24 hours (`check-start-sp-refresh.ts:102`): a
  range from one afternoon to the morning two days later recalculates two days, not three.
* A run by hand of the EMR submitter with its own timestamps but without `reRunJob` moves
  the latest window (`emr-client-util.ts:382`); `DELETE /pipeline` deletes the record
  before its stacks (`api/service/pipeline.ts:238`). Neither is what the FAQ or the console asks for,
  and neither is modelled. The range of a scan ends where the latest window does, loaded or not
  (`check-metadata-workflow-start.ts:177`).
* `MergeThrows`: a late event of an old month and one of a new month, without any of
  the month of the latest item between, make `store-metadata-into-ddb` throw
  (`store-metadata-into-ddb.ts:283-296`); it throws again until the latest month is in
  the range.
* `has-more-job-new` does not count ENQUEUE rows: those that failed executions left
  beyond the batch limit wait for the next EMR job, although the architecture guide
  lets the workflow end "after all objects are loaded".
* `_getRetryStackNames` has no dependents for DataModelingS3Tables.
* S3 tables modeling looks for partitions the ETL does not write (see its
  component note).

## 6. Not modelled

`PROJECT.json` gives the reason per component. Most of the repository's lines are
data: SQL and its builders, the templates and parameters of stacks, CDK
declarations, the ETL's transformations, rules of traffic sources, the user interface.
Left out of the modelled parts:
metrics and log lines; wait times; the content of parameters, templates and
manifests; the EventBridge rules and SNS topics of a pipeline; validation of
requests; in `PipelineRecord`, creation and upgrade (their saves are those of a
creation of an item and of an update), the forced refresh and `DELETE /pipeline`;
in `MetadataScan`, the summary of the latest scan in DynamoDB, which nothing reads,
the items of user attributes and the loop over applications; in `ViewRefresh`, the
modes without reports, that loop, and the views that Redshift refreshes by itself.

## 7. Plan

In the order of what matters most:

1. Composition of `EmrJobWindows` with `LoadDataWorkflow`, `MetadataScan` and
   `ViewRefresh`: the end of a window is what scan and refresh take as their end, and a
   file's days are loaded after it.
2. The refinement `LifecycleSpec` with caught errors as a step of their own; the same kind of
   abstract specification for the record of a pipeline.
3. Field filter rules; S3 tables modeling when its input is settled.

Runs are few on purpose; a new module brings one or two, each for a question of
its own. `load_overlap` and `load_lifecycle`, or the findings of the deployment,
are the ones to merge first.
