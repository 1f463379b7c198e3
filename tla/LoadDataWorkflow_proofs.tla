----------------------- MODULE LoadDataWorkflow_proofs -----------------------
(***************************************************************************)
(* Proofs about LoadDataWorkflow, for any files, tables, applications,     *)
(* executions, statements and limits.                                      *)
(***************************************************************************)
EXTENDS LoadDataWorkflow, TLAPS

USE DEF queueVars, subVars, Subs, SubsOf

\* What the helpers do to typed state.
LEMMA EndSubsType ==
  ASSUME TypeOK, NEW X \in SUBSET Subs, NEW how \in {"failed", "stopped"}, EndSubs(X, how)
  PROVE  /\ pc' \in [Subs -> Steps]
         /\ batch' \in [Subs -> SUBSET Files]
         /\ job' \in [Subs -> SUBSET Files]
         /\ retry' \in [Subs -> 0..MaxRetry]
         /\ ref' \in [Subs -> Statements \union {None}]
         /\ stmt' \in [Statements -> [status : StmtState, files : SUBSET Files]]
BY LoadAssumption DEF TypeOK, EndSubs, Steps, Idle, StmtState

LEMMA RetryType ==
  ASSUME TypeOK, NEW x \in Subs, NEW n \in 0..MaxRetry, retry' = [retry EXCEPT ![x] = n]
  PROVE  retry' \in [Subs -> 0..MaxRetry]
BY DEF TypeOK

LEMMA ZeroRetry == 0 \in 0..MaxRetry
BY LoadAssumption

LEMMA RowsType ==
  ASSUME TypeOK, NEW S, NEW status \in Status,
         SetRows(S, status) \/ UpdateRows(S, status)
  PROVE  row' \in [Files -> Status]
BY DEF TypeOK, SetRows, UpdateRows, Status

\* The state keeps its types.
THEOREM TypeCorrect == Spec => []TypeOK
<1>1. Init => TypeOK
  BY LoadAssumption DEF Init, TypeOK, Status, Phases, Steps, StmtState, Idle
<1>2. TypeOK /\ [Next]_vars => TypeOK'
  <2> SUFFICES ASSUME TypeOK, [Next]_vars PROVE TypeOK'
    OBVIOUS
  <2>1. CASE UNCHANGED vars
    BY <2>1 DEF vars, TypeOK
  <2>2. ASSUME NEW f \in Files, Notify(f) PROVE TypeOK'
    <3>1. CASE SendNotice(f)
      BY <3>1, LoadAssumption DEF SendNotice, TypeOK
    <3>2. CASE DropNotice(f)
      BY <3>2, LoadAssumption DEF DropNotice, TypeOK
    <3>3. CASE PutItem(f)
      BY <3>3, LoadAssumption DEF PutItem, TypeOK, SetRows, Status
    <3> QED BY <2>2, <3>1, <3>2, <3>3 DEF Notify
  <2>3. ASSUME NEW e \in Executions, MainStep(e) PROVE TypeOK'
    <3>1. CASE StartExecution(e)
      BY <3>1 DEF StartExecution, TypeOK, Phases, Steps
    <3>2. CASE CheckSkipping(e)
      BY <3>2 DEF CheckSkipping, TypeOK, Phases, Steps
    <3>3. CASE LoadCompleted(e)
      BY <3>3 DEF LoadCompleted, TypeOK, Phases
    <3>4. CASE RefreshViews(e)
      BY <3>4 DEF RefreshViews, TypeOK, Phases
    <3>5. CASE ExecutionFails(e)
      <4>1. CASE PromptStop
        BY <3>5, <4>1, EndSubsType DEF ExecutionFails, TypeOK, Phases
      <4>2. CASE ~PromptStop
        BY <3>5, <4>2 DEF ExecutionFails, TypeOK, Phases
      <4> QED BY <4>1, <4>2
    <3> QED BY <2>3, <3>1, <3>2, <3>3, <3>4, <3>5 DEF MainStep
  <2>4. ASSUME NEW x \in Subs, SubStep(x) PROVE TypeOK'
    <3>1. CASE QueryItems(x)
      BY <3>1 DEF QueryItems, Batches, Pending, Goto, TypeOK, Steps
    <3>2. CASE EnqueueItems(x)
      BY <3>2, RowsType DEF EnqueueItems, Goto, TypeOK, Steps, Status
    <3>3. CASE EnqueueAgain(x)
      BY <3>3, RowsType DEF EnqueueAgain, Goto, TypeOK, Steps, Status
    <3>4. CASE EnqueueFails(x)
      <4>1. row' \in [Files -> Status]
        BY <3>4, RowsType DEF EnqueueFails, Status
      <4> QED BY <3>4, <4>1, EndSubsType DEF EnqueueFails, TypeOK
    <3>5. CASE NextManifest(x)
      <4>1. CASE batch[x] = {}
        BY <3>5, <4>1 DEF NextManifest, Goto, TypeOK, Steps
      <4>2. CASE batch[x] # {}
        <5>1. PICK a : /\ job' = [job EXCEPT ![x] = {f \in batch[x] : AppOf[f] = a}]
                       /\ batch' = [batch EXCEPT ![x] = @ \ {f \in batch[x] : AppOf[f] = a}]
                       /\ retry' = [retry EXCEPT ![x] = 0]
                       /\ Goto(x, "submit")
          BY <3>5, <4>2 DEF NextManifest
        <5>2. batch[x] \in SUBSET Files
          BY DEF TypeOK
        <5>3. retry' \in [Subs -> 0..MaxRetry]
          BY <5>1, RetryType, ZeroRetry
        <5>4. /\ job' \in [Subs -> SUBSET Files]
              /\ batch' \in [Subs -> SUBSET Files]
              /\ pc' \in [Subs -> Steps]
          BY <5>1, <5>2 DEF TypeOK, Goto, Steps
        <5> QED BY <3>5, <5>3, <5>4 DEF NextManifest, TypeOK
      <4> QED BY <4>1, <4>2
    <3>6. CASE SubmitJob(x)
      BY <3>6, RowsType DEF SubmitJob, Execute, Goto, TypeOK, Steps, Status, StmtState
    <3>7. CASE SubmitAgain(x)
      BY <3>7, RowsType DEF SubmitAgain, Execute, TypeOK, Status, StmtState
    <3>8. CASE SubmitFails(x)
      <4>1. row' \in [Files -> Status]
        BY <3>8, RowsType DEF SubmitFails, Status
      <4> QED BY <3>8, <4>1, EndSubsType DEF SubmitFails, TypeOK
    <3>9. CASE CheckFinished(x)
      <4>1. retry' \in [Subs -> 0..MaxRetry]
        BY <3>9, RetryType, ZeroRetry DEF CheckFinished
      <4>2. row' \in [Files -> Status]
        BY <3>9, RowsType DEF CheckFinished, Status
      <4>3. /\ job' \in [Subs -> SUBSET Files]
            /\ ref' \in [Subs -> Statements \union {None}]
            /\ pc' \in [Subs -> Steps]
            /\ stmt' \in [Statements -> [status : StmtState, files : SUBSET Files]]
        BY <3>9 DEF CheckFinished, Release, Goto, TypeOK, Steps, StmtState, Idle
      <4> QED BY <3>9, <4>1, <4>2, <4>3 DEF CheckFinished, TypeOK
    <3>10. CASE CheckFinishedAgain(x)
      BY <3>10, RowsType DEF CheckFinishedAgain, TypeOK, Status
    <3>11. CASE CheckFails(x)
      <4>1. row' \in [Files -> Status]
        BY <3>11, RowsType DEF CheckFails, Status
      <4> QED BY <3>11, <4>1, EndSubsType DEF CheckFails, TypeOK
    <3>12. CASE CheckConflict(x)
      <4>1. retry[x] + 1 \in 0..MaxRetry
        BY <3>12, LoadAssumption DEF CheckConflict, TypeOK
      <4>2. retry' \in [Subs -> 0..MaxRetry]
        BY <3>12, <4>1, RetryType DEF CheckConflict
      <4>3. /\ ref' \in [Subs -> Statements \union {None}]
            /\ pc' \in [Subs -> Steps]
            /\ stmt' \in [Statements -> [status : StmtState, files : SUBSET Files]]
        BY <3>12 DEF CheckConflict, Release, Goto, TypeOK, Steps, StmtState, Idle
      <4> QED BY <3>12, <4>2, <4>3 DEF CheckConflict, TypeOK
    <3>13. CASE JobFails(x)
      BY <3>13, EndSubsType DEF JobFails, TypeOK
    <3>14. CASE CheckMoreWork(x)
      BY <3>14 DEF CheckMoreWork, Goto, TypeOK, Steps
    <3>15. CASE LambdaFails(x)
      BY <3>15, EndSubsType DEF LambdaFails, TypeOK
    <3>16. CASE StopSub(x)
      BY <3>16, EndSubsType DEF StopSub, TypeOK
    <3> QED BY <2>4, <3>1, <3>2, <3>3, <3>4, <3>5, <3>6, <3>7, <3>8, <3>9, <3>10,
               <3>11, <3>12, <3>13, <3>14, <3>15, <3>16 DEF SubStep
  <2>5. ASSUME NEW s \in Statements, Redshift(s) PROVE TypeOK'
    <3>1. CASE FinishStatement(s)
      BY <3>1 DEF FinishStatement, TypeOK, StmtState, Idle
    <3>2. CASE CatchError(s)
      BY <3>2 DEF CatchError, TypeOK, StmtState, Idle
    <3>3. CASE BreakStatement(s)
      BY <3>3 DEF BreakStatement, TypeOK, StmtState, Idle
    <3> QED BY <2>5, <3>1, <3>2, <3>3 DEF Redshift
  <2> QED BY <2>1, <2>2, <2>3, <2>4, <2>5 DEF Next
<1> QED BY <1>1, <1>2, PTL DEF Spec

-----------------------------------------------------------------------------
\* The inductive invariant.  First what is said of an early end.
LEMMA EndSubsInv ==
  ASSUME LoadInv, NEW X \in SUBSET Subs, NEW how \in {"failed", "stopped"}, EndSubs(X, how),
         UNCHANGED <<merged, caught>>
  PROVE  /\ PollsItsStatement'
         /\ OneObserver'
         /\ FinishedWasCalled'
         /\ \A x \in Subs : batch'[x] \union job'[x] \subseteq announced
         /\ \A s \in Statements : stmt'[s].files \subseteq announced
<1> USE DEF LoadInv, EndSubs, Over
<1>1. \A y \in Subs : pc'[y] = "poll" => /\ y \notin X /\ pc[y] = "poll" /\ ref'[y] = ref[y] /\ job'[y] = job[y]
  BY DEF TypeOK
<1>2. \A y \in Subs : pc'[y] = "poll" => stmt'[ref[y]] = stmt[ref[y]]
  BY <1>1 DEF PollsItsStatement, OneObserver
<1>3. PollsItsStatement'
  BY <1>1, <1>2 DEF PollsItsStatement
<1>4. OneObserver'
  BY <1>1 DEF OneObserver
<1>5. FinishedWasCalled'
  BY DEF FinishedWasCalled, TypeOK, Idle
<1>6. \A x \in Subs : batch'[x] \union job'[x] \subseteq announced
  BY DEF OnlyAnnounced, TypeOK
<1>7. \A s \in Statements : stmt'[s].files \subseteq announced
  BY DEF OnlyAnnounced, TypeOK, Idle
<1> QED BY <1>3, <1>4, <1>5, <1>6, <1>7

\* Rows that are put or updated for announced files lose nothing.
LEMMA RowsKept ==
  ASSUME LoadInv, NEW S \in SUBSET announced, NEW status \in Status \ {"none"},
         SetRows(S, status) \/ UpdateRows(S, status), UNCHANGED <<merged, caught, announced>>
  PROVE  NoFileLost' /\ (Existing \subseteq announced)'
BY DEF LoadInv, SetRows, UpdateRows, NoFileLost, Existing, OnlyAnnounced, TypeOK, Status, Pending

\* Rows that are deleted for files already merged lose nothing either.
LEMMA RowsDeleted ==
  ASSUME LoadInv, NEW S \in SUBSET (merged \union caught),
         SetRows(S, "none"), UNCHANGED <<merged, caught, announced>>
  PROVE  NoFileLost' /\ (Existing \subseteq announced)'
BY DEF LoadInv, SetRows, NoFileLost, Existing, OnlyAnnounced, TypeOK

\* The parts of the invariant that a step can break, but for the types.
Tracked == PollsItsStatement /\ OneObserver /\ FinishedWasCalled

\* A step that moves a sub-workflow between states other than "poll" and
\* leaves the manifests of the polling ones and the statements alone.
LEMMA TrackedFrame ==
  ASSUME LoadInv, UNCHANGED <<ref, stmt, merged, caught>>,
         \A y \in Subs : pc'[y] = "poll" => pc[y] = "poll" /\ job'[y] = job[y]
  PROVE  Tracked'
BY DEF LoadInv, Tracked, PollsItsStatement, OneObserver, FinishedWasCalled

\* A new statement in a free slot, polled by x or by nobody.
LEMMA TrackedExecute ==
  ASSUME LoadInv, NEW x \in Subs, NEW s \in Statements, Free(s), Execute(s, x),
         pc[x] = "submit", UNCHANGED <<job, merged, caught>>,
         \/ UNCHANGED <<pc, ref>>
         \/ ref' = [ref EXCEPT ![x] = s] /\ Goto(x, "poll")
  PROVE  /\ Tracked'
         /\ \A r \in Statements : stmt'[r].files \subseteq announced
<1> USE DEF LoadInv
<1>1. /\ stmt' = [stmt EXCEPT ![s] = [status |-> "running", files |-> job[x]]]
      /\ stmt[s].status = "idle"
  BY DEF Execute, Free
<1>2. \A r \in Statements : stmt'[r] = IF r = s THEN [status |-> "running", files |-> job[x]] ELSE stmt[r]
  BY <1>1 DEF TypeOK
<1>3. \A r \in Statements : stmt'[r].files \subseteq announced
  BY <1>2 DEF OnlyAnnounced
<1>4. FinishedWasCalled'
  BY <1>2 DEF FinishedWasCalled
<1>5. \A y \in Subs : pc[y] = "poll" => ref[y] # s /\ y # x
  BY <1>1 DEF PollsItsStatement
<1>6. CASE UNCHANGED <<pc, ref>>
  BY <1>2, <1>3, <1>4, <1>5, <1>6 DEF Tracked, PollsItsStatement, OneObserver
<1>7. CASE ref' = [ref EXCEPT ![x] = s] /\ Goto(x, "poll")
  <2>1. \A y \in Subs : /\ ref'[y] = IF y = x THEN s ELSE ref[y]
                        /\ pc'[y] = IF y = x THEN "poll" ELSE pc[y]
    BY <1>7 DEF Goto, TypeOK
  <2> QED BY <1>2, <1>3, <1>4, <1>5, <2>1 DEF Tracked, PollsItsStatement, OneObserver
<1> QED BY <1>6, <1>7

\* A polled statement is let go.
LEMMA TrackedRelease ==
  ASSUME LoadInv, NEW x \in Subs, pc[x] = "poll", Release(x),
         NEW step \in {"map", "submit"}, Goto(x, step), UNCHANGED <<merged, caught>>,
         \A y \in Subs \ {x} : job'[y] = job[y]
  PROVE  /\ Tracked'
         /\ \A r \in Statements : stmt'[r].files \subseteq announced
<1> USE DEF LoadInv
<1>1. ref[x] \in Statements
  BY DEF PollsItsStatement
<1>2. \A r \in Statements : stmt'[r] = IF r = ref[x] THEN Idle ELSE stmt[r]
  BY <1>1 DEF Release, TypeOK
<1>3. \A y \in Subs : pc'[y] = "poll" => pc[y] = "poll" /\ y # x /\ ref'[y] = ref[y]
  BY DEF Release, Goto, TypeOK
<1>4. \A y \in Subs : pc'[y] = "poll" => ref[y] # ref[x]
  BY <1>3 DEF OneObserver
<1>5. PollsItsStatement'
  BY <1>2, <1>3, <1>4 DEF PollsItsStatement
<1>6. OneObserver'
  BY <1>3 DEF OneObserver
<1>7. FinishedWasCalled'
  BY <1>2 DEF FinishedWasCalled, Idle
<1>8. \A r \in Statements : stmt'[r].files \subseteq announced
  BY <1>2 DEF OnlyAnnounced, Idle
<1> QED BY <1>5, <1>6, <1>7, <1>8 DEF Tracked

\* A statement ends; its status is kept for the sub-workflow that polls it.
LEMMA TrackedEnd ==
  ASSUME LoadInv, NEW s \in Statements,
         NEW status \in {"finished", "conflict", "failed", "aborted"},
         stmt' = [stmt EXCEPT ![s] = IF Polled(s) THEN [@ EXCEPT !.status = status] ELSE Idle],
         merged \union caught \subseteq merged' \union caught',
         status = "finished" => stmt[s].files \subseteq merged' \union caught',
         UNCHANGED <<subVars>>
  PROVE  /\ Tracked'
         /\ \A r \in Statements : stmt'[r].files \subseteq announced
<1> USE DEF LoadInv
<1>1. \A r \in Statements \ {s} : stmt'[r] = stmt[r]
  BY DEF TypeOK
<1>2. stmt'[s] = IF Polled(s) THEN [stmt[s] EXCEPT !.status = status] ELSE Idle
  BY DEF TypeOK
<1>3. stmt[s] \in [status : StmtState, files : SUBSET Files]
  BY DEF TypeOK
<1>4. /\ Polled(s) => stmt'[s].status = status /\ stmt'[s].files = stmt[s].files
      /\ ~Polled(s) => stmt'[s].status = "idle" /\ stmt'[s].files = {}
  BY <1>2, <1>3 DEF Idle
<1>5. PollsItsStatement'
  BY <1>1, <1>4 DEF PollsItsStatement, Polled
<1>6. OneObserver'
  BY DEF OneObserver
<1>7. FinishedWasCalled'
  BY <1>1, <1>4 DEF FinishedWasCalled
<1>8. \A r \in Statements : stmt'[r].files \subseteq announced
  BY <1>1, <1>4 DEF OnlyAnnounced
<1> QED BY <1>5, <1>6, <1>7, <1>8 DEF Tracked

\* Every step keeps the invariant, but for the types.
LEMMA LoadInvStep ==
  ASSUME LoadInv, [Next]_vars
  PROVE  Tracked' /\ OnlyAnnounced' /\ NoFileLost'
<1> USE DEF LoadInv
<1>1. CASE UNCHANGED vars
  BY <1>1 DEF vars, Tracked, PollsItsStatement, OneObserver, FinishedWasCalled,
              OnlyAnnounced, NoFileLost, Existing
<1>2. ASSUME NEW f \in Files, Notify(f) PROVE Tracked' /\ OnlyAnnounced' /\ NoFileLost'
  <2>1. CASE SendNotice(f) \/ DropNotice(f)
    BY <2>1 DEF SendNotice, DropNotice, Tracked, PollsItsStatement, OneObserver,
                FinishedWasCalled, OnlyAnnounced, NoFileLost, Existing
  <2>2. CASE PutItem(f)
    <3>1. Tracked'
      BY <2>2, TrackedFrame DEF PutItem
    <3>2. OnlyAnnounced' /\ NoFileLost'
      BY <2>2 DEF PutItem, SetRows, OnlyAnnounced, NoFileLost, Existing, TypeOK
    <3> QED BY <3>1, <3>2
  <2> QED BY <1>2, <2>1, <2>2 DEF Notify
<1>3. ASSUME NEW e \in Executions, MainStep(e) PROVE Tracked' /\ OnlyAnnounced' /\ NoFileLost'
  <2>1. CASE StartExecution(e) \/ CheckSkipping(e) \/ LoadCompleted(e) \/ RefreshViews(e)
    <3>1. UNCHANGED <<row, batch, job, ref, stmt, merged, announced, caught>>
      BY <2>1 DEF StartExecution, CheckSkipping, LoadCompleted, RefreshViews
    <3>2. \A y \in Subs : pc'[y] = "poll" => pc[y] = "poll" /\ job'[y] = job[y]
      BY <2>1 DEF StartExecution, CheckSkipping, LoadCompleted, RefreshViews, TypeOK
    <3>3. Tracked'
      BY <3>1, <3>2, TrackedFrame
    <3> QED BY <3>1, <3>3 DEF OnlyAnnounced, NoFileLost, Existing
  <2>2. CASE ExecutionFails(e)
    <3>1. UNCHANGED <<row, merged, announced, caught>>
      BY <2>2 DEF ExecutionFails
    <3>2. CASE PromptStop
      BY <2>2, <3>1, <3>2, EndSubsInv
      DEF ExecutionFails, Tracked, OnlyAnnounced, NoFileLost, Existing
    <3>3. CASE ~PromptStop
      BY <2>2, <3>1, <3>3, TrackedFrame
      DEF ExecutionFails, OnlyAnnounced, NoFileLost, Existing
    <3> QED BY <3>2, <3>3
  <2> QED BY <1>3, <2>1, <2>2 DEF MainStep
<1>4. ASSUME NEW x \in Subs, SubStep(x) PROVE Tracked' /\ OnlyAnnounced' /\ NoFileLost'
  <2>1. CASE QueryItems(x)
    <3>1. Tracked'
      BY <2>1, TrackedFrame DEF QueryItems, Goto, TypeOK
    <3>2. PICK B \in Batches(x[2]) : batch' = [batch EXCEPT ![x] = B]
      BY <2>1 DEF QueryItems
    <3>3. B \subseteq announced
      BY DEF Batches, Pending, Existing, OnlyAnnounced
    <3>4. OnlyAnnounced'
      BY <2>1, <3>2, <3>3 DEF QueryItems, OnlyAnnounced, Existing, TypeOK
    <3> QED BY <2>1, <3>1, <3>4 DEF QueryItems, NoFileLost, Existing
  <2>2. CASE EnqueueItems(x) \/ EnqueueAgain(x)
    <3>1. UNCHANGED <<job, ref, stmt, merged, announced, caught>>
      BY <2>2 DEF EnqueueItems, EnqueueAgain
    <3>2. Tracked'
      BY <2>2, <3>1, TrackedFrame DEF EnqueueItems, EnqueueAgain, Goto, TypeOK
    <3>3. batch[x] \subseteq announced
      BY DEF OnlyAnnounced
    <3>4. \E S \in SUBSET announced : UpdateRows(S, "ENQUEUE")
      BY <2>2, <3>3 DEF EnqueueItems, EnqueueAgain
    <3>5. NoFileLost' /\ (Existing \subseteq announced)'
      BY <3>1, <3>4, RowsKept DEF Status
    <3>6. \A y \in Subs : batch'[y] \subseteq announced
      BY <2>2 DEF EnqueueItems, EnqueueAgain, OnlyAnnounced, TypeOK
    <3> QED BY <3>1, <3>2, <3>5, <3>6 DEF OnlyAnnounced
  <2>3. CASE EnqueueFails(x) \/ SubmitFails(x)
    <3>1. EndSubs({x}, "failed") /\ UNCHANGED <<merged, announced, caught>>
      BY <2>3 DEF EnqueueFails, SubmitFails
    <3>2. \E S \in SUBSET announced : UpdateRows(S, "ENQUEUE") \/ UpdateRows(S, "PROCESSING")
      BY <2>3 DEF EnqueueFails, SubmitFails, OnlyAnnounced
    <3>3. NoFileLost' /\ (Existing \subseteq announced)'
      BY <3>1, <3>2, RowsKept DEF Status
    <3> QED BY <3>1, <3>3, EndSubsInv DEF Tracked, OnlyAnnounced
  <2>4. CASE NextManifest(x)
    <3>1. Tracked'
      BY <2>4, TrackedFrame DEF NextManifest, Goto, TypeOK
    <3>2. \A y \in Subs : batch'[y] \union job'[y] \subseteq announced
      <4>1. CASE batch[x] = {}
        BY <2>4, <4>1 DEF NextManifest, OnlyAnnounced
      <4>2. CASE batch[x] # {}
        <5>1. PICK F \in SUBSET batch[x] : /\ job' = [job EXCEPT ![x] = F]
                                          /\ batch' = [batch EXCEPT ![x] = @ \ F]
          BY <2>4, <4>2 DEF NextManifest
        <5> QED BY <5>1 DEF OnlyAnnounced, TypeOK
      <4> QED BY <4>1, <4>2
    <3> QED BY <2>4, <3>1, <3>2 DEF NextManifest, OnlyAnnounced, NoFileLost, Existing
  <2>5. CASE SubmitJob(x) \/ SubmitAgain(x)
    <3>1. UNCHANGED <<batch, job, merged, announced, caught>>
      BY <2>5 DEF SubmitJob, SubmitAgain
    <3>2. job[x] \subseteq announced
      BY DEF OnlyAnnounced
    <3>3. NoFileLost' /\ (Existing \subseteq announced)'
      BY <2>5, <3>1, <3>2, RowsKept DEF SubmitJob, SubmitAgain, Status
    <3>4. Tracked' /\ \A r \in Statements : stmt'[r].files \subseteq announced
      BY <2>5, TrackedExecute DEF SubmitJob, SubmitAgain
    <3> QED BY <3>1, <3>3, <3>4 DEF OnlyAnnounced
  <2>6. CASE CheckFinished(x)
    <3>1. job[x] \in SUBSET (merged \union caught)
      BY <2>6 DEF CheckFinished, Polls, PollsItsStatement, FinishedWasCalled
    <3>2. NoFileLost' /\ (Existing \subseteq announced)'
      BY <2>6, <3>1, RowsDeleted DEF CheckFinished
    <3>3. \A y \in Subs \ {x} : job'[y] = job[y]
      BY <2>6 DEF CheckFinished, TypeOK
    <3>4. Tracked' /\ \A r \in Statements : stmt'[r].files \subseteq announced
      BY <2>6, <3>3, TrackedRelease DEF CheckFinished, Polls
    <3>5. \A y \in Subs : batch'[y] \union job'[y] \subseteq announced
      BY <2>6 DEF CheckFinished, OnlyAnnounced, TypeOK
    <3> QED BY <2>6, <3>2, <3>4, <3>5 DEF CheckFinished, OnlyAnnounced
  <2>7. CASE CheckFinishedAgain(x)
    <3>1. job[x] \in SUBSET (merged \union caught)
      BY <2>7 DEF CheckFinishedAgain, Polls, PollsItsStatement, FinishedWasCalled
    <3>2. NoFileLost' /\ (Existing \subseteq announced)'
      BY <2>7, <3>1, RowsDeleted DEF CheckFinishedAgain
    <3>3. Tracked'
      BY <2>7, TrackedFrame DEF CheckFinishedAgain
    <3> QED BY <2>7, <3>2, <3>3 DEF CheckFinishedAgain, OnlyAnnounced
  <2>8. CASE CheckFails(x)
    <3>1. PICK S \in SUBSET job[x] : (S # {} => Polls(x, "finished")) /\ SetRows(S, "none")
      BY <2>8 DEF CheckFails
    <3>2. S \in SUBSET (merged \union caught)
      BY <3>1 DEF Polls, PollsItsStatement, FinishedWasCalled
    <3>3. NoFileLost' /\ (Existing \subseteq announced)'
      BY <2>8, <3>1, <3>2, RowsDeleted DEF CheckFails
    <3> QED BY <2>8, <3>3, EndSubsInv DEF CheckFails, Tracked, OnlyAnnounced
  <2>9. CASE CheckConflict(x)
    <3>1. Tracked' /\ \A r \in Statements : stmt'[r].files \subseteq announced
      BY <2>9, TrackedRelease DEF CheckConflict, Polls
    <3> QED BY <2>9, <3>1 DEF CheckConflict, OnlyAnnounced, NoFileLost, Existing
  <2>10. CASE JobFails(x) \/ LambdaFails(x) \/ StopSub(x)
    <3>1. UNCHANGED <<row, merged, announced, caught>>
      BY <2>10 DEF JobFails, LambdaFails, StopSub
    <3>2. EndSubs({x}, "failed") \/ EndSubs({x}, "stopped")
      BY <2>10 DEF JobFails, LambdaFails, StopSub
    <3> QED BY <3>1, <3>2, EndSubsInv DEF Tracked, OnlyAnnounced, NoFileLost, Existing
  <2>11. CASE CheckMoreWork(x)
    <3>1. Tracked'
      BY <2>11, TrackedFrame DEF CheckMoreWork, Goto, TypeOK
    <3> QED BY <2>11, <3>1 DEF CheckMoreWork, OnlyAnnounced, NoFileLost, Existing
  <2> QED BY <1>4, <2>1, <2>2, <2>3, <2>4, <2>5, <2>6, <2>7, <2>8, <2>9, <2>10, <2>11
          DEF SubStep
<1>5. ASSUME NEW s \in Statements, Redshift(s) PROVE Tracked' /\ OnlyAnnounced' /\ NoFileLost'
  <2>1. UNCHANGED <<row, subVars, announced>>
    BY <1>5 DEF Redshift, FinishStatement, CatchError, BreakStatement
  <2>2. merged \union caught \subseteq merged' \union caught'
    BY <1>5 DEF Redshift, FinishStatement, CatchError, BreakStatement
  <2>3. Tracked' /\ \A r \in Statements : stmt'[r].files \subseteq announced
    BY <1>5, <2>1, <2>2, TrackedEnd DEF Redshift, FinishStatement, CatchError, BreakStatement
  <2> QED BY <2>1, <2>2, <2>3 DEF OnlyAnnounced, NoFileLost, Existing
<1> QED BY <1>1, <1>2, <1>3, <1>4, <1>5 DEF Next

\* No failure, lost answer, repeated notification or overlap of executions
\* makes the workflow forget a file that was announced and whose merge did
\* not end in a caught error.
THEOREM LoadInvariance == Spec => []LoadInv
<1>1. Init => PollsItsStatement /\ OneObserver /\ FinishedWasCalled /\ OnlyAnnounced /\ NoFileLost
  BY DEF Init, PollsItsStatement, OneObserver, FinishedWasCalled, OnlyAnnounced, NoFileLost,
         Existing, Idle
<1>2. LoadInv /\ [Next]_vars /\ TypeOK' => LoadInv'
  BY LoadInvStep DEF LoadInv, Tracked
<1> QED BY <1>1, <1>2, TypeCorrect, PTL DEF Spec, LoadInv

THEOREM FilesAreKept == Spec => []NoFileLost
BY LoadInvariance, PTL DEF LoadInv

-----------------------------------------------------------------------------
\* Mutual exclusion of the executions that went past the skip check.
THEOREM ExecutionsExclude == Spec => []OneActiveExecution
<1>1. Init => OneActiveExecution
  BY DEF Init, OneActiveExecution
<1>2. TypeOK /\ OneActiveExecution /\ [Next]_vars => OneActiveExecution'
  <2> SUFFICES ASSUME TypeOK, OneActiveExecution, [Next]_vars, ~StaleListing
               PROVE  OneActiveExecution'
    BY DEF OneActiveExecution
  <2> DEFINE Active(e) == phase[e] \in {"load", "refresh"}
  <2>1. CASE UNCHANGED phase
    BY <2>1 DEF OneActiveExecution
  <2>2. ASSUME NEW e \in Executions, CheckSkipping(e) PROVE OneActiveExecution'
    <3>1. CASE OthersRunning(e) = {}
      BY <2>2, <3>1 DEF CheckSkipping, OthersRunning, Running, OneActiveExecution, TypeOK
    <3>2. CASE OthersRunning(e) # {}
      BY <2>2, <3>2 DEF CheckSkipping, OneActiveExecution, TypeOK
    <3> QED BY <3>1, <3>2
  <2>3. ASSUME NEW e \in Executions,
               \/ StartExecution(e) \/ LoadCompleted(e) \/ RefreshViews(e) \/ ExecutionFails(e)
        PROVE  OneActiveExecution'
    BY <2>3 DEF StartExecution, LoadCompleted, RefreshViews, ExecutionFails,
                OneActiveExecution, TypeOK
  <2>4. ASSUME NEW f \in Files, Notify(f) PROVE UNCHANGED phase
    BY <2>4 DEF Notify, SendNotice, DropNotice, PutItem
  <2>5. ASSUME NEW x \in Subs, SubStep(x) PROVE UNCHANGED phase
    BY <2>5 DEF SubStep, QueryItems, EnqueueItems, EnqueueAgain, EnqueueFails, NextManifest,
                SubmitJob, SubmitAgain, SubmitFails, CheckFinished, CheckFinishedAgain,
                CheckFails, CheckConflict, JobFails, CheckMoreWork, LambdaFails, StopSub
  <2>6. ASSUME NEW s \in Statements, Redshift(s) PROVE UNCHANGED phase
    BY <2>6 DEF Redshift, FinishStatement, CatchError, BreakStatement
  <2> QED BY <2>1, <2>2, <2>3, <2>4, <2>5, <2>6 DEF Next, MainStep, vars
<1> QED BY <1>1, <1>2, TypeCorrect, PTL DEF Spec

-----------------------------------------------------------------------------
\* Refinement: as long as no merge procedure catches an error, every step of
\* the workflow is a step of the life cycle of the files, or none.
StageMap == [f \in Files |-> Stage(f)]

\* The files of S, and no others, go from stage a to stage b.
Moves(S, a, b) ==
  /\ S \subseteq Files
  /\ \A f \in S : Stage(f) = a /\ Stage(f)' = b
  /\ \A f \in Files \ S : Stage(f)' = Stage(f)

LEMMA MoveIsStep ==
  ASSUME NEW S, NEW a, NEW b, Moves(S, a, b),
         \/ a = "pending" /\ b = "merged"
         \/ a = "merged" /\ b = "settled"
         \/ a = "settled" /\ b = "merged"
         \/ a = "absent" /\ b = "pending" /\ \E f \in Files : S = {f}
  PROVE  Lifecycle!Next
<1> USE DEF Moves
<1>1. StageMap' = [f \in Files |-> IF f \in S THEN b ELSE StageMap[f]]
  BY DEF StageMap
<1>2. Lifecycle!Move(S, a, b)
  BY <1>1 DEF Lifecycle!Move, StageMap
<1> QED BY <1>2 DEF Lifecycle!Next, Lifecycle!Announce, Lifecycle!Merge, Lifecycle!Settle,
                    Lifecycle!Reopen

LEMMA SameStages ==
  ASSUME \A f \in Files : Stage(f)' = Stage(f)
  PROVE  UNCHANGED StageMap
BY DEF StageMap

LEMMA UpdateRefines ==
  ASSUME LoadInv, caught = {}, NEW S \in SUBSET announced, NEW status \in {"ENQUEUE", "PROCESSING"},
         UpdateRows(S, status), UNCHANGED merged
  PROVE  [Lifecycle!Next]_StageMap
<1> DEFINE T == {f \in S : row[f] = "none"}
<1>1. T \in SUBSET Files /\ T \subseteq merged
  BY DEF LoadInv, TypeOK, NoFileLost, Existing
<1>2. \A f \in Files : row'[f] = IF f \notin S THEN row[f]
                                  ELSE IF f \in Pending THEN status ELSE "UNLISTED"
  BY DEF UpdateRows
<1>3. \A f \in T : Stage(f) = "settled" /\ Stage(f)' = "merged"
  BY <1>1, <1>2 DEF Stage
<1>4. \A f \in Files \ T : Stage(f)' = Stage(f)
  BY <1>2 DEF Stage
<1>5. Moves(T, "settled", "merged")
  BY <1>1, <1>3, <1>4 DEF Moves
<1> QED BY <1>5, MoveIsStep

LEMMA DeleteRefines ==
  ASSUME LoadInv, NEW S \in SUBSET merged, SetRows(S, "none"), UNCHANGED merged
  PROVE  [Lifecycle!Next]_StageMap
<1> DEFINE T == {f \in S : row[f] # "none"}
<1>1. T \in SUBSET Files
  BY DEF LoadInv, TypeOK
<1>2. \A f \in Files : row'[f] = IF f \in S THEN "none" ELSE row[f]
  BY DEF SetRows
<1>3. \A f \in T : Stage(f) = "merged" /\ Stage(f)' = "settled"
  BY <1>1, <1>2 DEF Stage
<1>4. \A f \in Files \ T : Stage(f)' = Stage(f)
  BY <1>2 DEF Stage
<1>5. Moves(T, "merged", "settled")
  BY <1>1, <1>3, <1>4 DEF Moves
<1> QED BY <1>5, MoveIsStep

LEMMA StepRefines ==
  ASSUME LoadInv, caught = {}, ~CaughtErrors, [Next]_vars
  PROVE  [Lifecycle!Next]_StageMap
<1> USE DEF LoadInv
<1>1. CASE UNCHANGED <<row, merged>>
  BY <1>1, SameStages DEF Stage
<1>2. ASSUME NEW f \in Files, PutItem(f) PROVE [Lifecycle!Next]_StageMap
  <2>1. /\ UNCHANGED merged
        /\ \A g \in Files : row'[g] = IF g = f THEN "NEW" ELSE row[g]
    BY <1>2 DEF PutItem, SetRows
  <2>2. \A g \in Files \ {f} : Stage(g)' = Stage(g)
    BY <2>1 DEF Stage
  <2>3. CASE row[f] # "none"
    BY <2>1, <2>2, <2>3, SameStages DEF Stage
  <2>4. CASE row[f] = "none" /\ f \in merged
    <3>1. Moves({f}, "settled", "merged")
      BY <2>1, <2>2, <2>4 DEF Stage, Moves
    <3> QED BY <3>1, MoveIsStep
  <2>5. CASE row[f] = "none" /\ f \notin merged
    <3>1. Moves({f}, "absent", "pending")
      BY <2>1, <2>2, <2>5 DEF Stage, Moves
    <3> QED BY <3>1, MoveIsStep
  <2> QED BY <2>3, <2>4, <2>5
<1>3. ASSUME NEW x \in Subs, SubStep(x) PROVE [Lifecycle!Next]_StageMap
  <2>1. UNCHANGED merged
    BY <1>3 DEF SubStep, QueryItems, EnqueueItems, EnqueueAgain, EnqueueFails, NextManifest,
                SubmitJob, SubmitAgain, SubmitFails, CheckFinished, CheckFinishedAgain,
                CheckFails, CheckConflict, JobFails, CheckMoreWork, LambdaFails, StopSub
  <2>2. batch[x] \subseteq announced /\ job[x] \subseteq announced
    BY DEF OnlyAnnounced
  <2>3. CASE EnqueueItems(x) \/ EnqueueAgain(x) \/ EnqueueFails(x)
    <3>1. \E S \in SUBSET announced : UpdateRows(S, "ENQUEUE")
      BY <2>2, <2>3 DEF EnqueueItems, EnqueueAgain, EnqueueFails
    <3> QED BY <2>1, <3>1, UpdateRefines
  <2>4. CASE SubmitJob(x) \/ SubmitAgain(x) \/ SubmitFails(x)
    <3>1. \E S \in SUBSET announced : UpdateRows(S, "PROCESSING")
      BY <2>2, <2>4 DEF SubmitJob, SubmitAgain, SubmitFails
    <3> QED BY <2>1, <3>1, UpdateRefines
  <2>5. CASE CheckFinished(x) \/ CheckFinishedAgain(x) \/ CheckFails(x)
    <3>1. PICK S \in SUBSET job[x] : (S # {} => Polls(x, "finished")) /\ SetRows(S, "none")
      BY <2>5 DEF CheckFinished, CheckFinishedAgain, CheckFails
    <3>2. S \in SUBSET merged
      BY <3>1 DEF Polls, PollsItsStatement, FinishedWasCalled
    <3> QED BY <2>1, <3>1, <3>2, DeleteRefines
  <2>6. CASE UNCHANGED row
    BY <2>1, <2>6, <1>1
  <2> QED BY <1>3, <2>3, <2>4, <2>5, <2>6
          DEF SubStep, QueryItems, NextManifest, CheckConflict, JobFails, CheckMoreWork,
              LambdaFails, StopSub
<1>4. ASSUME NEW s \in Statements, FinishStatement(s) PROVE [Lifecycle!Next]_StageMap
  <2> DEFINE T == stmt[s].files \ merged
  <2>1. T \in SUBSET Files /\ \A f \in T : row[f] # "none"
    BY DEF TypeOK, OnlyAnnounced, NoFileLost, Existing
  <2>2. UNCHANGED row /\ merged' = merged \union T
    BY <1>4 DEF FinishStatement
  <2>3. \A f \in T : Stage(f) = "pending" /\ Stage(f)' = "merged"
    BY <2>1, <2>2 DEF Stage
  <2>4. \A f \in Files \ T : Stage(f)' = Stage(f)
    BY <2>2 DEF Stage
  <2>5. Moves(T, "pending", "merged")
    BY <2>1, <2>3, <2>4 DEF Moves
  <2> QED BY <2>5, MoveIsStep
<1>5. ASSUME NEW e \in Executions, MainStep(e) PROVE UNCHANGED <<row, merged>>
  BY <1>5 DEF MainStep, StartExecution, CheckSkipping, LoadCompleted, RefreshViews, ExecutionFails
<1>6. ASSUME NEW f \in Files, SendNotice(f) \/ DropNotice(f) PROVE UNCHANGED <<row, merged>>
  BY <1>6 DEF SendNotice, DropNotice
<1>7. ASSUME NEW s \in Statements, BreakStatement(s) PROVE UNCHANGED <<row, merged>>
  BY <1>7 DEF BreakStatement
<1> QED BY <1>1, <1>2, <1>3, <1>4, <1>5, <1>6, <1>7 DEF Next, Notify, Redshift, CatchError, vars

NoCaught == caught = {}

\* The workflow implements the life cycle of its files.
THEOREM WorkflowRefinesLifecycle ==
  ASSUME ~CaughtErrors
  PROVE  Spec => LifecycleSpec
<1>1. Init => Lifecycle!Init
  BY DEF Init, Lifecycle!Init, Stage
<1>2. Init => NoCaught
  BY DEF Init, NoCaught
<1>3. NoCaught /\ [Next]_vars => NoCaught'
  BY DEF NoCaught, Next, vars, Notify, SendNotice, DropNotice, PutItem,
         MainStep, StartExecution, CheckSkipping, LoadCompleted, RefreshViews, ExecutionFails,
         SubStep, QueryItems, EnqueueItems, EnqueueAgain, EnqueueFails, NextManifest,
         SubmitJob, SubmitAgain, SubmitFails, CheckFinished, CheckFinishedAgain,
         CheckFails, CheckConflict, JobFails, CheckMoreWork, LambdaFails, StopSub,
         Redshift, FinishStatement, CatchError, BreakStatement
<1>4. LoadInv /\ NoCaught /\ [Next]_vars => [Lifecycle!Next]_StageMap
  BY StepRefines DEF NoCaught
<1> QED BY <1>1, <1>2, <1>3, <1>4, LoadInvariance, PTL
        DEF Spec, LifecycleSpec, Lifecycle!Spec, StageMap
=============================================================================
