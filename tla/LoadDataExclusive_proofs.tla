----------------------- MODULE LoadDataExclusive_proofs -----------------------
(***************************************************************************)
(* Proofs about executions of LoadDataWorkflow that never overlap: what    *)
(* they know of the rows that they update without looking.                 *)
(***************************************************************************)
EXTENDS LoadDataWorkflow_proofs

USE DEF queueVars, subVars, Subs, SubsOf

Live(x) == pc[x] \notin Over

\* A sub-workflow goes on only as long as its execution is loading.
LiveInLoad == \A x \in Subs : Live(x) => phase[x[1]] = "load"

\* What a sub-workflow has taken is of its table.
OwnTable(x) == \A f \in batch[x] \union job[x] : TableOf[f] = x[2]

\* What it has still to load has rows, until the first of them is deleted.
Listed(x) ==
  /\ pc[x] \in {"enqueue", "map", "submit", "poll"} => batch[x] \subseteq Pending
  /\ pc[x] = "submit" \/ (pc[x] = "poll" /\ stmt[ref[x]].status # "finished") =>
       job[x] \subseteq Pending
  /\ pc[x] \in {"submit", "poll"} => batch[x] \intersect job[x] = {}

\* The last sub-workflow to end has seen that nothing is in the middle of a merge.
DoneIsQuiet ==
  \A e \in Executions :
    phase[e] = "refresh" \/ (phase[e] = "load" /\ \A x \in SubsOf(e) : pc[x] = "done") =>
      Processing = {}

AllListed == \A f \in Files : row[f] # "UNLISTED"

ExclusiveInv ==
  /\ LiveInLoad
  /\ \A x \in Subs : OwnTable(x) /\ Listed(x)
  /\ DoneIsQuiet
  /\ AllListed

-----------------------------------------------------------------------------
(* One sub-workflow and the others *)

\* Two sub-workflows at work are of one execution, so of different tables.
LEMMA TablesApart ==
  ASSUME Exclusive, TypeOK, OneActiveExecution, LiveInLoad,
         NEW x \in Subs, NEW y \in Subs, Live(x), Live(y), x # y
  PROVE  x[2] # y[2]
<1>1. phase[x[1]] = "load" /\ phase[y[1]] = "load" /\ x[1] \in Executions /\ y[1] \in Executions
  BY DEF LiveInLoad
<1>2. x[1] = y[1]
  BY <1>1 DEF Exclusive, OneActiveExecution
<1>3. x = <<x[1], x[2]>> /\ y = <<y[1], y[2]>>
  OBVIOUS
<1> QED BY <1>2, <1>3

\* The step of a sub-workflow changes nothing of the others, nor of what they poll.
OthersSame(x) ==
  \A y \in Subs \ {x} :
    /\ pc'[y] = pc[y] /\ batch'[y] = batch[y] /\ job'[y] = job[y]
    /\ pc[y] = "poll" => ref'[y] = ref[y] /\ stmt'[ref[y]] = stmt[ref[y]]

LEMMA OthersListed ==
  ASSUME Exclusive, TypeOK, OneActiveExecution, ExclusiveInv, NEW x \in Subs, Live(x),
         OthersSame(x), Pending \ job[x] \subseteq Pending', NEW y \in Subs \ {x}
  PROVE  OwnTable(y)' /\ Listed(y)'
<1>1. /\ pc'[y] = pc[y] /\ batch'[y] = batch[y] /\ job'[y] = job[y]
      /\ pc[y] = "poll" => ref'[y] = ref[y] /\ stmt'[ref[y]] = stmt[ref[y]]
  BY DEF OthersSame
<1>2. OwnTable(x) /\ OwnTable(y) /\ Listed(y) /\ LiveInLoad
  BY DEF ExclusiveInv
<1>3. OwnTable(y)'
  BY <1>1, <1>2 DEF OwnTable
<1>4. CASE ~Live(y)
  <2>1. pc'[y] \notin {"enqueue", "map", "submit", "poll"}
    BY <1>1, <1>4 DEF Live, Over
  <2> QED BY <1>3, <2>1 DEF Listed
<1>5. CASE Live(y)
  <2>1. x[2] # y[2]
    BY <1>2, <1>5, TablesApart
  <2>2. (batch[y] \union job[y]) \intersect job[x] = {}
    BY <1>2, <2>1 DEF OwnTable
  <2>3. /\ batch[y] \subseteq Pending => batch[y] \subseteq Pending'
        /\ job[y] \subseteq Pending => job[y] \subseteq Pending'
    BY <2>2
  <2> QED BY <1>1, <1>2, <1>3, <2>3 DEF Listed
<1> QED BY <1>4, <1>5

\* The step of a sub-workflow keeps the invariant when it does for itself.
LEMMA SubKeeps ==
  ASSUME Exclusive, TypeOK, OneActiveExecution, ExclusiveInv, NEW x \in Subs, Live(x),
         OthersSame(x), Pending \ job[x] \subseteq Pending', UNCHANGED phase,
         AllListed', OwnTable(x)', Listed(x)', pc'[x] = "done" => Processing' = {}
  PROVE  ExclusiveInv'
<1>1. LiveInLoad /\ DoneIsQuiet
  BY DEF ExclusiveInv
<1>2. \A y \in Subs \ {x} : pc'[y] = pc[y]
  BY DEF OthersSame
<1>3. phase[x[1]] = "load" /\ x[1] \in Executions /\ x \in SubsOf(x[1])
  BY <1>1 DEF LiveInLoad
<1>4. LiveInLoad'
  BY <1>1, <1>2, <1>3 DEF LiveInLoad, Live
<1>5. \A y \in Subs : OwnTable(y)' /\ Listed(y)'
  BY OthersListed
<1>6. DoneIsQuiet'
  <2> SUFFICES ASSUME NEW e \in Executions,
                      \/ phase[e] = "refresh"
                      \/ phase[e] = "load" /\ \A y \in SubsOf(e) : pc'[y] = "done"
               PROVE  Processing' = {}
    BY DEF DoneIsQuiet
  <2>1. e = x[1]
    BY <1>3 DEF Exclusive, OneActiveExecution
  <2> QED BY <1>3, <2>1
<1> QED BY <1>4, <1>5, <1>6 DEF ExclusiveInv

\* What the helpers do to rows that exist.
LEMMA UpdatesListed ==
  ASSUME TypeOK, AllListed, NEW S \in SUBSET Pending, NEW status \in {"ENQUEUE", "PROCESSING"},
         UpdateRows(S, status)
  PROVE  Pending' = Pending /\ AllListed'
BY DEF UpdateRows, Pending, AllListed, TypeOK

LEMMA DeletesListed ==
  ASSUME TypeOK, AllListed, NEW S \in SUBSET Files, SetRows(S, "none")
  PROVE  Pending' = Pending \ S /\ AllListed'
BY DEF SetRows, Pending, AllListed, TypeOK

LEMMA EndSubsSame ==
  ASSUME LoadInv, NEW x \in Subs, EndSubs({x}, "failed"), Live(x)
  PROVE  /\ OthersSame(x) /\ pc'[x] = "failed" /\ batch'[x] = {} /\ job'[x] = {}
         /\ OwnTable(x)' /\ Listed(x)'
<1>1. TypeOK /\ OneObserver /\ PollsItsStatement
  BY DEF LoadInv
<1>2. \A y \in Subs \ {x} : pc'[y] = pc[y] /\ batch'[y] = batch[y] /\ job'[y] = job[y]
                            /\ ref'[y] = ref[y]
  BY <1>1 DEF EndSubs, TypeOK
<1>3. ASSUME NEW y \in Subs \ {x}, pc[y] = "poll"
      PROVE  stmt'[ref[y]] = stmt[ref[y]]
  <2>1. ref[y] \in Statements /\ ~(pc[x] = "poll" /\ ref[x] = ref[y])
    BY <1>1, <1>3 DEF PollsItsStatement, OneObserver
  <2> QED BY <2>1 DEF EndSubs
<1>4. pc'[x] = "failed" /\ batch'[x] = {} /\ job'[x] = {}
  BY <1>1 DEF EndSubs, TypeOK, Live
<1> QED BY <1>2, <1>3, <1>4 DEF OthersSame, OwnTable, Listed

\* A statement that is submitted takes a slot that nobody polls.
LEMMA ExecuteSame ==
  ASSUME LoadInv, NEW x \in Subs, NEW s \in Statements, Free(s), Execute(s, x),
         NEW y \in Subs, pc[y] = "poll"
  PROVE  stmt'[ref[y]] = stmt[ref[y]]
<1>1. ref[y] \in Statements /\ stmt[ref[y]].status # "idle"
  BY DEF LoadInv, PollsItsStatement
<1>2. ref[y] # s
  BY <1>1 DEF Free
<1> QED BY <1>1, <1>2 DEF Execute, LoadInv, TypeOK

LEMMA ReleaseSame ==
  ASSUME LoadInv, NEW x \in Subs, pc[x] = "poll", Release(x), NEW y \in Subs \ {x}, pc[y] = "poll"
  PROVE  ref'[y] = ref[y] /\ stmt'[ref[y]] = stmt[ref[y]]
<1>1. ref[y] \in Statements /\ ref[x] \in Statements /\ ref[x] # ref[y]
  BY DEF LoadInv, PollsItsStatement, OneObserver
<1> QED BY <1>1 DEF Release, LoadInv, TypeOK

-----------------------------------------------------------------------------
(* The steps of a sub-workflow *)

Given == Exclusive /\ LoadInv /\ OneActiveExecution /\ ExclusiveInv

LEMMA BatchKeeps ==
  ASSUME Given, NEW x \in Subs, QueryItems(x) \/ EnqueueItems(x) \/ EnqueueAgain(x)
  PROVE  ExclusiveInv'
<1>1. /\ Exclusive /\ LoadInv /\ TypeOK /\ OneActiveExecution /\ ExclusiveInv
      /\ OwnTable(x) /\ Listed(x) /\ AllListed
  BY DEF Given, LoadInv, ExclusiveInv
<1>2. /\ Live(x) /\ OthersSame(x) /\ UNCHANGED <<phase, job>> /\ pc'[x] # "done"
      /\ pc'[x] \in {"enqueue", "more", "map", "query"}
  BY <1>1 DEF QueryItems, EnqueueItems, EnqueueAgain, Live, Over, OthersSame, Goto, TypeOK
<1>3. CASE QueryItems(x)
  <2>1. PICK B \in Batches(x[2]) : batch' = [batch EXCEPT ![x] = B]
    BY <1>3 DEF QueryItems
  <2>2. B \subseteq Pending /\ \A f \in B : TableOf[f] = x[2]
    BY DEF Batches
  <2>3. batch'[x] = B /\ UNCHANGED row
    BY <1>1, <1>3, <2>1 DEF QueryItems, TypeOK
  <2>4. Pending' = Pending /\ AllListed'
    BY <1>1, <2>3 DEF Pending, AllListed
  <2>5. OwnTable(x)'
    BY <1>1, <1>2, <2>2, <2>3 DEF OwnTable
  <2>6. Listed(x)'
    BY <1>2, <2>2, <2>3, <2>4 DEF Listed
  <2> QED BY <1>1, <1>2, <2>4, <2>5, <2>6, SubKeeps
<1>4. CASE EnqueueItems(x)
  <2>1. batch[x] \in SUBSET Pending /\ UNCHANGED batch
    BY <1>1, <1>4 DEF EnqueueItems, Listed
  <2>2. Pending' = Pending /\ AllListed'
    BY <1>1, <1>4, <2>1, UpdatesListed DEF EnqueueItems
  <2>3. OwnTable(x)'
    BY <1>1, <1>2, <2>1 DEF OwnTable
  <2>4. Listed(x)'
    BY <1>2, <2>1, <2>2 DEF Listed
  <2> QED BY <1>1, <1>2, <2>2, <2>3, <2>4, SubKeeps
<1>5. CASE EnqueueAgain(x)
  <2>1. PICK S \in SUBSET (batch[x] \intersect Existing) : UpdateRows(S, "ENQUEUE")
    BY <1>5 DEF EnqueueAgain
  <2>2. S \in SUBSET Pending /\ batch'[x] = {} /\ pc'[x] = "query"
    BY <1>1, <1>5 DEF EnqueueAgain, Listed, Goto, TypeOK
  <2>3. Pending' = Pending /\ AllListed'
    BY <1>1, <2>1, <2>2, UpdatesListed
  <2>4. OwnTable(x)' /\ Listed(x)'
    BY <1>1, <1>2, <2>2 DEF OwnTable, Listed
  <2> QED BY <1>1, <1>2, <2>3, <2>4, SubKeeps
<1> QED BY <1>3, <1>4, <1>5

LEMMA ManifestKeeps ==
  ASSUME Given, NEW x \in Subs, NextManifest(x)
  PROVE  ExclusiveInv'
<1>1. /\ Exclusive /\ LoadInv /\ TypeOK /\ OneActiveExecution /\ ExclusiveInv
      /\ OwnTable(x) /\ Listed(x) /\ AllListed
  BY DEF Given, LoadInv, ExclusiveInv
<1>2. /\ Live(x) /\ OthersSame(x) /\ UNCHANGED <<phase, row>> /\ pc'[x] \in {"submit", "more"}
  BY <1>1 DEF NextManifest, Live, Over, OthersSame, Goto, TypeOK
<1>3. Pending' = Pending /\ AllListed' /\ batch[x] \subseteq Pending
  BY <1>1, <1>2 DEF Pending, AllListed, NextManifest, Listed
<1>4. CASE batch[x] = {}
  <2>1. UNCHANGED <<batch, job>> /\ pc'[x] = "more"
    BY <1>1, <1>4 DEF NextManifest, Goto, TypeOK
  <2>2. OwnTable(x)' /\ Listed(x)'
    BY <1>1, <2>1 DEF OwnTable, Listed
  <2> QED BY <1>1, <1>2, <1>3, <2>2, SubKeeps
<1>5. CASE batch[x] # {}
  <2>1. PICK a : /\ job' = [job EXCEPT ![x] = {f \in batch[x] : AppOf[f] = a}]
                 /\ batch' = [batch EXCEPT ![x] = @ \ {f \in batch[x] : AppOf[f] = a}]
    BY <1>5 DEF NextManifest
  <2>2. /\ job'[x] \subseteq batch[x] /\ batch'[x] = batch[x] \ job'[x]
    BY <1>1, <2>1 DEF TypeOK
  <2>3. OwnTable(x)'
    BY <1>1, <2>2 DEF OwnTable
  <2>4. Listed(x)'
    BY <1>3, <2>2 DEF Listed
  <2> QED BY <1>1, <1>2, <1>3, <2>3, <2>4, SubKeeps
<1> QED BY <1>4, <1>5

LEMMA SubmitKeeps ==
  ASSUME Given, NEW x \in Subs, SubmitJob(x) \/ SubmitAgain(x)
  PROVE  ExclusiveInv'
<1>1. /\ Exclusive /\ LoadInv /\ TypeOK /\ OneActiveExecution /\ ExclusiveInv
      /\ OwnTable(x) /\ Listed(x) /\ AllListed
  BY DEF Given, LoadInv, ExclusiveInv
<1>2. /\ Live(x) /\ pc[x] = "submit" /\ pc'[x] \in {"poll", "submit"}
      /\ UNCHANGED <<phase, batch, job>> /\ UpdateRows(job[x], "PROCESSING")
      /\ \A y \in Subs \ {x} : pc'[y] = pc[y] /\ ref'[y] = ref[y]
  BY <1>1 DEF SubmitJob, SubmitAgain, Live, Over, Goto, TypeOK
<1>3. /\ job[x] \in SUBSET Pending /\ batch[x] \subseteq Pending
      /\ batch[x] \intersect job[x] = {}
  BY <1>1, <1>2 DEF Listed
<1>4. Pending' = Pending /\ AllListed'
  BY <1>1, <1>2, <1>3, UpdatesListed
<1>5. PICK s \in Statements : Free(s) /\ Execute(s, x)
  BY DEF SubmitJob, SubmitAgain
<1>6. OthersSame(x)
  BY <1>1, <1>2, <1>5, ExecuteSame DEF OthersSame
<1>7. OwnTable(x)' /\ Listed(x)'
  BY <1>1, <1>2, <1>3, <1>4 DEF OwnTable, Listed
<1> QED BY <1>1, <1>2, <1>4, <1>6, <1>7, SubKeeps

LEMMA PollKeeps ==
  ASSUME Given, NEW x \in Subs, CheckFinished(x) \/ CheckFinishedAgain(x) \/ CheckConflict(x)
  PROVE  ExclusiveInv'
<1>1. /\ Exclusive /\ LoadInv /\ TypeOK /\ OneActiveExecution /\ ExclusiveInv
      /\ OwnTable(x) /\ Listed(x) /\ AllListed
  BY DEF Given, LoadInv, ExclusiveInv
<1>2. /\ Live(x) /\ pc[x] = "poll" /\ UNCHANGED <<phase, batch>>
  BY DEF CheckFinished, CheckFinishedAgain, CheckConflict, Polls, Live, Over
<1>3. /\ batch[x] \subseteq Pending /\ batch[x] \intersect job[x] = {} /\ job[x] \subseteq Files
  BY <1>1, <1>2 DEF Listed, TypeOK
<1>4. CASE CheckFinished(x)
  <2>1. OthersSame(x) /\ pc'[x] = "map" /\ job'[x] = {}
    BY <1>1, <1>2, <1>4, ReleaseSame DEF CheckFinished, OthersSame, Goto, TypeOK
  <2>2. Pending' = Pending \ job[x] /\ AllListed'
    BY <1>1, <1>3, <1>4, DeletesListed DEF CheckFinished
  <2>3. OwnTable(x)' /\ Listed(x)'
    BY <1>1, <1>2, <1>3, <2>1, <2>2 DEF OwnTable, Listed
  <2> QED BY <1>1, <1>2, <2>1, <2>2, <2>3, SubKeeps
<1>5. CASE CheckFinishedAgain(x)
  <2>1. OthersSame(x) /\ UNCHANGED <<pc, job, ref, stmt>> /\ stmt[ref[x]].status = "finished"
    BY <1>5 DEF CheckFinishedAgain, OthersSame, Polls
  <2>2. PICK S \in SUBSET job[x] : SetRows(S, "none")
    BY <1>5 DEF CheckFinishedAgain
  <2>3. Pending' = Pending \ S /\ AllListed'
    BY <1>1, <1>3, <2>2, DeletesListed
  <2>4. OwnTable(x)' /\ Listed(x)'
    BY <1>1, <1>2, <1>3, <2>1, <2>3 DEF OwnTable, Listed
  <2> QED BY <1>1, <1>2, <2>1, <2>3, <2>4, SubKeeps
<1>6. CASE CheckConflict(x)
  <2>1. OthersSame(x) /\ pc'[x] = "submit" /\ UNCHANGED <<row, job>>
    BY <1>1, <1>2, <1>6, ReleaseSame DEF CheckConflict, OthersSame, Goto, TypeOK
  <2>2. Pending' = Pending /\ AllListed' /\ job[x] \subseteq Pending
    BY <1>1, <1>2, <1>6, <2>1 DEF Pending, AllListed, CheckConflict, Polls, Listed
  <2>3. OwnTable(x)' /\ Listed(x)'
    BY <1>1, <1>2, <1>3, <2>1, <2>2 DEF OwnTable, Listed
  <2> QED BY <1>1, <1>2, <2>1, <2>2, <2>3, SubKeeps
<1> QED BY <1>4, <1>5, <1>6

LEMMA FailureKeeps ==
  ASSUME Given, NEW x \in Subs,
         EnqueueFails(x) \/ SubmitFails(x) \/ CheckFails(x) \/ JobFails(x) \/ LambdaFails(x)
  PROVE  ExclusiveInv'
<1>1. /\ Exclusive /\ LoadInv /\ TypeOK /\ OneActiveExecution /\ ExclusiveInv
      /\ Listed(x) /\ AllListed
  BY DEF Given, LoadInv, ExclusiveInv
<1>2. Live(x) /\ UNCHANGED phase /\ EndSubs({x}, "failed")
  BY DEF EnqueueFails, SubmitFails, CheckFails, JobFails, LambdaFails, Polls, Live, Over
<1>3. OthersSame(x) /\ pc'[x] = "failed" /\ OwnTable(x)' /\ Listed(x)'
  BY <1>1, <1>2, EndSubsSame
<1>4. Pending \ job[x] \subseteq Pending' /\ AllListed'
  <2>1. CASE EnqueueFails(x)
    <3>1. PICK S \in SUBSET (batch[x] \intersect Existing) : UpdateRows(S, "ENQUEUE")
      BY <2>1 DEF EnqueueFails
    <3>2. S \in SUBSET Pending
      BY <1>1, <2>1 DEF EnqueueFails, Listed
    <3> QED BY <1>1, <3>1, <3>2, UpdatesListed
  <2>2. CASE SubmitFails(x)
    <3>1. PICK S \in SUBSET job[x] : UpdateRows(S, "PROCESSING")
      BY <2>2 DEF SubmitFails
    <3>2. S \in SUBSET Pending
      BY <1>1, <2>2 DEF SubmitFails, Listed
    <3> QED BY <1>1, <3>1, <3>2, UpdatesListed
  <2>3. CASE CheckFails(x)
    <3>1. PICK S \in SUBSET job[x] : SetRows(S, "none")
      BY <2>3 DEF CheckFails
    <3>2. S \in SUBSET Files
      BY <1>1 DEF TypeOK
    <3> QED BY <1>1, <3>1, <3>2, DeletesListed
  <2>4. CASE JobFails(x) \/ LambdaFails(x)
    BY <1>1, <2>4 DEF JobFails, LambdaFails, Pending, AllListed
  <2> QED BY <2>1, <2>2, <2>3, <2>4
<1> QED BY <1>1, <1>2, <1>3, <1>4, SubKeeps

\* The only step in which a sub-workflow is done.
LEMMA DoneKeeps ==
  ASSUME Given, NEW x \in Subs, CheckMoreWork(x)
  PROVE  ExclusiveInv'
<1>1. /\ Exclusive /\ TypeOK /\ OneActiveExecution /\ ExclusiveInv
      /\ OwnTable(x) /\ Listed(x) /\ AllListed
  BY DEF Given, LoadInv, ExclusiveInv
<1>2. /\ Live(x) /\ OthersSame(x) /\ UNCHANGED <<phase, row, batch, job>>
      /\ pc'[x] \in {"done", "query"} /\ (pc'[x] = "done" => Processing = {})
  BY <1>1 DEF CheckMoreWork, Live, Over, OthersSame, Goto, TypeOK
<1>3. Pending' = Pending /\ Processing' = Processing /\ AllListed'
  BY <1>1, <1>2 DEF Pending, Processing, AllListed
<1>4. OwnTable(x)' /\ Listed(x)'
  BY <1>1, <1>2 DEF OwnTable, Listed
<1> QED BY <1>1, <1>2, <1>3, <1>4, SubKeeps

LEMMA SubStepKeeps ==
  ASSUME Given, NEW x \in Subs, SubStep(x)
  PROVE  ExclusiveInv'
<1>1. ~StopSub(x)
  BY DEF StopSub, Given, ExclusiveInv, LiveInLoad, Live
<1> QED BY <1>1, BatchKeeps, ManifestKeeps, SubmitKeeps, PollKeeps, FailureKeeps, DoneKeeps
        DEF SubStep

-----------------------------------------------------------------------------
(* The other steps *)

\* Steps that leave alone what a sub-workflow has, if it is still at work.
LEMMA RestKeeps ==
  ASSUME ExclusiveInv, Pending \subseteq Pending', AllListed', UNCHANGED <<batch, job>>,
         \A x \in Subs : Live(x)' =>
           /\ pc'[x] = pc[x]
           /\ pc[x] = "poll" =>
                /\ ref'[x] = ref[x]
                /\ stmt[ref[x]].status = "finished" => stmt'[ref[x]].status = "finished"
  PROVE  \A x \in Subs : OwnTable(x)' /\ Listed(x)'
<1> SUFFICES ASSUME NEW x \in Subs PROVE OwnTable(x)' /\ Listed(x)'
  OBVIOUS
<1>1. OwnTable(x) /\ Listed(x)
  BY DEF ExclusiveInv
<1>2. OwnTable(x)'
  BY <1>1 DEF OwnTable
<1>3. CASE ~Live(x)'
  BY <1>2, <1>3 DEF Listed, Live, Over
<1>4. CASE Live(x)'
  BY <1>1, <1>2, <1>4 DEF Listed
<1> QED BY <1>3, <1>4

LEMMA NotifyKeeps ==
  ASSUME Given, NEW f \in Files, Notify(f)
  PROVE  ExclusiveInv'
<1>1. /\ ExclusiveInv /\ TypeOK /\ AllListed /\ LiveInLoad /\ DoneIsQuiet
      /\ UNCHANGED <<phase, subVars, stmt>>
  BY DEF Given, LoadInv, ExclusiveInv, Notify, SendNotice, DropNotice, PutItem
<1>2. UNCHANGED row \/ SetRows({f}, "NEW")
  BY DEF Notify, SendNotice, DropNotice, PutItem
<1>3. Pending \subseteq Pending' /\ Processing' \subseteq Processing /\ AllListed'
  BY <1>1, <1>2 DEF SetRows, Pending, Processing, AllListed
<1>4. LiveInLoad' /\ DoneIsQuiet'
  BY <1>1, <1>3 DEF LiveInLoad, Live, DoneIsQuiet
<1>5. \A x \in Subs : OwnTable(x)' /\ Listed(x)'
  BY <1>1, <1>3, RestKeeps
<1> QED BY <1>3, <1>4, <1>5 DEF ExclusiveInv

LEMMA RedshiftKeeps ==
  ASSUME Given, NEW s \in Statements, Redshift(s)
  PROVE  ExclusiveInv'
<1>1. /\ ExclusiveInv /\ TypeOK /\ AllListed /\ LiveInLoad /\ DoneIsQuiet
      /\ UNCHANGED <<phase, row, subVars>>
  BY DEF Given, LoadInv, ExclusiveInv, Redshift, FinishStatement, CatchError, BreakStatement
<1>2. \A r \in Statements : stmt[r].status = "finished" => stmt'[r] = stmt[r]
  BY <1>1 DEF Redshift, FinishStatement, CatchError, BreakStatement, TypeOK
<1>3. \A x \in Subs : pc[x] = "poll" => ref[x] \in Statements
  BY DEF Given, LoadInv, PollsItsStatement
<1>4. Pending' = Pending /\ Processing' = Processing /\ AllListed'
  BY <1>1 DEF Pending, Processing, AllListed
<1>5. LiveInLoad' /\ DoneIsQuiet'
  BY <1>1, <1>4 DEF LiveInLoad, Live, DoneIsQuiet
<1>6. \A x \in Subs : OwnTable(x)' /\ Listed(x)'
  BY <1>1, <1>2, <1>3, <1>4, RestKeeps
<1> QED BY <1>4, <1>5, <1>6 DEF ExclusiveInv

LEMMA StartKeeps ==
  ASSUME Given, NEW e \in Executions, StartExecution(e) \/ CheckSkipping(e)
  PROVE  ExclusiveInv'
<1>1. /\ ExclusiveInv /\ TypeOK /\ AllListed /\ LiveInLoad /\ DoneIsQuiet
      /\ UNCHANGED <<row, batch, job, ref, stmt>>
  BY DEF Given, LoadInv, ExclusiveInv, StartExecution, CheckSkipping
<1>2. Pending' = Pending /\ Processing' = Processing /\ AllListed'
  BY <1>1 DEF Pending, Processing, AllListed
<1>3. \A x \in SubsOf(e) : ~Live(x)
  BY <1>1 DEF LiveInLoad, Live, StartExecution, CheckSkipping, Running
<1>4. /\ \A d \in Executions \ {e} : phase'[d] = phase[d]
      /\ \A x \in Subs : x[1] # e => pc'[x] = pc[x]
  BY <1>1 DEF StartExecution, CheckSkipping, TypeOK
<1>5. \/ phase'[e] = "load" /\ \A x \in SubsOf(e) : pc'[x] = "query"
      \/ phase'[e] \in {"check", "skipped"} /\ \A x \in SubsOf(e) : pc'[x] = "none" \/ pc'[x] = pc[x]
  BY <1>1 DEF StartExecution, CheckSkipping, TypeOK
<1>6. LiveInLoad'
  <2> SUFFICES ASSUME NEW x \in Subs, Live(x)' PROVE phase'[x[1]] = "load"
    BY DEF LiveInLoad
  <2>1. CASE x[1] = e
    BY <1>3, <1>5, <2>1 DEF Live, Over
  <2>2. CASE x[1] # e
    BY <1>1, <1>4, <2>2 DEF LiveInLoad, Live
  <2> QED BY <2>1, <2>2
<1>7. DoneIsQuiet'
  <2> SUFFICES ASSUME NEW d \in Executions,
                      \/ phase'[d] = "refresh"
                      \/ phase'[d] = "load" /\ \A x \in SubsOf(d) : pc'[x] = "done"
               PROVE  Processing' = {}
    BY DEF DoneIsQuiet
  <2>1. CASE d = e
    <3>1. \A x \in SubsOf(e) : FALSE
      BY <1>5, <2>1
    <3>2. ASSUME NEW t \in Tables PROVE FALSE
      <4>1. <<e, t>> \in SubsOf(e)
        OBVIOUS
      <4> QED BY <3>1, <4>1
    <3> QED BY <3>2, LoadAssumption DEF Processing
  <2>2. CASE d # e
    BY <1>1, <1>2, <1>4, <2>2 DEF DoneIsQuiet
  <2> QED BY <2>1, <2>2
<1>8. \A x \in Subs : OwnTable(x)' /\ Listed(x)'
  <2> SUFFICES ASSUME NEW x \in Subs PROVE OwnTable(x)' /\ Listed(x)'
    OBVIOUS
  <2>1. OwnTable(x) /\ Listed(x)
    BY <1>1 DEF ExclusiveInv
  <2>2. OwnTable(x)'
    BY <1>1, <2>1 DEF OwnTable
  <2>3. CASE x[1] = e
    <3>1. pc'[x] \notin {"enqueue", "map", "submit", "poll"}
      BY <1>3, <1>5, <2>3 DEF Live, Over
    <3> QED BY <2>2, <3>1 DEF Listed
  <2>4. CASE x[1] # e
    BY <1>1, <1>2, <1>4, <2>1, <2>2, <2>4 DEF Listed
  <2> QED BY <2>3, <2>4
<1> QED BY <1>2, <1>6, <1>7, <1>8 DEF ExclusiveInv

LEMMA EndKeeps ==
  ASSUME Given, NEW e \in Executions, LoadCompleted(e) \/ RefreshViews(e)
  PROVE  ExclusiveInv'
<1>1. /\ ExclusiveInv /\ TypeOK /\ AllListed /\ LiveInLoad /\ DoneIsQuiet
      /\ UNCHANGED <<row, subVars, stmt>>
      /\ \A d \in Executions \ {e} : phase'[d] = phase[d]
  BY DEF Given, LoadInv, ExclusiveInv, LoadCompleted, RefreshViews, TypeOK
<1>2. Pending' = Pending /\ Processing' = Processing /\ AllListed'
  BY <1>1 DEF Pending, Processing, AllListed
<1>3. \A x \in SubsOf(e) : ~Live(x)
  BY <1>1 DEF LiveInLoad, Live, LoadCompleted, RefreshViews, Over
<1>4. LiveInLoad'
  BY <1>1, <1>3 DEF LiveInLoad, Live
<1>5. DoneIsQuiet'
  <2>1. phase'[e] = "refresh" => Processing = {}
    BY <1>1 DEF DoneIsQuiet, LoadCompleted, RefreshViews, TypeOK
  <2>2. phase'[e] # "load"
    BY <1>1 DEF LoadCompleted, RefreshViews, TypeOK
  <2> QED BY <1>1, <1>2, <2>1, <2>2 DEF DoneIsQuiet
<1>6. \A x \in Subs : OwnTable(x)' /\ Listed(x)'
  BY <1>1, <1>2, RestKeeps
<1> QED BY <1>2, <1>4, <1>5, <1>6 DEF ExclusiveInv

\* The sub-workflows of an execution that fails are stopped at once.
LEMMA FailKeeps ==
  ASSUME Given, NEW e \in Executions, ExecutionFails(e)
  PROVE  ExclusiveInv'
<1>1. /\ ExclusiveInv /\ LoadInv /\ TypeOK /\ AllListed /\ LiveInLoad /\ DoneIsQuiet
      /\ UNCHANGED row /\ EndSubs(SubsOf(e), "stopped")
      /\ phase' = [phase EXCEPT ![e] = "failed"]
  BY DEF Given, Exclusive, LoadInv, ExclusiveInv, ExecutionFails
<1>2. Pending' = Pending /\ Processing' = Processing /\ AllListed'
  BY <1>1 DEF Pending, Processing, AllListed
<1>3. \A x \in Subs : x[1] # e =>
        pc'[x] = pc[x] /\ batch'[x] = batch[x] /\ job'[x] = job[x] /\ ref'[x] = ref[x]
  BY <1>1 DEF EndSubs, TypeOK
<1>4. \A x \in SubsOf(e) : pc'[x] \in Over /\ batch'[x] = {} /\ job'[x] = {}
                           /\ (pc'[x] = "done" => pc[x] = "done")
  BY <1>1 DEF EndSubs, TypeOK, Over
<1>5. LiveInLoad'
  BY <1>1, <1>3, <1>4 DEF LiveInLoad, Live, TypeOK
<1>6. DoneIsQuiet'
  BY <1>1, <1>2, <1>3 DEF DoneIsQuiet, TypeOK
<1>7. \A x \in Subs : OwnTable(x)' /\ Listed(x)'
  <2> SUFFICES ASSUME NEW x \in Subs PROVE OwnTable(x)' /\ Listed(x)'
    OBVIOUS
  <2>1. CASE x[1] = e
    BY <1>4, <2>1 DEF OwnTable, Listed, Over
  <2>2. CASE x[1] # e
    <3>1. OwnTable(x) /\ Listed(x)
      BY <1>1 DEF ExclusiveInv
    <3>2. pc[x] = "poll" => stmt'[ref[x]] = stmt[ref[x]]
      <4> SUFFICES ASSUME pc[x] = "poll" PROVE stmt'[ref[x]] = stmt[ref[x]]
        OBVIOUS
      <4>1. ref[x] \in Statements /\ PollsItsStatement /\ OneObserver
        BY <1>1 DEF LoadInv, PollsItsStatement
      <4>2. \A y \in SubsOf(e) : y \in Subs /\ y # x
        BY <2>2
      <4>3. \A y \in SubsOf(e) : ~(pc[y] = "poll" /\ ref[y] = ref[x])
        BY <4>1, <4>2 DEF OneObserver
      <4>4. stmt' = [s \in Statements |->
                       IF stmt[s].status # "running"
                          /\ \E y \in SubsOf(e) : pc[y] = "poll" /\ ref[y] = s
                       THEN Idle ELSE stmt[s]]
        BY <1>1 DEF EndSubs
      <4> QED BY <4>1, <4>3, <4>4
    <3> QED BY <1>2, <1>3, <2>2, <3>1, <3>2 DEF OwnTable, Listed
  <2> QED BY <2>1, <2>2
<1> QED BY <1>2, <1>5, <1>6, <1>7 DEF ExclusiveInv

-----------------------------------------------------------------------------
LEMMA ExclusiveInvariance ==
  ASSUME Exclusive PROVE Spec => []ExclusiveInv
<1>1. Init => ExclusiveInv
  BY DEF Init, ExclusiveInv, LiveInLoad, Live, Over, OwnTable, Listed, DoneIsQuiet, AllListed
<1>2. LoadInv /\ OneActiveExecution /\ ExclusiveInv /\ [Next]_vars => ExclusiveInv'
  <2> SUFFICES ASSUME LoadInv, OneActiveExecution, ExclusiveInv, [Next]_vars
               PROVE  ExclusiveInv'
    OBVIOUS
  <2>1. Given
    BY DEF Given
  <2>2. CASE UNCHANGED vars
    BY <2>2 DEF vars, ExclusiveInv, LiveInLoad, Live, OwnTable, Listed, DoneIsQuiet, AllListed,
                Pending, Processing
  <2>3. ASSUME NEW e \in Executions, MainStep(e) PROVE ExclusiveInv'
    BY <2>1, <2>3, StartKeeps, EndKeeps, FailKeeps DEF MainStep
  <2> QED BY <2>1, <2>2, <2>3, NotifyKeeps, SubStepKeeps, RedshiftKeeps DEF Next
<1> QED BY <1>1, <1>2, LoadInvariance, ExecutionsExclude, PTL DEF Spec

\* Executions that do not overlap never bring a row back that was deleted, which would
\* have no timestamp and never be listed (NoUnlistedRow).
THEOREM NoRowComesBack == Spec => []NoUnlistedRow
<1>1. CASE Exclusive
  <2>1. ExclusiveInv => NoUnlistedRow
    BY DEF ExclusiveInv, AllListed, NoUnlistedRow
  <2> QED BY <1>1, <2>1, ExclusiveInvariance, PTL
<1>2. CASE ~Exclusive
  <2>1. TypeOK => NoUnlistedRow
    BY <1>2 DEF NoUnlistedRow
  <2> QED BY <2>1, TypeCorrect, PTL
<1> QED BY <1>1, <1>2

\* The views are refreshed when no table has a file in the middle of a merge
\* (RefreshAfterMerges): of the sub-workflows of an execution, the last one to be done
\* has looked at the rows of every table.
THEOREM RefreshFollowsMerges == Spec => []RefreshAfterMerges
<1>1. CASE Exclusive
  <2>1. ExclusiveInv => RefreshAfterMerges
    BY DEF ExclusiveInv, DoneIsQuiet, RefreshAfterMerges
  <2> QED BY <1>1, <2>1, ExclusiveInvariance, PTL
<1>2. CASE ~Exclusive
  <2>1. TypeOK => RefreshAfterMerges
    BY <1>2 DEF RefreshAfterMerges
  <2> QED BY <2>1, TypeCorrect, PTL
<1> QED BY <1>1, <1>2

=============================================================================
