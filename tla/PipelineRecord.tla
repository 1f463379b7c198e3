---------------------------- MODULE PipelineRecord ----------------------------
(***************************************************************************)
(* The record of a pipeline in DynamoDB and everything that writes it: the *)
(* requests of an operator, which start an execution of the state machine  *)
(* and save the whole record; the console's reads, which save the record   *)
(* with the status they computed; and two lambdas, one told of the steps   *)
(* of executions, the other of those of stacks.  The lambdas and the       *)
(* console's reads find the record through an index that lags behind.      *)
(*                                                                         *)
(* What an execution does with its stacks is in PipelineStacks; here it    *)
(* touches each stack at most once, in any order.                          *)
(***************************************************************************)
EXTENDS Integers, FiniteSets, FiniteSetsExt

CONSTANTS
  Stacks,       \* stacks of the pipeline
  Listeners,    \* runs of the two lambdas at a time
  MaxRetry,     \* MAX_RETRY_COUNT
  FreshAfter,   \* a listener's retry with this number finds the index caught up
  RacingReads,  \* FALSE: a console's read and its save meet no other write
  Broken,       \* bound: how many stacks the update before has left failed
  MaxExecs,     \* bound: executions
  MaxFails      \* bound: failures of listeners and requests

ASSUME RecordAssumption ==
  /\ IsFiniteSet(Listeners)
  /\ MaxRetry \in Nat
  /\ FreshAfter \in Nat
  /\ RacingReads \in BOOLEAN
  /\ Broken \subseteq Nat
  /\ MaxExecs \in Nat
  /\ MaxFails \in Nat

VARIABLES
  rec,    \* the record
  index,  \* what the index returns for it
  exec,   \* status of the executions
  kind,   \* action of the executions
  cfn,    \* status of the stacks in CloudFormation
  left,   \* stacks that the running execution has not touched
  news,   \* events not taken by a listener
  lis,    \* listeners
  req,    \* the operator's request
  get,    \* the console's read
  gone,   \* the project and the rule for its stacks' events were deleted
  fails,  \* failures so far
  lost    \* history: whether a "save" of a request, a "write" of a listener or a
          \* "describe" of stacks was lost

outside == <<exec, kind, cfn, left>>
vars == <<rec, index, exec, kind, cfn, left, news, lis, req, get, gone, fails, lost>>

Execs    == 0..MaxExecs
\* Times of writes: only whether two are the same matters, and a write takes one
\* that nothing has any more.  The code's are in milliseconds: two writes in the same
\* one, which would have the same time, are left out.
Stamps   == 0..(4 + 2 * Cardinality(Listeners))
NoTime   == -1
Times    == Stamps \union {NoTime}
\* "unknown": the stack was not found under its name, or describing it failed.
Statuses == {"done", "busy", "failed", "deleted", "unknown"}
Results  == {"none", "RUNNING", "SUCCEEDED", "FAILED"}
Actions  == {"Update", "Delete"}
\* old: the version is not that of the record any more.
Records  == [updateAt : Times, old : BOOLEAN, exec : Execs, result : Results,
             lastAction : Actions, stacks : [Stacks -> Statuses]]
StackEvents == [of : {"stack"}, stack : Stacks]
ExecEvents  == [of : {"exec"}, exec : Execs, result : Results \ {"none"}]
Events      == StackEvents \union ExecEvents
Idle        == [pc |-> "idle"]
Runs        == [pc : {"idle", "read", "write", "again", "state", "fetch", "all"},
                event : Events \union {Idle}, tries : 0..MaxRetry, at : Times, first : Times,
                seen : Statuses, lastAction : Actions, stacks : [Stacks -> Statuses]]
NoRun       == [pc |-> "idle", event |-> Idle, tries |-> 0, at |-> NoTime, first |-> NoTime,
                seen |-> "unknown", lastAction |-> "Update",
                stacks |-> [s \in Stacks |-> "unknown"]]

Running == {e \in Execs : exec[e] = "RUNNING"}

TypeOK ==
  /\ rec \in Records
  /\ index \in Records
  /\ exec \in [Execs -> Results]
  /\ kind \in [Execs -> Actions]
  /\ cfn \in [Stacks -> Statuses \ {"unknown"}]
  /\ left \subseteq Stacks
  /\ news \subseteq Events
  /\ lis \in [Listeners -> Runs]
  /\ req = Idle \/ (req.pc \in {"page", "save"} /\ req.copy \in Records)
  /\ get = Idle \/ get.copy \in Records
  /\ gone \in BOOLEAN
  /\ fails \in 0..MaxFails
  /\ lost \subseteq {"save", "write", "describe"}

\* The status of a record (getPipelineStatusType).
StatusType(r) ==
  LET some(st) == \E s \in Stacks : r.stacks[s] = st
  IN CASE r.result = "FAILED" -> "FAILED"
       [] r.result = "RUNNING" \/ (some("busy") /\ ~some("failed")) ->
            IF r.lastAction = "Delete" THEN "DELETING" ELSE "UPDATING"
       [] OTHER -> IF some("failed") THEN "FAILED"
                   ELSE IF \A s \in Stacks : r.stacks[s] = "deleted" THEN "DELETED"
                   ELSE "ACTIVE"

\* A write of the record: the index still returns the record before it.
Put(r) == rec' = r /\ index' = rec

\* No console's read is between its read and its save.
NoRead == RacingReads \/ get = Idle

\* The time of a write.
Now ==
  Min(Stamps \ ({r.updateAt : r \in {rec, index} \union {p.copy : p \in {req, get} \ {Idle}}}
                 \union UNION {{lis[l].at, lis[l].first} : l \in Listeners}))

CatchUp ==
  /\ index # rec
  /\ index' = rec
  /\ UNCHANGED <<rec, outside, news, lis, req, get, gone, fails, lost>>

-----------------------------------------------------------------------------
(* Requests: each starts its execution, then saves the record. *)

\* The page on which the operator edits the pipeline.
OpenPage ==
  /\ NoRead
  /\ req = Idle
  /\ ~gone
  /\ exec[MaxExecs] = "none"
  /\ req' = [pc |-> "page", copy |-> index]
  /\ UNCHANGED <<rec, index, outside, news, lis, get, gone, fails, lost>>

StartExecution(e, action) ==
  /\ exec[e] = "none"
  /\ \A d \in 1..(e - 1) : exec[d] # "none"
  /\ exec' = [exec EXCEPT ![e] = "RUNNING"]
  /\ kind' = [kind EXCEPT ![e] = action]
  /\ left' = Stacks
  /\ news' = news \union {[of |-> "exec", exec |-> e, result |-> "RUNNING"]}

\* The request saves the record it has read with the execution it has started.
Save(r, e, name) ==
  req' = [pc |-> "save", name |-> name,
          copy |-> [r EXCEPT !.exec = e, !.result = "RUNNING",
                             !.updateAt = IF name = "retry" THEN @ ELSE NoTime]]

\* The body of the request is the page's record; the status is the record's.
Update(e) ==
  /\ NoRead
  /\ req.pc = "page"
  /\ StatusType(rec) \notin {"UPDATING", "DELETING"}
  /\ StartExecution(e, "Update")
  /\ Save([req.copy EXCEPT !.lastAction = "Update"], e, "update")
  /\ UNCHANGED <<rec, index, cfn, lis, get, gone, fails, lost>>

\* Applications added or deleted: both the record and its status are the index's.
UpdateApp(e) ==
  /\ NoRead
  /\ req = Idle
  /\ ~gone
  /\ StatusType(index) \notin {"UPDATING", "DELETING"}
  /\ StartExecution(e, "Update")
  /\ Save([index EXCEPT !.lastAction = "Update"], e, "app")
  /\ UNCHANGED <<rec, index, cfn, lis, get, gone, fails, lost>>

Retry(e) ==
  /\ NoRead
  /\ req = Idle
  /\ ~gone
  /\ StatusType(rec) = "FAILED"
  /\ rec.lastAction = "Update"
  /\ StartExecution(e, "Update")
  /\ Save(rec, e, "retry")
  /\ UNCHANGED <<rec, index, cfn, lis, get, gone, fails, lost>>

\* What is found of the stacks under their names; a failed call is only logged, and
\* then the stack is not found either.
Found(missed) ==
  [s \in Stacks |-> IF s \in missed \/ cfn[s] = "deleted" THEN "unknown" ELSE cfn[s]]

\* The calls for the stacks missed fail.
Miss(missed) ==
  IF missed = {} THEN UNCHANGED <<fails, lost>>
  ELSE /\ fails < MaxFails
       /\ fails' = fails + 1
       /\ lost' = lost \union {"describe"}

\* The deletion of the project and, from the record itself, the retry of one.
\* Bound: an operator who has had his last action fully shown.
Delete(e) ==
  /\ NoRead
  /\ req = Idle
  /\ ~gone
  /\ Running = {}
  /\ \A ev \in news : ev.of = "stack"
  /\ \A l \in Listeners : lis[l] = NoRun
  /\ \E r \in {index, rec}, missed \in SUBSET Stacks :
       /\ StatusType(r) \in (IF r = rec /\ r.lastAction = "Delete" THEN {"FAILED"}
                             ELSE {"ACTIVE", "FAILED"})
       /\ StartExecution(e, "Delete")
       /\ Save([r EXCEPT !.lastAction = "Delete", !.stacks = Found(missed)], e, "delete")
       /\ Miss(missed)
  /\ UNCHANGED <<rec, index, cfn, lis, get, gone>>

\* An update makes a new version; a retry keeps the version and the updateAt of
\* the record it has read.
SaveRequest ==
  /\ req.pc = "save"
  /\ ~req.copy.old
  /\ NoRead
  /\ rec' = IF req.name = "retry" THEN req.copy ELSE [req.copy EXCEPT !.updateAt = Now]
  /\ IF req.name = "update"
     THEN /\ index' = [rec EXCEPT !.old = TRUE]
          /\ get' = IF get = Idle THEN get ELSE [get EXCEPT !.copy.old = TRUE]
     ELSE index' = rec /\ UNCHANGED get
  /\ req' = Idle
  /\ UNCHANGED <<outside, news, lis, gone, fails, lost>>

LeavePage ==
  /\ req.pc = "page"
  /\ req' = Idle
  /\ UNCHANGED <<rec, index, outside, news, lis, get, gone, fails, lost>>

\* The record has another version, or a call of the request fails.
SaveFails ==
  /\ req.pc = "save"
  /\ IF req.copy.old THEN UNCHANGED fails ELSE fails < MaxFails /\ fails' = fails + 1
  /\ req' = Idle
  /\ lost' = lost \union {"save"}
  /\ UNCHANGED <<rec, index, outside, news, lis, get, gone>>

-----------------------------------------------------------------------------
(* The console reads the pipeline (refreshStatus). *)

Get ==
  /\ get = Idle
  /\ ~gone
  /\ RacingReads \/ (index = rec /\ req = Idle /\ \A l \in Listeners : lis[l] = NoRun)
  /\ get' = [pc |-> "save", copy |-> index]
  /\ UNCHANGED <<rec, index, outside, news, lis, req, gone, fails, lost>>

\* It saves what it has read, updateAt included, at the version it has read.
SaveGet ==
  /\ get # Idle
  /\ ~get.copy.old
  /\ Put(get.copy)
  /\ get' = Idle
  /\ UNCHANGED <<outside, news, lis, req, gone, fails, lost>>

GetFails ==
  /\ get # Idle
  /\ get' = Idle
  /\ UNCHANGED <<rec, index, outside, news, lis, req, gone, fails, lost>>

-----------------------------------------------------------------------------
(* Executions and stacks *)

\* An execution has lasted seconds: its request is saved and the index has caught
\* up.
Seconds == req.pc # "save" /\ index = rec

\* It has lasted minutes: the events of executions are handled, too.
Minutes ==
  /\ Seconds
  /\ \A ev \in news : ev.of = "stack"
  /\ \A l \in Listeners : lis[l] # NoRun => lis[l].event.of = "stack"

StackStarts(s) ==
  /\ NoRead
  /\ Running # {}
  /\ Seconds
  /\ s \in left
  /\ cfn[s] \notin {"busy", "deleted"}
  /\ cfn' = [cfn EXCEPT ![s] = "busy"]
  /\ left' = left \ {s}
  /\ news' = news \union {[of |-> "stack", stack |-> s]}
  /\ UNCHANGED <<rec, index, exec, kind, lis, req, get, gone, fails, lost>>

StackEnds(s) ==
  /\ NoRead
  /\ cfn[s] = "busy"
  /\ Minutes
  /\ \E st \in {"failed"} \union {IF kind[e] = "Delete" THEN "deleted" ELSE "done" : e \in Running} :
       cfn' = [cfn EXCEPT ![s] = st]
  /\ news' = news \union {[of |-> "stack", stack |-> s]}
  /\ UNCHANGED <<rec, index, exec, kind, left, lis, req, get, gone, fails, lost>>

\* The execution polls the stack for its end: by then no listener is left that saw
\* the stack before.
UpToDate == \A l \in Listeners : lis[l] # NoRun => lis[l].seen = cfn[lis[l].event.stack]

\* An execution succeeds when no stack has failed (PipelineStacks).
Result == IF \E s \in Stacks : cfn[s] = "failed" THEN "FAILED" ELSE "SUCCEEDED"

ExecutionEnds(e) ==
  /\ NoRead
  /\ exec[e] = "RUNNING"
  /\ \A s \in Stacks : cfn[s] # "busy"
  /\ kind[e] = "Delete" => \A s \in Stacks : cfn[s] \in {"failed", "deleted"}
  /\ Minutes
  /\ UpToDate
  /\ exec' = [exec EXCEPT ![e] = Result]
  /\ news' = news \union {[of |-> "exec", exec |-> e, result |-> Result]}
  /\ UNCHANGED <<rec, index, kind, cfn, left, lis, req, get, gone, fails, lost>>

-----------------------------------------------------------------------------
(* The listener to stacks *)

Become(l, r) == lis' = [lis EXCEPT ![l] = r]

\* It first asks for the status of the stack, whatever the event said.
Describe(l, ev) ==
  /\ NoRead
  /\ lis[l] = NoRun
  /\ ev \in news /\ ev.of = "stack"
  /\ news' = news \ {ev}
  /\ Become(l, [NoRun EXCEPT !.pc = "read", !.event = ev, !.seen = cfn[ev.stack]])
  /\ UNCHANGED <<rec, index, outside, req, get, gone, fails, lost>>

\* getPipeline; it finds nothing once the project is deleted.
CanRead(tries) == ~gone /\ (tries >= FreshAfter => index = rec)

ReadStack(l) ==
  /\ lis[l].pc = "read"
  /\ CanRead(lis[l].tries)
  /\ Become(l, [lis[l] EXCEPT !.pc = "write", !.at = index.updateAt,
                  !.stacks = [index.stacks EXCEPT ![lis[l].event.stack] = lis[l].seen]])
  /\ UNCHANGED <<rec, index, outside, news, req, get, gone, fails, lost>>

\* The write succeeds only when updateAt is the one read.
Holds(l) == lis[l].at = rec.updateAt

\* Mutant: the write leaves updateAt.
WriteStackKeepingTime(l) ==
  /\ lis[l].pc = "write"
  /\ Holds(l)
  /\ NoRead
  /\ Put([rec EXCEPT !.stacks = lis[l].stacks])
  /\ Become(l, NoRun)
  /\ UNCHANGED <<outside, news, req, get, gone, fails, lost>>

\* After MaxRetry retries the write is dropped, without an error.
GiveUp == lost' = lost \union {"write"}

WriteStack(l) ==
  /\ lis[l].pc = "write"
  /\ Holds(l)
  /\ NoRead
  /\ Put([rec EXCEPT !.stacks = lis[l].stacks, !.updateAt = Now])
  /\ Become(l, NoRun)
  /\ UNCHANGED <<outside, news, req, get, gone, fails, lost>>

\* Mutant: no limit to the retries.
WriteStackRetried(l) ==
  /\ lis[l].pc = "write"
  /\ ~Holds(l)
  /\ Become(l, [NoRun EXCEPT !.pc = "read", !.event = lis[l].event,
                             !.seen = lis[l].seen, !.tries = lis[l].tries + 1])
  /\ UNCHANGED <<rec, index, outside, news, req, get, gone, fails, lost>>

WriteStackRefused(l) ==
  /\ lis[l].pc = "write"
  /\ ~Holds(l)
  /\ IF lis[l].tries = MaxRetry THEN GiveUp /\ Become(l, NoRun)
     ELSE /\ Become(l, [NoRun EXCEPT !.pc = "read", !.event = lis[l].event,
                                     !.seen = lis[l].seen, !.tries = lis[l].tries + 1])
          /\ UNCHANGED lost
  /\ UNCHANGED <<rec, index, outside, news, req, get, gone, fails>>

-----------------------------------------------------------------------------
(* The listener to executions *)

ReadPipeline(l, ev) ==
  /\ NoRead
  /\ lis[l] = NoRun
  /\ ~gone
  /\ ev \in news /\ ev.of = "exec"
  /\ news' = news \ {ev}
  /\ LET run == [NoRun EXCEPT !.pc = "state", !.event = ev, !.at = index.updateAt]
     IN Become(l, IF ev.result = "RUNNING" THEN run
                  ELSE [run EXCEPT !.first = index.updateAt, !.lastAction = index.lastAction])
  /\ UNCHANGED <<rec, index, outside, req, get, gone, fails, lost>>

\* Mutant: the status of the stacks is left to the other listener.
AfterStateDone(l) == NoRun

\* After the status of the execution, that of all stacks; but not at its start.
\* The condition is then the updateAt of the first read.
AfterState(l) ==
  IF lis[l].event.result = "RUNNING" THEN NoRun
  ELSE [lis[l] EXCEPT !.pc = "fetch", !.tries = 0, !.at = lis[l].first]

WriteState(l) ==
  /\ lis[l].pc = "state"
  /\ Holds(l)
  /\ NoRead
  /\ Put([rec EXCEPT !.exec = lis[l].event.exec, !.result = lis[l].event.result,
                     !.updateAt = Now])
  /\ Become(l, AfterState(l))
  /\ UNCHANGED <<outside, news, req, get, gone, fails, lost>>

WriteStateRefused(l) ==
  /\ lis[l].pc = "state"
  /\ ~Holds(l)
  /\ IF lis[l].tries = MaxRetry THEN GiveUp /\ Become(l, AfterState(l))
     ELSE /\ Become(l, [lis[l] EXCEPT !.pc = "again", !.tries = @ + 1, !.at = NoTime])
          /\ UNCHANGED lost
  /\ UNCHANGED <<rec, index, outside, news, req, get, gone, fails>>

ReadAgain(l) ==
  /\ lis[l].pc = "again"
  /\ CanRead(lis[l].tries)
  /\ Become(l, [lis[l] EXCEPT !.pc = "state", !.at = index.updateAt])
  /\ UNCHANGED <<rec, index, outside, news, req, get, gone, fails, lost>>

\* The first time right after the status of the execution, then with a new read.
FetchAll(l) ==
  /\ lis[l].pc = "fetch"
  /\ lis[l].tries > 0 => CanRead(lis[l].tries)
  /\ \E missed \in SUBSET Stacks :
       /\ Become(l, [lis[l] EXCEPT !.pc = "all", !.stacks = Found(missed), !.first = NoTime,
                                   !.at = IF lis[l].tries = 0 THEN @ ELSE index.updateAt])
       /\ Miss(missed)
  /\ UNCHANGED <<rec, index, outside, news, req, get, gone>>

\* Mutant: a deletion that failed deletes the project, too.
FinishAnyway(l) ==
  /\ gone' = (gone \/ lis[l].lastAction = "Delete")
  /\ Become(l, NoRun)

\* The end of a deletion deletes the project and the rule.
Finish(l) ==
  /\ gone' = (gone \/ (lis[l].event.result = "SUCCEEDED" /\ lis[l].lastAction = "Delete"))
  /\ Become(l, NoRun)

WriteAll(l) ==
  /\ lis[l].pc = "all"
  /\ Holds(l)
  /\ NoRead
  /\ Put([rec EXCEPT !.stacks = lis[l].stacks, !.updateAt = Now])
  /\ Finish(l)
  /\ UNCHANGED <<outside, news, req, get, fails, lost>>

WriteAllRefused(l) ==
  /\ lis[l].pc = "all"
  /\ ~Holds(l)
  /\ IF lis[l].tries = MaxRetry THEN GiveUp /\ Finish(l)
     ELSE /\ Become(l, [lis[l] EXCEPT !.pc = "fetch", !.tries = @ + 1, !.at = NoTime,
                                      !.stacks = NoRun.stacks])
          /\ UNCHANGED <<gone, lost>>
  /\ UNCHANGED <<rec, index, outside, news, req, get, fails>>

\* A call fails after the first write: the event is delivered again.  A failure
\* before that is like a late delivery.
ListenerFails(l) ==
  /\ lis[l].pc \in {"fetch", "all"}
  /\ fails < MaxFails
  /\ fails' = fails + 1
  /\ news' = news \union {lis[l].event}
  /\ Become(l, NoRun)
  /\ UNCHANGED <<rec, index, outside, req, get, gone, lost>>

\* Nothing is found of a deleted project: in the end the event is given up.
DropEvent(ev) ==
  /\ gone
  /\ ev \in news
  /\ news' = news \ {ev}
  /\ UNCHANGED <<rec, index, outside, lis, req, get, gone, fails, lost>>

ListenerFindsNothing(l) ==
  /\ gone
  /\ lis[l].pc \in {"read", "again", "fetch"}
  /\ Become(l, NoRun)
  /\ UNCHANGED <<rec, index, outside, news, req, get, gone, fails, lost>>

-----------------------------------------------------------------------------
\* The end of an update, execution 0, not yet told.
Init ==
  /\ cfn \in [Stacks -> {"done", "failed"}]
  /\ Cardinality({s \in Stacks : cfn[s] = "failed"}) \in Broken
  /\ exec = [e \in Execs |-> IF e = 0 THEN Result ELSE "none"]
  /\ kind = [e \in Execs |-> "Update"]
  /\ rec = [updateAt |-> 0, old |-> FALSE, exec |-> 0, result |-> "RUNNING",
            lastAction |-> "Update", stacks |-> cfn]
  /\ index = rec
  /\ news = {[of |-> "exec", exec |-> 0, result |-> Result]}
  /\ left = {}
  /\ lis = [l \in Listeners |-> NoRun]
  /\ req = Idle
  /\ get = Idle
  /\ gone = FALSE
  /\ fails = 0
  /\ lost = {}

Next ==
  \/ Get \/ SaveGet \/ GetFails
  \/ CatchUp
  \/ OpenPage \/ LeavePage \/ SaveRequest \/ SaveFails
  \/ \E e \in Execs : Update(e) \/ UpdateApp(e) \/ Retry(e) \/ Delete(e) \/ ExecutionEnds(e)
  \/ \E s \in Stacks : StackStarts(s) \/ StackEnds(s)
  \/ \E l \in Listeners, ev \in news : Describe(l, ev) \/ ReadPipeline(l, ev)
  \/ \E l \in Listeners : ReadStack(l) \/ WriteStack(l) \/ WriteStackRefused(l)
  \/ \E l \in Listeners : WriteState(l) \/ WriteStateRefused(l) \/ ReadAgain(l)
  \/ \E l \in Listeners : FetchAll(l) \/ WriteAll(l) \/ WriteAllRefused(l)
  \/ \E l \in Listeners : ListenerFails(l) \/ ListenerFindsNothing(l)
  \/ \E ev \in news : DropEvent(ev)

Spec == Init /\ [][Next]_vars

-----------------------------------------------------------------------------
(* Properties *)

Quiet == /\ Running = {} /\ news = {} /\ req.pc # "save" /\ get = Idle
         /\ \A l \in Listeners : lis[l] = NoRun

\* When every event was handled and nothing is under way, the record shows the
\* execution's end and the status of every stack, if no listener has given up.  A
\* stack that exists is without a status only if describing one has failed: no
\* listener asks again.
StatusSettles ==
  Quiet /\ ~gone /\ "write" \notin lost =>
    /\ rec.result = exec[rec.exec]
    /\ \A s \in Stacks : rec.stacks[s] # cfn[s] =>
         rec.stacks[s] = "unknown" /\ (cfn[s] = "deleted" \/ "describe" \in lost)

\* A listener writes the status of all stacks: a write that the condition on
\* updateAt lets through takes back no status of a stack it was not told of, not
\* even when a retry has put an older record back.
NoStatusTakenBack ==
  \A l \in Listeners : lis[l].pc = "write" /\ Holds(l) =>
    \A s \in Stacks \ {lis[l].event.stack} : lis[l].stacks[s] = rec.stacks[s]

\* The project is deleted only when all its stacks are, unless a
\* request could not save the execution it had started.
DeletedOnlyWhenGone == gone /\ "save" \notin lost => \A s \in Stacks : cfn[s] = "deleted"
=============================================================================
