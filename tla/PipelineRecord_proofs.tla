------------------------ MODULE PipelineRecord_proofs ------------------------
(***************************************************************************)
(* Proofs about PipelineRecord, for any stacks, listeners and bounds.      *)
(***************************************************************************)
EXTENDS PipelineRecord, FiniteSetTheorems, WellFoundedInduction, TLAPS

USE DEF outside

\* What the requests, the console's reads and the listeners hold.
Stamped  == {r \in Records : r.updateAt \in Stamps}
Pages    == [pc : {"page"}, copy : Stamped]
Saves    == [pc : {"save"}, name : {"update", "app", "delete"}, copy : Records]
              \union [pc : {"save"}, name : {"retry"}, copy : Stamped]
Reads    == [pc : {"save"}, copy : Stamped]

StackRuns == {r \in Runs : r.pc \in {"read", "write"} /\ r.event \in StackEvents}
ExecRuns  == {r \in Runs : r.pc \in {"again", "state", "fetch", "all"} /\ r.event \in ExecEvents}
LisType   == {NoRun} \union StackRuns \union ExecRuns

\* TypeOK and what it leaves open.
TypeInv ==
  /\ rec \in Stamped
  /\ index \in Stamped
  /\ exec \in [Execs -> Results]
  /\ kind \in [Execs -> Actions]
  /\ cfn \in [Stacks -> Statuses \ {"unknown"}]
  /\ left \subseteq Stacks
  /\ news \subseteq Events
  /\ lis \in [Listeners -> LisType]
  /\ req \in {Idle} \union Pages \union Saves
  /\ get \in {Idle} \union Reads
  /\ gone \in BOOLEAN
  /\ fails \in 0..MaxFails
  /\ lost \subseteq {"save", "write", "describe"}

-----------------------------------------------------------------------------
(* A write finds a time that nothing has.                                   *)

Less == {p \in Nat \X Nat : p[1] < p[2]}

LEMMA LessWellFounded == IsWellFoundedOn(Less, Nat)
<1>1. OpToRel(<, Nat) = Less
  BY DEF OpToRel, Less
<1> QED BY <1>1, NatLessThanWellFounded, Zenon

\* Naturals have a least one among them.
LEMMA LeastExists ==
  ASSUME NEW S \in SUBSET Nat, S # {}
  PROVE  Min(S) \in S
<1>1. PICK x \in S : \A y \in S : <<y, x>> \notin Less
  BY LessWellFounded, WFMin
<1>2. ASSUME NEW y \in S PROVE x =< y
  <2>1. x \in Nat /\ y \in Nat /\ <<y, x>> \notin Less
    BY <1>1
  <2>2. y < x => <<y, x>> \in Less
    BY <2>1 DEF Less
  <2> QED BY <2>1, <2>2
<1> QED BY <1>2 DEF Min

LEMMA ImageSize ==
  ASSUME NEW f, NEW S, IsFiniteSet(S)
  PROVE  /\ IsFiniteSet({f[x] : x \in S})
         /\ Cardinality({f[x] : x \in S}) <= Cardinality(S)
<1> DEFINE g == [x \in S |-> f[x]]
           T == {f[x] : x \in S}
<1>1. g \in Surjection(S, T)
  BY DEF Surjection
<1> HIDE DEF g, T
<1>2. IsFiniteSet(T) /\ Cardinality(T) <= Cardinality(S)
  BY <1>1, FS_Surjection, Zenon
<1> QED BY <1>2 DEF T

LEMMA PairSize ==
  ASSUME NEW a, NEW b
  PROVE  IsFiniteSet({a, b}) /\ Cardinality({a, b}) <= 2
<1>1. IsFiniteSet({a}) /\ Cardinality({a}) = 1
  BY FS_Singleton
<1>2. {a, b} = {a} \union {b}
  OBVIOUS
<1> QED BY <1>1, <1>2, FS_AddElement

LEMMA UnionSize ==
  ASSUME NEW S, NEW T, IsFiniteSet(S), IsFiniteSet(T),
         NEW m \in Nat, NEW n \in Nat, Cardinality(S) <= m, Cardinality(T) <= n
  PROVE  IsFiniteSet(S \union T) /\ Cardinality(S \union T) <= m + n
<1>1. IsFiniteSet(S \intersect T)
  BY FS_Intersection
<1>2. /\ Cardinality(S) \in Nat /\ Cardinality(T) \in Nat
      /\ Cardinality(S \intersect T) \in Nat
  BY <1>1, FS_CardinalityType
<1> QED BY <1>2, FS_Union

\* The times of the records and those that a listener holds.
Held == {r.updateAt : r \in {rec, index} \union {p.copy : p \in {req, get} \ {Idle}}}
          \union UNION {{lis[l].at, lis[l].first} : l \in Listeners}

\* Now is a time that no record has and that no listener holds.
LEMMA NowIsFresh ==
  Now \in Stamps /\ Now \notin Held
<1> DEFINE n == Cardinality(Listeners)
           A == {rec.updateAt, index.updateAt}
           B == {req.copy.updateAt, get.copy.updateAt}
           C == {lis[l].at : l \in Listeners}
           D == {lis[l].first : l \in Listeners}
<1>1. n \in Nat
  BY RecordAssumption, FS_CardinalityType
<1>2. /\ IsFiniteSet(C) /\ IsFiniteSet(D)
      /\ Cardinality(C) <= n /\ Cardinality(D) <= n
  <2>1. PICK f : f = [l \in Listeners |-> lis[l].at]
    OBVIOUS
  <2>2. PICK g : g = [l \in Listeners |-> lis[l].first]
    OBVIOUS
  <2>3. C = {f[l] : l \in Listeners} /\ D = {g[l] : l \in Listeners}
    BY <2>1, <2>2
  <2> QED BY <2>3, RecordAssumption, ImageSize
<1>3. /\ IsFiniteSet(A) /\ IsFiniteSet(B)
      /\ Cardinality(A) <= 2 /\ Cardinality(B) <= 2
  BY PairSize
<1>4. Held \subseteq (A \union B) \union (C \union D)
  BY DEF Held
<1> HIDE DEF n, A, B, C, D
<1>5. IsFiniteSet(A \union B) /\ Cardinality(A \union B) <= 4
  <2>1. IsFiniteSet(A \union B) /\ Cardinality(A \union B) <= 2 + 2
    BY <1>3, 2 \in Nat, UnionSize, Zenon
  <2> QED BY <2>1
<1>6. IsFiniteSet(C \union D) /\ Cardinality(C \union D) <= n + n
  BY <1>1, <1>2, UnionSize
<1>7. /\ IsFiniteSet((A \union B) \union (C \union D))
      /\ Cardinality((A \union B) \union (C \union D)) <= 4 + (n + n)
  <2>1. n + n \in Nat
    BY <1>1
  <2> QED BY <1>5, <1>6, <2>1, UnionSize
<1>8. IsFiniteSet(Held) /\ Cardinality(Held) <= 4 + 2 * n
  <2>1. /\ IsFiniteSet(Held)
        /\ Cardinality(Held) <= Cardinality((A \union B) \union (C \union D))
    BY <1>4, <1>7, FS_Subset
  <2>2. /\ Cardinality(Held) \in Nat
        /\ Cardinality((A \union B) \union (C \union D)) \in Nat
    BY <1>7, <2>1, FS_CardinalityType
  <2> QED BY <1>1, <1>7, <2>1, <2>2
<1>9. Stamps = 0..(4 + 2 * n)
  BY DEF Stamps, n
<1>10. IsFiniteSet(Stamps) /\ Cardinality(Stamps) = 5 + 2 * n
  BY <1>1, <1>9, FS_Interval
<1>11. Stamps \ Held # {}
  <2>1. SUFFICES ASSUME Stamps \subseteq Held PROVE FALSE
    OBVIOUS
  <2>2. Cardinality(Stamps) <= Cardinality(Held)
    BY <1>8, <2>1, FS_Subset
  <2>3. Cardinality(Held) \in Nat
    BY <1>8, FS_CardinalityType
  <2> QED BY <1>1, <1>8, <1>10, <2>2, <2>3
<1>12. Stamps \ Held \subseteq Nat
  BY <1>1, <1>9
<1>13. Now = Min(Stamps \ Held)
  BY DEF Now, Held
<1> QED BY <1>11, <1>12, <1>13, LeastExists

-----------------------------------------------------------------------------
(* Types                                                                    *)

LEMMA NoRunType ==
  /\ NoRun \in Runs
  /\ NoRun.pc = "idle" /\ NoRun.event = Idle /\ NoRun.tries = 0
  /\ NoRun.stacks \in [Stacks -> Statuses]
BY RecordAssumption DEF NoRun, Runs, Idle, Times, Statuses, Actions

LEMMA TimesType == Stamps \subseteq Times /\ NoTime \in Times
BY DEF Times

LEMMA EventTypes ==
  /\ \A ev \in StackEvents : ev.of = "stack" /\ ev.stack \in Stacks
  /\ \A ev \in ExecEvents : /\ ev.of = "exec" /\ ev.exec \in Execs
                            /\ ev.result \in {"RUNNING", "SUCCEEDED", "FAILED"}
  /\ Events = StackEvents \union ExecEvents
BY DEF StackEvents, ExecEvents, Events, Results

LEMMA TypeInvType ==
  ASSUME TypeInv PROVE TypeOK
<1>1. rec \in Records /\ index \in Records
  BY DEF TypeInv, Stamped
<1>2. lis \in [Listeners -> Runs]
  BY NoRunType DEF TypeInv, LisType, StackRuns, ExecRuns
<1>3. req = Idle \/ (req.pc \in {"page", "save"} /\ req.copy \in Records)
  BY DEF TypeInv, Pages, Saves, Stamped
<1>4. get = Idle \/ get.copy \in Records
  BY DEF TypeInv, Reads, Stamped
<1> QED BY <1>1, <1>2, <1>3, <1>4 DEF TypeInv, TypeOK

LEMMA StatusOf ==
  ASSUME TypeInv
  PROVE  /\ \A missed : Found(missed) \in [Stacks -> Statuses]
         /\ Result \in {"SUCCEEDED", "FAILED"}
BY DEF TypeInv, Found, Result, Statuses

\* Calls that fail are remembered; nothing else that was lost is.
LEMMA MissLost ==
  ASSUME TypeInv, NEW missed, Miss(missed)
  PROVE  /\ fails' \in 0..MaxFails
         /\ lost' \subseteq {"save", "write", "describe"}
         /\ lost \subseteq lost'
         /\ lost' \subseteq lost \union {"describe"}
<1>1. CASE missed = {}
  <2>1. fails' = fails /\ lost' = lost
    BY <1>1 DEF Miss
  <2> QED BY <2>1 DEF TypeInv
<1>2. CASE missed # {}
  <2>1. fails < MaxFails /\ fails' = fails + 1 /\ lost' = lost \union {"describe"}
    BY <1>2, Zenon DEF Miss
  <2>2. fails' \in 0..MaxFails
    BY <2>1, RecordAssumption DEF TypeInv
  <2>3. lost' \subseteq {"save", "write", "describe"}
    BY <2>1 DEF TypeInv
  <2> QED BY <2>1, <2>2, <2>3
<1> QED BY <1>1, <1>2

LEMMA InitType == Init => TypeInv
<1> SUFFICES ASSUME Init PROVE TypeInv
  OBVIOUS
<1>1. cfn \in [Stacks -> Statuses] /\ cfn \in [Stacks -> Statuses \ {"unknown"}]
  BY DEF Init, Statuses
<1>2. 0 \in Stamps /\ 0 \in Execs
  <2>1. Cardinality(Listeners) \in Nat
    BY RecordAssumption, FS_CardinalityType
  <2> QED BY <2>1, RecordAssumption DEF Stamps, Execs
<1>3. rec \in Stamped
  BY <1>1, <1>2, TimesType DEF Init, Stamped, Records, Results, Actions
<1>4. Result \in {"SUCCEEDED", "FAILED"}
  BY DEF Result
<1>5. exec \in [Execs -> Results] /\ kind \in [Execs -> Actions]
  BY <1>4 DEF Init, Results, Actions
<1>6. news \subseteq Events
  BY <1>2, <1>4 DEF Init, Events, ExecEvents, Results
<1>7. fails \in 0..MaxFails
  BY RecordAssumption DEF Init
<1> QED BY <1>1, <1>3, <1>5, <1>6, <1>7 DEF Init, TypeInv, LisType

\* The console's reads, the index and the operator's page.
LEMMA ReadsType ==
  ASSUME TypeInv,
         Get \/ SaveGet \/ GetFails \/ CatchUp \/ OpenPage \/ LeavePage \/ SaveFails
  PROVE  TypeInv'
<1>1. CASE Get
  BY <1>1 DEF Get, TypeInv, Reads
<1>2. CASE SaveGet
  BY <1>2 DEF SaveGet, Put, TypeInv, Reads
<1>3. CASE GetFails
  BY <1>3 DEF GetFails, TypeInv
<1>4. CASE CatchUp
  BY <1>4 DEF CatchUp, TypeInv
<1>5. CASE OpenPage
  BY <1>5 DEF OpenPage, TypeInv, Pages
<1>6. CASE LeavePage
  BY <1>6 DEF LeavePage, TypeInv
<1>7. CASE SaveFails
  BY <1>7, RecordAssumption DEF SaveFails, TypeInv
<1> QED BY <1>1, <1>2, <1>3, <1>4, <1>5, <1>6, <1>7

\* What a request has saved next.
LEMMA SaveType ==
  ASSUME NEW r \in Records, NEW e \in Execs,
         NEW name \in {"update", "app", "retry", "delete"},
         name = "retry" => r.updateAt \in Stamps,
         Save(r, e, name)
  PROVE  req' \in Saves
<1> DEFINE copy == [r EXCEPT !.exec = e, !.result = "RUNNING",
                             !.updateAt = IF name = "retry" THEN @ ELSE NoTime]
<1>1. copy \in Records
  BY TimesType DEF Records, Results
<1>2. name = "retry" => copy \in Stamped
  BY <1>1 DEF Stamped, Records
<1>3. req' = [pc |-> "save", name |-> name, copy |-> copy]
  BY DEF Save
<1> HIDE DEF copy
<1> QED BY <1>1, <1>2, <1>3 DEF Saves

LEMMA StartType ==
  ASSUME TypeInv, NEW e \in Execs, NEW action \in Actions, StartExecution(e, action)
  PROVE  /\ exec' \in [Execs -> Results]
         /\ kind' \in [Execs -> Actions]
         /\ left' \subseteq Stacks
         /\ news' \subseteq Events
BY DEF StartExecution, TypeInv, Results, Events, ExecEvents

\* The requests that start an execution.
LEMMA RequestsType ==
  ASSUME TypeInv, NEW e \in Execs, Update(e) \/ UpdateApp(e) \/ Retry(e) \/ Delete(e)
  PROVE  TypeInv'
<1>0. /\ rec \in Records /\ index \in Records /\ rec.updateAt \in Stamps
      /\ "Update" \in Actions /\ "Delete" \in Actions
  BY DEF TypeInv, Stamped, Actions
<1>1. CASE Update(e)
  <2>1. req.copy \in Records
    BY <1>1 DEF Update, TypeInv, Idle, Pages, Saves, Stamped
  <2>2. [req.copy EXCEPT !.lastAction = "Update"] \in Records
    BY <2>1, <1>0 DEF Records
  <2>3. req' \in Saves
    BY <1>1, <2>2, SaveType DEF Update
  <2> QED BY <1>0, <1>1, <2>3, StartType DEF Update, TypeInv
<1>2. CASE UpdateApp(e)
  <2>1. [index EXCEPT !.lastAction = "Update"] \in Records
    BY <1>0 DEF Records
  <2>2. req' \in Saves
    BY <1>2, <2>1, SaveType DEF UpdateApp
  <2> QED BY <1>0, <1>2, <2>2, StartType DEF UpdateApp, TypeInv
<1>3. CASE Retry(e)
  <2>1. req' \in Saves
    BY <1>0, <1>3, SaveType DEF Retry
  <2> QED BY <1>0, <1>3, <2>1, StartType DEF Retry, TypeInv
<1>4. CASE Delete(e)
  <2>1. PICK r \in {index, rec}, missed \in SUBSET Stacks :
             /\ StartExecution(e, "Delete")
             /\ Save([r EXCEPT !.lastAction = "Delete", !.stacks = Found(missed)], e, "delete")
             /\ Miss(missed)
    BY <1>4 DEF Delete
  <2>2. [r EXCEPT !.lastAction = "Delete", !.stacks = Found(missed)] \in Records
    BY <1>0, StatusOf DEF Records
  <2>3. req' \in Saves
    BY <2>1, <2>2, SaveType
  <2>4. fails' \in 0..MaxFails /\ lost' \subseteq {"save", "write", "describe"}
    BY <2>1, MissLost
  <2> QED BY <1>0, <1>4, <2>1, <2>3, <2>4, StartType DEF Delete, TypeInv
<1> QED BY <1>1, <1>2, <1>3, <1>4

\* A record to which a write gives a new time.
LEMMA WriteType ==
  ASSUME NEW r \in Records
  PROVE  [r EXCEPT !.updateAt = Now] \in Stamped
<1>1. Now \in Stamps /\ Now \in Times
  BY NowIsFresh, TimesType
<1> HIDE DEF Now
<1> QED BY <1>1 DEF Stamped, Records

LEMMA SaveRequestType ==
  ASSUME TypeInv, SaveRequest
  PROVE  TypeInv'
<1>1. req \in Saves
  BY DEF SaveRequest, TypeInv, Idle, Pages
<1>2. req.copy \in Records /\ (req.name = "retry" => req.copy \in Stamped)
  BY <1>1 DEF Saves, Stamped
<1>3. rec' \in Stamped
  BY <1>2, WriteType DEF SaveRequest
<1>4. [rec EXCEPT !.old = TRUE] \in Stamped
  BY DEF TypeInv, Stamped, Records
<1>5. get' \in {Idle} \union Reads
  <2>1. CASE get = Idle
    BY <2>1 DEF SaveRequest
  <2>2. CASE get # Idle
    <3>1. get \in Reads
      BY <2>2 DEF TypeInv
    <3>2. [get EXCEPT !.copy.old = TRUE] \in Reads
      BY <3>1 DEF Reads, Stamped, Records
    <3> QED BY <2>2, <3>1, <3>2 DEF SaveRequest
  <2> QED BY <2>1, <2>2
<1>6. index' \in Stamped
  BY <1>4 DEF SaveRequest, TypeInv
<1> QED BY <1>3, <1>5, <1>6 DEF SaveRequest, TypeInv

\* Steps of executions and stacks.
LEMMA ExecutionType ==
  ASSUME TypeInv,
         \/ \E s \in Stacks : StackStarts(s) \/ StackEnds(s)
         \/ \E e \in Execs : ExecutionEnds(e)
  PROVE  TypeInv'
<1>1. ASSUME NEW s \in Stacks, StackStarts(s) PROVE TypeInv'
  <2>1. news' \subseteq Events
    BY <1>1 DEF StackStarts, TypeInv, Events, StackEvents
  <2>2. cfn' \in [Stacks -> Statuses \ {"unknown"}]
    BY <1>1 DEF StackStarts, TypeInv, Statuses
  <2> QED BY <1>1, <2>1, <2>2 DEF StackStarts, TypeInv
<1>2. ASSUME NEW s \in Stacks, StackEnds(s) PROVE TypeInv'
  <2>1. news' \subseteq Events
    BY <1>2 DEF StackEnds, TypeInv, Events, StackEvents
  <2>2. PICK st \in {"failed", "done", "deleted"} : cfn' = [cfn EXCEPT ![s] = st]
    BY <1>2, Zenon DEF StackEnds
  <2>3. cfn' \in [Stacks -> Statuses \ {"unknown"}]
    BY <2>2 DEF TypeInv, Statuses
  <2> QED BY <1>2, <2>1, <2>3 DEF StackEnds, TypeInv
<1>3. ASSUME NEW e \in Execs, ExecutionEnds(e) PROVE TypeInv'
  <2>1. exec' \in [Execs -> Results]
    BY <1>3, StatusOf DEF ExecutionEnds, TypeInv, Results
  <2>2. news' \subseteq Events
    BY <1>3, StatusOf DEF ExecutionEnds, TypeInv, Events, ExecEvents, Results
  <2> QED BY <1>3, <2>1, <2>2 DEF ExecutionEnds, TypeInv
<1> QED BY <1>1, <1>2, <1>3

-----------------------------------------------------------------------------
(* Types of the listeners                                                   *)

\* A listener is idle or runs for an event of the kind it is told of.
LEMMA RunType ==
  ASSUME TypeInv, NEW l \in Listeners
  PROVE  /\ lis[l] \in Runs
         /\ lis[l].pc \in {"read", "write"} => lis[l] \in StackRuns
         /\ lis[l].pc \in {"again", "state", "fetch", "all"} => lis[l] \in ExecRuns
<1>1. lis[l] \in {NoRun} \union StackRuns \union ExecRuns
  BY DEF TypeInv, LisType
<1>2. NoRun \in Runs /\ NoRun.pc = "idle"
  BY NoRunType
<1> QED BY <1>1, <1>2 DEF StackRuns, ExecRuns

LEMMA BecomeType ==
  ASSUME TypeInv, NEW l \in Listeners, NEW r \in LisType, Become(l, r)
  PROVE  lis' \in [Listeners -> LisType]
BY DEF Become, TypeInv

\* A listener that starts, and one that starts over.
LEMMA StartsType ==
  ASSUME NEW ev \in StackEvents, NEW st \in Statuses, NEW n \in 0..MaxRetry
  PROVE  /\ [NoRun EXCEPT !.pc = "read", !.event = ev, !.seen = st] \in StackRuns
         /\ [NoRun EXCEPT !.pc = "read", !.event = ev, !.seen = st, !.tries = n] \in StackRuns
<1>1. NoRun \in Runs
  BY NoRunType
<1>2. ev \in Events \union {Idle}
  BY DEF Events
<1> HIDE DEF NoRun
<1> QED BY <1>1, <1>2 DEF StackRuns, Runs

LEMMA DescribeType ==
  ASSUME TypeInv, NEW l \in Listeners, NEW ev \in news, Describe(l, ev)
  PROVE  TypeInv'
<1>1. ev \in StackEvents
  BY EventTypes DEF Describe, TypeInv
<1>2. cfn[ev.stack] \in Statuses
  BY <1>1, EventTypes DEF TypeInv
<1>3. [NoRun EXCEPT !.pc = "read", !.event = ev, !.seen = cfn[ev.stack]] \in LisType
  <2>1. 0 \in 0..MaxRetry
    BY RecordAssumption
  <2> QED BY <1>1, <1>2, <2>1, StartsType, Zenon DEF LisType
<1>4. lis' \in [Listeners -> LisType]
  BY <1>3, BecomeType DEF Describe
<1> QED BY <1>4 DEF Describe, TypeInv

LEMMA StackListenerType ==
  ASSUME TypeInv, NEW l \in Listeners,
         ReadStack(l) \/ WriteStack(l) \/ WriteStackRefused(l)
  PROVE  TypeInv'
<1> DEFINE run == lis[l]
<1>1. run \in StackRuns /\ run \in Runs
  BY RunType DEF ReadStack, WriteStack, WriteStackRefused
<1>2. /\ run.event \in StackEvents /\ run.seen \in Statuses
      /\ run.tries \in 0..MaxRetry /\ run.stacks \in [Stacks -> Statuses]
      /\ run.event.stack \in Stacks
  BY <1>1, EventTypes DEF StackRuns, Runs
<1>3. rec \in Records /\ index \in Records /\ index.updateAt \in Times /\ index \in Stamped
  BY TimesType DEF TypeInv, Stamped
<1>4. NoRun \in LisType
  BY DEF LisType
<1>5. CASE ReadStack(l)
  <2>1. [index.stacks EXCEPT ![run.event.stack] = run.seen] \in [Stacks -> Statuses]
    BY <1>2, <1>3 DEF Records
  <2>2. PICK stacks \in [Stacks -> Statuses] :
             Become(l, [run EXCEPT !.pc = "write", !.at = index.updateAt, !.stacks = stacks])
    BY <1>5, <2>1 DEF ReadStack
  <2>3. [run EXCEPT !.pc = "write", !.at = index.updateAt, !.stacks = stacks] \in StackRuns
    BY <1>1, <1>3 DEF StackRuns, Runs
  <2>4. lis' \in [Listeners -> LisType]
    BY <2>2, <2>3, BecomeType DEF LisType
  <2> QED BY <1>5, <2>4 DEF ReadStack, TypeInv
<1>6. CASE WriteStack(l)
  <2>1. [rec EXCEPT !.stacks = run.stacks] \in Records
    BY <1>2, <1>3 DEF Records
  <2>2. rec' = [[rec EXCEPT !.stacks = run.stacks] EXCEPT !.updateAt = Now]
    BY <1>6, <1>3 DEF WriteStack, Put, Records
  <2>3. rec' \in Stamped
    BY <2>1, <2>2, WriteType
  <2>4. lis' \in [Listeners -> LisType]
    BY <1>4, <1>6, BecomeType DEF WriteStack
  <2> QED BY <1>6, <2>3, <2>4 DEF WriteStack, Put, TypeInv
<1>7. CASE WriteStackRefused(l)
  <2>1. CASE run.tries = MaxRetry
    <3>1. lis' \in [Listeners -> LisType]
      BY <1>4, <1>7, <2>1, BecomeType DEF WriteStackRefused
    <3> QED BY <1>7, <2>1, <3>1 DEF WriteStackRefused, GiveUp, TypeInv
  <2>2. CASE run.tries # MaxRetry
    <3>1. run.tries + 1 \in 0..MaxRetry
      BY <1>2, <2>2, RecordAssumption
    <3>2. [NoRun EXCEPT !.pc = "read", !.event = run.event, !.seen = run.seen,
                        !.tries = run.tries + 1] \in LisType
      BY <1>2, <3>1, StartsType, Zenon DEF LisType
    <3>3. lis' \in [Listeners -> LisType]
      BY <1>7, <2>2, <3>2, BecomeType DEF WriteStackRefused
    <3> QED BY <1>7, <2>2, <3>3 DEF WriteStackRefused, TypeInv
  <2> QED BY <2>1, <2>2
<1> QED BY <1>5, <1>6, <1>7

LEMMA ReadPipelineType ==
  ASSUME TypeInv, NEW l \in Listeners, NEW ev \in news, ReadPipeline(l, ev)
  PROVE  TypeInv'
<1> DEFINE run == [NoRun EXCEPT !.pc = "state", !.event = ev, !.at = index.updateAt]
           ends == [run EXCEPT !.first = index.updateAt, !.lastAction = index.lastAction]
<1>1. ev \in ExecEvents /\ ev \in Events
  BY EventTypes DEF ReadPipeline, TypeInv
<1>2. index.updateAt \in Times /\ index.lastAction \in Actions
  BY TimesType DEF TypeInv, Stamped, Records
<1>3. run \in ExecRuns
  <2>1. NoRun \in Runs
    BY NoRunType
  <2> HIDE DEF NoRun
  <2> QED BY <1>1, <1>2, <2>1 DEF ExecRuns, Runs
<1>4. ends \in ExecRuns
  <2> HIDE DEF run
  <2> QED BY <1>2, <1>3 DEF ExecRuns, Runs
<1>5. Become(l, IF ev.result = "RUNNING" THEN run ELSE ends)
  BY DEF ReadPipeline
<1> HIDE DEF run, ends
<1>6. lis' \in [Listeners -> LisType]
  BY <1>3, <1>4, <1>5, BecomeType DEF LisType
<1> QED BY <1>6 DEF ReadPipeline, TypeInv

\* A run for an event of an execution.
LEMMA ExecRunType ==
  ASSUME TypeInv, NEW l \in Listeners, lis[l].pc \in {"again", "state", "fetch", "all"}
  PROVE  /\ lis[l] \in ExecRuns /\ lis[l] \in Runs
         /\ lis[l].event \in ExecEvents
         /\ lis[l].event.exec \in Execs /\ lis[l].event.result \in Results
         /\ lis[l].tries \in 0..MaxRetry
         /\ lis[l].at \in Times /\ lis[l].first \in Times
         /\ lis[l].stacks \in [Stacks -> Statuses]
         /\ lis[l].lastAction \in Actions
<1>1. lis[l] \in ExecRuns /\ lis[l] \in Runs
  BY RunType
<1> QED BY <1>1, EventTypes DEF ExecRuns, Runs, Results

LEMMA AfterStateType ==
  ASSUME TypeInv, NEW l \in Listeners, lis[l].pc = "state"
  PROVE  AfterState(l) \in LisType
<1>1. lis[l] \in ExecRuns /\ lis[l].first \in Times /\ 0 \in 0..MaxRetry
  BY ExecRunType, RecordAssumption
<1>2. [lis[l] EXCEPT !.pc = "fetch", !.tries = 0, !.at = lis[l].first] \in ExecRuns
  BY <1>1 DEF ExecRuns, Runs
<1> QED BY <1>2 DEF AfterState, LisType

LEMMA StateType ==
  ASSUME TypeInv, NEW l \in Listeners,
         WriteState(l) \/ WriteStateRefused(l) \/ ReadAgain(l)
  PROVE  TypeInv'
<1> DEFINE run == lis[l]
<1>1. /\ run \in ExecRuns /\ run \in Runs
      /\ run.event.exec \in Execs /\ run.event.result \in Results
      /\ run.tries \in 0..MaxRetry
  BY ExecRunType DEF WriteState, WriteStateRefused, ReadAgain
<1>2. rec \in Records /\ index.updateAt \in Times /\ NoTime \in Times
  BY TimesType DEF TypeInv, Stamped
<1>3. CASE WriteState(l)
  <2>1. [rec EXCEPT !.exec = run.event.exec, !.result = run.event.result] \in Records
    BY <1>1, <1>2 DEF Records
  <2>2. rec' = [[rec EXCEPT !.exec = run.event.exec, !.result = run.event.result]
                  EXCEPT !.updateAt = Now]
    BY <1>3, <1>2 DEF WriteState, Put, Records
  <2>3. rec' \in Stamped
    BY <2>1, <2>2, WriteType
  <2>4. lis' \in [Listeners -> LisType]
    BY <1>3, AfterStateType, BecomeType DEF WriteState
  <2> QED BY <1>3, <2>3, <2>4 DEF WriteState, Put, TypeInv
<1>4. CASE WriteStateRefused(l)
  <2>1. CASE run.tries = MaxRetry
    <3>1. lis' \in [Listeners -> LisType]
      BY <1>4, <2>1, AfterStateType, BecomeType DEF WriteStateRefused
    <3> QED BY <1>4, <2>1, <3>1 DEF WriteStateRefused, GiveUp, TypeInv
  <2>2. CASE run.tries # MaxRetry
    <3>1. run.tries + 1 \in 0..MaxRetry
      BY <1>1, <2>2, RecordAssumption
    <3>2. [run EXCEPT !.pc = "again", !.tries = @ + 1, !.at = NoTime] \in ExecRuns
      BY <1>1, <1>2, <3>1 DEF ExecRuns, Runs
    <3>3. lis' \in [Listeners -> LisType]
      BY <1>4, <2>2, <3>2, BecomeType DEF WriteStateRefused, LisType
    <3> QED BY <1>4, <2>2, <3>3 DEF WriteStateRefused, TypeInv
  <2> QED BY <2>1, <2>2
<1>5. CASE ReadAgain(l)
  <2>1. [run EXCEPT !.pc = "state", !.at = index.updateAt] \in ExecRuns
    BY <1>1, <1>2 DEF ExecRuns, Runs
  <2>2. lis' \in [Listeners -> LisType]
    BY <1>5, <2>1, BecomeType DEF ReadAgain, LisType
  <2> QED BY <1>5, <2>2 DEF ReadAgain, TypeInv
<1> QED BY <1>3, <1>4, <1>5

LEMMA FinishType ==
  ASSUME TypeInv, NEW l \in Listeners, Finish(l)
  PROVE  gone' \in BOOLEAN /\ lis' \in [Listeners -> LisType]
<1>1. NoRun \in LisType
  BY DEF LisType
<1>2. lis' \in [Listeners -> LisType]
  BY <1>1, BecomeType DEF Finish
<1>3. gone' \in BOOLEAN
  BY DEF Finish, TypeInv
<1> QED BY <1>2, <1>3

LEMMA AllType ==
  ASSUME TypeInv, NEW l \in Listeners,
         FetchAll(l) \/ WriteAll(l) \/ WriteAllRefused(l)
  PROVE  TypeInv'
<1> DEFINE run == lis[l]
<1>1. /\ run \in ExecRuns /\ run \in Runs
      /\ run.tries \in 0..MaxRetry /\ run.at \in Times
      /\ run.stacks \in [Stacks -> Statuses]
  BY ExecRunType DEF FetchAll, WriteAll, WriteAllRefused
<1>2. rec \in Records /\ index.updateAt \in Times /\ NoTime \in Times
  BY TimesType DEF TypeInv, Stamped
<1>3. CASE FetchAll(l)
  <2>1. PICK at \in Times, stacks \in [Stacks -> Statuses] :
             Become(l, [run EXCEPT !.pc = "all", !.stacks = stacks, !.first = NoTime, !.at = at])
    <3>1. (IF run.tries = 0 THEN run.at ELSE index.updateAt) \in Times
      BY <1>1, <1>2
    <3>2. PICK missed : Become(l, [run EXCEPT !.pc = "all", !.stacks = Found(missed),
                          !.first = NoTime,
                          !.at = IF run.tries = 0 THEN run.at ELSE index.updateAt])
      BY <1>1, <1>3 DEF FetchAll, Runs
    <3> QED BY <3>1, <3>2, StatusOf
  <2>2. [run EXCEPT !.pc = "all", !.stacks = stacks, !.first = NoTime, !.at = at] \in ExecRuns
    BY <1>1, <1>2 DEF ExecRuns, Runs
  <2>3. lis' \in [Listeners -> LisType]
    BY <2>1, <2>2, BecomeType DEF LisType
  <2>4. fails' \in 0..MaxFails /\ lost' \subseteq {"save", "write", "describe"}
    BY <1>3, MissLost DEF FetchAll
  <2> QED BY <1>3, <2>3, <2>4 DEF FetchAll, TypeInv
<1>4. CASE WriteAll(l)
  <2>1. [rec EXCEPT !.stacks = run.stacks] \in Records
    BY <1>1, <1>2 DEF Records
  <2>2. rec' = [[rec EXCEPT !.stacks = run.stacks] EXCEPT !.updateAt = Now]
    BY <1>2, <1>4 DEF WriteAll, Put, Records
  <2>3. rec' \in Stamped
    BY <2>1, <2>2, WriteType
  <2>4. gone' \in BOOLEAN /\ lis' \in [Listeners -> LisType]
    BY <1>4, FinishType DEF WriteAll
  <2> QED BY <1>4, <2>3, <2>4 DEF WriteAll, Put, TypeInv
<1>5. CASE WriteAllRefused(l)
  <2>1. CASE run.tries = MaxRetry
    <3>1. gone' \in BOOLEAN /\ lis' \in [Listeners -> LisType]
      BY <1>5, <2>1, FinishType DEF WriteAllRefused
    <3> QED BY <1>5, <2>1, <3>1 DEF WriteAllRefused, GiveUp, TypeInv
  <2>2. CASE run.tries # MaxRetry
    <3>1. run.tries + 1 \in 0..MaxRetry
      BY <1>1, <2>2, RecordAssumption
    <3>2. PICK stacks \in [Stacks -> Statuses] : stacks = NoRun.stacks
      BY NoRunType
    <3>3. Become(l, [run EXCEPT !.pc = "fetch", !.tries = @ + 1, !.at = NoTime, !.stacks = stacks])
      BY <1>5, <2>2, <3>2, Zenon DEF WriteAllRefused
    <3>4. [run EXCEPT !.pc = "fetch", !.tries = @ + 1, !.at = NoTime, !.stacks = stacks] \in ExecRuns
      BY <1>1, <1>2, <3>1 DEF ExecRuns, Runs
    <3>5. lis' \in [Listeners -> LisType]
      BY <3>3, <3>4, BecomeType DEF LisType
    <3> QED BY <1>5, <2>2, <3>5 DEF WriteAllRefused, TypeInv
  <2> QED BY <2>1, <2>2
<1> QED BY <1>3, <1>4, <1>5

\* A listener that stops, and an event that is given up.
LEMMA StopsType ==
  ASSUME TypeInv,
         \/ \E l \in Listeners : ListenerFails(l) \/ ListenerFindsNothing(l)
         \/ \E ev \in news : DropEvent(ev)
  PROVE  TypeInv'
<1>0. NoRun \in LisType
  BY DEF LisType
<1>1. ASSUME NEW l \in Listeners, ListenerFails(l) PROVE TypeInv'
  <2>1. lis' \in [Listeners -> LisType]
    BY <1>0, <1>1, BecomeType DEF ListenerFails
  <2>2. lis[l].event \in Events
    BY <1>1, ExecRunType, EventTypes DEF ListenerFails
  <2>3. fails' \in 0..MaxFails
    BY <1>1, RecordAssumption DEF ListenerFails, TypeInv
  <2> QED BY <1>1, <2>1, <2>2, <2>3 DEF ListenerFails, TypeInv
<1>2. ASSUME NEW l \in Listeners, ListenerFindsNothing(l) PROVE TypeInv'
  <2>1. lis' \in [Listeners -> LisType]
    BY <1>0, <1>2, BecomeType DEF ListenerFindsNothing
  <2> QED BY <1>2, <2>1 DEF ListenerFindsNothing, TypeInv
<1>3. ASSUME NEW ev \in news, DropEvent(ev) PROVE TypeInv'
  BY <1>3 DEF DropEvent, TypeInv
<1> QED BY <1>1, <1>2, <1>3

LEMMA NextType ==
  ASSUME TypeInv, [Next]_vars PROVE TypeInv'
<1>1. CASE UNCHANGED vars
  BY <1>1 DEF vars, TypeInv
<1>2. CASE Next
  BY <1>2, ReadsType, RequestsType, SaveRequestType, ExecutionType, DescribeType,
     StackListenerType, ReadPipelineType, StateType, AllType, StopsType DEF Next
<1> QED BY <1>1, <1>2

LEMMA TypeIsInvariant == Spec => []TypeInv
BY InitType, NextType, PTL DEF Spec

\* The record, its copies and the listeners stay what the code takes them for: a
\* write always finds a time of its own, a listener never retries more than
\* MAX_RETRY_COUNT times.
THEOREM RecordTypes == Spec => []TypeOK
BY TypeIsInvariant, TypeInvType, PTL

-----------------------------------------------------------------------------
(* updateAt tells the stacks of a record: two records that have it in      *)
(* common have the same ones, those put back by a retry or by the          *)
(* console's reads too.                                                    *)

Copies == {rec, index} \union {p.copy : p \in {req, get} \ {Idle}}

SameStacks == \A r, q \in Copies : r.updateAt = q.updateAt /\ r.updateAt # NoTime =>
                                     r.stacks = q.stacks

\* A write takes no status back, whichever of them is the record by then.
WritesKnown ==
  \A l \in Listeners : lis[l].pc = "write" =>
    /\ lis[l].at \in Stamps
    /\ \A r \in Copies : r.updateAt = lis[l].at =>
         \A s \in Stacks \ {lis[l].event.stack} : lis[l].stacks[s] = r.stacks[s]

StampInv == SameStacks /\ WritesKnown

\* A record has updateAt and stacks of one of the copies, or no time, or is the one
\* written now.
Follows(r, w) ==
  \/ r.updateAt = NoTime
  \/ \E q \in Copies : r.updateAt = q.updateAt /\ r.stacks = q.stacks
  \/ r = w /\ r.updateAt = Now

LEMMA CopiesNotNow ==
  /\ \A r \in Copies : r.updateAt # Now
  /\ \A l \in Listeners : lis[l].at # Now
<1>1. Copies = {rec, index} \union {p.copy : p \in {req, get} \ {Idle}}
  BY DEF Copies
<1>2. \A r \in Copies : r.updateAt \in Held
  BY <1>1 DEF Held
<1>3. \A l \in Listeners : lis[l].at \in Held
  BY DEF Held
<1>4. Now \notin Held
  BY NowIsFresh
<1> QED BY <1>2, <1>3, <1>4

LEMMA StampsStep ==
  ASSUME StampInv, NEW w,
         \A r \in Copies' : Follows(r, w),
         \A l \in Listeners : lis'[l] = lis[l] \/ lis'[l].pc # "write"
  PROVE  StampInv'
<1>1. ASSUME NEW r \in Copies', NEW q \in Copies', r.updateAt = q.updateAt, r.updateAt # NoTime
      PROVE  r.stacks = q.stacks
  <2>1. Follows(r, w) /\ Follows(q, w)
    OBVIOUS
  <2> QED BY <1>1, <2>1, CopiesNotNow DEF Follows, StampInv, SameStacks
<1>2. ASSUME NEW l \in Listeners, lis'[l].pc = "write"
      PROVE  /\ lis'[l].at \in Stamps
             /\ \A r \in Copies' : r.updateAt = lis'[l].at =>
                  \A s \in Stacks \ {lis'[l].event.stack} : lis'[l].stacks[s] = r.stacks[s]
  <2>1. lis'[l] = lis[l]
    BY <1>2
  <2>2. lis[l].at \in Stamps /\ lis[l].at # Now /\ lis[l].pc = "write"
    BY <1>2, <2>1, CopiesNotNow DEF StampInv, WritesKnown
  <2>3. lis[l].at # NoTime
    <3>1. Cardinality(Listeners) \in Nat
      BY RecordAssumption, FS_CardinalityType
    <3> QED BY <2>2, <3>1 DEF Stamps, NoTime
  <2>4. ASSUME NEW r \in Copies', r.updateAt = lis[l].at, NEW s \in Stacks \ {lis[l].event.stack}
        PROVE  lis[l].stacks[s] = r.stacks[s]
    <3>1. Follows(r, w)
      OBVIOUS
    <3>2. PICK q \in Copies : r.updateAt = q.updateAt /\ r.stacks = q.stacks
      BY <2>2, <2>3, <2>4, <3>1 DEF Follows
    <3> QED BY <2>2, <2>4, <3>2 DEF StampInv, WritesKnown
  <2> QED BY <2>1, <2>2, <2>4
<1>3. SameStacks'
  BY <1>1 DEF SameStacks
<1>4. WritesKnown'
  BY <1>2 DEF WritesKnown
<1> QED BY <1>3, <1>4 DEF StampInv

\* What the records can be after a step.
LEMMA CopiesNext ==
  ASSUME NEW r \in Copies'
  PROVE  \/ r = rec' \/ r = index'
         \/ req' # Idle /\ r = req'.copy
         \/ get' # Idle /\ r = get'.copy
BY DEF Copies

LEMMA CopiesNow ==
  /\ rec \in Copies /\ index \in Copies
  /\ req # Idle => req.copy \in Copies
  /\ get # Idle => get.copy \in Copies
BY DEF Copies

\* A copy follows itself.
LEMMA CopyFollows ==
  ASSUME NEW r \in Copies, NEW w PROVE Follows(r, w)
BY DEF Follows

LEMMA FewerCopies ==
  ASSUME StampInv, \A r \in Copies' : r \in Copies,
         \A l \in Listeners : lis'[l] = lis[l] \/ lis'[l].pc # "write"
  PROVE  StampInv'
BY StampsStep, CopyFollows

LEMMA BecomesOther ==
  ASSUME TypeInv, NEW l \in Listeners, NEW r, Become(l, r), r.pc # "write"
  PROVE  \A k \in Listeners : lis'[k] = lis[k] \/ lis'[k].pc # "write"
BY DEF Become, TypeInv

\* The console's reads, the page, the index, executions and stacks make no stamp.
LEMMA ReadsStamp ==
  ASSUME TypeInv, StampInv,
         \/ Get \/ SaveGet \/ GetFails \/ CatchUp \/ OpenPage \/ LeavePage \/ SaveFails
         \/ \E e \in Execs : ExecutionEnds(e)
         \/ \E s \in Stacks : StackStarts(s) \/ StackEnds(s)
         \/ \E ev \in news : DropEvent(ev)
  PROVE  StampInv'
<1>1. lis' = lis
  BY DEF Get, SaveGet, GetFails, CatchUp, OpenPage, LeavePage, SaveFails, ExecutionEnds,
         StackStarts, StackEnds, DropEvent
<1>2. \A r \in Copies' : r \in Copies
  <2> SUFFICES ASSUME NEW r \in Copies' PROVE r \in Copies
    OBVIOUS
  <2>1. \/ r = rec' \/ r = index'
        \/ req' # Idle /\ r = req'.copy
        \/ get' # Idle /\ r = get'.copy
    BY CopiesNext
  <2>2. CASE Get
    BY <2>1, <2>2, CopiesNow DEF Get
  <2>3. CASE SaveGet
    BY <2>1, <2>3, CopiesNow DEF SaveGet, Put
  <2>4. CASE GetFails \/ CatchUp \/ LeavePage \/ SaveFails
    BY <2>1, <2>4, CopiesNow DEF GetFails, CatchUp, LeavePage, SaveFails
  <2>5. CASE OpenPage
    BY <2>1, <2>5, CopiesNow DEF OpenPage
  <2>6. CASE \/ \E e \in Execs : ExecutionEnds(e)
             \/ \E s \in Stacks : StackStarts(s) \/ StackEnds(s)
             \/ \E ev \in news : DropEvent(ev)
    BY <2>1, <2>6, CopiesNow DEF ExecutionEnds, StackStarts, StackEnds, DropEvent
  <2> QED BY <2>2, <2>3, <2>4, <2>5, <2>6
<1> QED BY <1>1, <1>2, FewerCopies

\* A request has a record without a time, or, a retry, with that of the record.
LEMMA RequestsStamp ==
  ASSUME TypeInv, StampInv, NEW e \in Execs,
         Update(e) \/ UpdateApp(e) \/ Retry(e) \/ Delete(e)
  PROVE  StampInv'
<1>1. lis' = lis /\ rec' = rec /\ index' = index /\ get' = get
  BY DEF Update, UpdateApp, Retry, Delete
<1>2. rec \in Records /\ index \in Records
  BY DEF TypeInv, Stamped
<1>3. PICK r, name : /\ Save(r, e, name)
                     /\ r \in Records
                     /\ name = "retry" => r = rec
  <2>1. CASE Update(e)
    <3>1. req.copy \in Records
      BY <2>1 DEF Update, TypeInv, Idle, Pages, Saves, Stamped
    <3>2. [req.copy EXCEPT !.lastAction = "Update"] \in Records
      BY <3>1 DEF Records, Actions
    <3> QED BY <2>1, <3>2 DEF Update
  <2>2. CASE UpdateApp(e)
    <3>1. [index EXCEPT !.lastAction = "Update"] \in Records
      BY <1>2 DEF Records, Actions
    <3> QED BY <2>2, <3>1 DEF UpdateApp
  <2>3. CASE Retry(e)
    BY <1>2, <2>3 DEF Retry
  <2>4. CASE Delete(e)
    <3>1. PICK r \in {index, rec}, missed \in SUBSET Stacks :
             Save([r EXCEPT !.lastAction = "Delete", !.stacks = Found(missed)], e, "delete")
      BY <2>4 DEF Delete
    <3>2. [r EXCEPT !.lastAction = "Delete", !.stacks = Found(missed)] \in Records
      BY <1>2, StatusOf DEF Records, Actions
    <3> QED BY <3>1, <3>2
  <2> QED BY <2>1, <2>2, <2>3, <2>4
<1>4. IF name = "retry"
      THEN req'.copy.updateAt = rec.updateAt /\ req'.copy.stacks = rec.stacks
      ELSE req'.copy.updateAt = NoTime
  BY <1>3 DEF Save, Records
<1>5. ASSUME NEW q \in Copies' PROVE Follows(q, rec)
  <2>1. q \in Copies \/ q = req'.copy
    BY <1>1, CopiesNext, CopiesNow
  <2>2. CASE q \in Copies
    BY <2>2, CopyFollows
  <2>3. CASE q = req'.copy
    BY <1>4, <2>3, CopiesNow DEF Follows
  <2> QED BY <2>1, <2>2, <2>3
<1> QED BY <1>1, <1>5, StampsStep

\* A save that is no retry gets a new time; a retry puts its record back.
LEMMA SaveRequestStamp ==
  ASSUME TypeInv, StampInv, SaveRequest
  PROVE  StampInv'
<1>1. req \in Saves /\ req # Idle /\ req.copy \in Copies /\ req.copy \in Records
  <2>1. req \in Saves /\ req # Idle
    BY DEF SaveRequest, TypeInv, Idle, Pages
  <2> QED BY <2>1, CopiesNow DEF Saves, Stamped
<1>2. Follows(rec', rec')
  <2>1. CASE req.name = "retry"
    BY <1>1, <2>1 DEF SaveRequest, Follows
  <2>2. CASE req.name # "retry"
    <3>1. rec' = [req.copy EXCEPT !.updateAt = Now]
      BY <2>2 DEF SaveRequest
    <3>2. rec'.updateAt = Now
      BY <1>1, <3>1 DEF Records
    <3> QED BY <3>2 DEF Follows
  <2> QED BY <2>1, <2>2
<1>3. Follows(index', rec')
  <2>1. CASE req.name = "update"
    <3>1. index'.updateAt = rec.updateAt /\ index'.stacks = rec.stacks
      BY <2>1 DEF SaveRequest, TypeInv, Stamped, Records
    <3> QED BY <3>1, CopiesNow DEF Follows
  <2>2. CASE req.name # "update"
    BY <2>2, CopiesNow, CopyFollows DEF SaveRequest
  <2> QED BY <2>1, <2>2
<1>4. ASSUME get' # Idle PROVE Follows(get'.copy, rec')
  <2>1. CASE get' = get
    BY <1>4, <2>1, CopiesNow, CopyFollows
  <2>2. CASE get # Idle /\ get' = [get EXCEPT !.copy.old = TRUE]
    <3>1. get'.copy.updateAt = get.copy.updateAt /\ get'.copy.stacks = get.copy.stacks
      BY <2>2 DEF TypeInv, Reads, Stamped, Records
    <3> QED BY <2>2, <3>1, CopiesNow DEF Follows
  <2> QED BY <2>1, <2>2 DEF SaveRequest
<1>5. req' = Idle /\ lis' = lis
  BY DEF SaveRequest
<1>6. \A r \in Copies' : Follows(r, rec')
  BY <1>2, <1>3, <1>4, <1>5, CopiesNext
<1> QED BY <1>5, <1>6, StampsStep

\* A listener's write of the record, whatever it changes in it.
LEMMA PutStamp ==
  ASSUME TypeInv, StampInv, NEW r \in Records, r.updateAt = Now, Put(r),
         UNCHANGED <<req, get>>,
         \A l \in Listeners : lis'[l] = lis[l] \/ lis'[l].pc # "write"
  PROVE  StampInv'
<1>1. rec' = r /\ index' = rec
  BY DEF Put
<1>2. ASSUME NEW q \in Copies' PROVE Follows(q, r)
  <2>1. q = r \/ q \in Copies
    BY <1>1, CopiesNext, CopiesNow
  <2> QED BY <2>1, CopyFollows DEF Follows
<1> QED BY <1>2, StampsStep

LEMMA NowSet ==
  ASSUME NEW r \in Records
  PROVE  [r EXCEPT !.updateAt = Now] \in Records /\ [r EXCEPT !.updateAt = Now].updateAt = Now
<1>1. [r EXCEPT !.updateAt = Now] \in Stamped
  BY WriteType
<1> HIDE DEF Now
<1> QED BY <1>1 DEF Stamped, Records

\* A listener that is not about to write the status of a stack.
LEMMA AfterStateOther ==
  ASSUME TypeInv, NEW l \in Listeners, lis[l].pc = "state"
  PROVE  AfterState(l).pc # "write"
<1>1. lis[l] \in Runs
  BY ExecRunType
<1> QED BY <1>1, NoRunType DEF AfterState, Runs

\* Listeners other than a read by the one that is told of stacks.
LEMMA ListenersOther ==
  ASSUME TypeInv, NEW l \in Listeners,
         \/ \E ev \in news : Describe(l, ev) \/ ReadPipeline(l, ev)
         \/ WriteStack(l) \/ WriteStackRefused(l)
         \/ WriteState(l) \/ WriteStateRefused(l) \/ ReadAgain(l)
         \/ FetchAll(l) \/ WriteAll(l) \/ WriteAllRefused(l)
         \/ ListenerFails(l) \/ ListenerFindsNothing(l)
  PROVE  \A k \in Listeners : lis'[k] = lis[k] \/ lis'[k].pc # "write"
<1>0. NoRun.pc # "write" /\ NoRun \in Runs /\ lis[l] \in Runs
  BY NoRunType, RunType
<1>1. ASSUME NEW ev \in news, Describe(l, ev)
      PROVE  \A k \in Listeners : lis'[k] = lis[k] \/ lis'[k].pc # "write"
  <2>1. [NoRun EXCEPT !.pc = "read", !.event = ev, !.seen = cfn[ev.stack]].pc = "read"
    BY <1>0 DEF Runs
  <2> QED BY <1>1, <2>1, BecomesOther DEF Describe
<1>2. ASSUME NEW ev \in news, ReadPipeline(l, ev)
      PROVE  \A k \in Listeners : lis'[k] = lis[k] \/ lis'[k].pc # "write"
  <2> DEFINE run == [NoRun EXCEPT !.pc = "state", !.event = ev, !.at = index.updateAt]
             ends == [run EXCEPT !.first = index.updateAt, !.lastAction = index.lastAction]
  <2>1. run.pc = "state" /\ ends.pc = "state"
    BY <1>0 DEF Runs
  <2>2. Become(l, IF ev.result = "RUNNING" THEN run ELSE ends)
    BY <1>2 DEF ReadPipeline
  <2> HIDE DEF run, ends
  <2> QED BY <2>1, <2>2, BecomesOther
<1>3. CASE WriteStack(l) \/ ListenerFails(l) \/ ListenerFindsNothing(l)
  BY <1>0, <1>3, BecomesOther DEF WriteStack, ListenerFails, ListenerFindsNothing
<1>4. CASE WriteAll(l)
  BY <1>0, <1>4, BecomesOther DEF WriteAll, Finish
<1>5. CASE WriteStackRefused(l)
  <2>1. [NoRun EXCEPT !.pc = "read", !.event = lis[l].event, !.seen = lis[l].seen,
                      !.tries = lis[l].tries + 1].pc = "read"
    BY <1>0 DEF Runs
  <2> QED BY <1>0, <1>5, <2>1, BecomesOther DEF WriteStackRefused
<1>6. CASE WriteState(l)
  BY <1>6, AfterStateOther, BecomesOther DEF WriteState
<1>7. CASE WriteStateRefused(l)
  <2>1. [lis[l] EXCEPT !.pc = "again", !.tries = @ + 1, !.at = NoTime].pc = "again"
    BY <1>0 DEF Runs
  <2> QED BY <1>7, <2>1, AfterStateOther, BecomesOther DEF WriteStateRefused
<1>8. CASE ReadAgain(l)
  <2>1. [lis[l] EXCEPT !.pc = "state", !.at = index.updateAt].pc = "state"
    BY <1>0 DEF Runs
  <2> QED BY <1>8, <2>1, BecomesOther DEF ReadAgain
<1>9. CASE FetchAll(l)
  <2>1. \A at, stacks : [lis[l] EXCEPT !.pc = "all", !.stacks = stacks, !.first = NoTime,
                                       !.at = at].pc = "all"
    BY <1>0 DEF Runs
  <2>2. PICK at, stacks : Become(l, [lis[l] EXCEPT !.pc = "all", !.stacks = stacks,
                                                   !.first = NoTime, !.at = at])
    <3>1. \E missed :
            Become(l, [lis[l] EXCEPT !.pc = "all", !.stacks = Found(missed), !.first = NoTime,
                         !.at = IF lis[l].tries = 0 THEN lis[l].at ELSE index.updateAt])
      BY <1>0, <1>9 DEF FetchAll, Runs
    <3> QED BY <3>1
  <2> QED BY <2>1, <2>2, BecomesOther
<1>10. CASE WriteAllRefused(l)
  <2>1. \A stacks : [lis[l] EXCEPT !.pc = "fetch", !.tries = @ + 1, !.at = NoTime,
                                   !.stacks = stacks].pc = "fetch"
    BY <1>0 DEF Runs
  <2>2. CASE lis[l].tries = MaxRetry
    BY <1>0, <1>10, <2>2, BecomesOther DEF WriteAllRefused, Finish
  <2>3. CASE lis[l].tries # MaxRetry
    <3>1. PICK stacks : stacks = NoRun.stacks
      OBVIOUS
    <3>2. Become(l, [lis[l] EXCEPT !.pc = "fetch", !.tries = @ + 1, !.at = NoTime,
                                   !.stacks = stacks])
      BY <1>10, <2>3, <3>1, Zenon DEF WriteAllRefused
    <3> QED BY <2>1, <3>2, BecomesOther
  <2> QED BY <2>2, <2>3
<1> QED BY <1>1, <1>2, <1>3, <1>4, <1>5, <1>6, <1>7, <1>8, <1>9, <1>10

LEMMA ListenersStamp ==
  ASSUME TypeInv, StampInv, NEW l \in Listeners,
         \/ \E ev \in news : Describe(l, ev) \/ ReadPipeline(l, ev)
         \/ WriteStack(l) \/ WriteStackRefused(l)
         \/ WriteState(l) \/ WriteStateRefused(l) \/ ReadAgain(l)
         \/ FetchAll(l) \/ WriteAll(l) \/ WriteAllRefused(l)
         \/ ListenerFails(l) \/ ListenerFindsNothing(l)
  PROVE  StampInv'
<1>1. \A k \in Listeners : lis'[k] = lis[k] \/ lis'[k].pc # "write"
  BY ListenersOther
<1>2. rec \in Records
  BY DEF TypeInv, Stamped
<1>3. CASE WriteStack(l)
  <2>1. lis[l].stacks \in [Stacks -> Statuses]
    BY <1>3, RunType DEF WriteStack, Runs
  <2>2. [rec EXCEPT !.stacks = lis[l].stacks] \in Records
    BY <1>2, <2>1 DEF Records
  <2>3. Put([[rec EXCEPT !.stacks = lis[l].stacks] EXCEPT !.updateAt = Now])
    BY <1>2, <1>3 DEF WriteStack, Put, Records
  <2> QED BY <1>1, <1>3, <2>2, <2>3, NowSet, PutStamp DEF WriteStack
<1>4. CASE WriteState(l)
  <2>1. [rec EXCEPT !.exec = lis[l].event.exec, !.result = lis[l].event.result] \in Records
    BY <1>2, <1>4, ExecRunType DEF WriteState, Records
  <2>2. Put([[rec EXCEPT !.exec = lis[l].event.exec, !.result = lis[l].event.result]
               EXCEPT !.updateAt = Now])
    BY <1>2, <1>4 DEF WriteState, Put, Records
  <2> QED BY <1>1, <1>4, <2>1, <2>2, NowSet, PutStamp DEF WriteState
<1>5. CASE WriteAll(l)
  <2>1. lis[l].stacks \in [Stacks -> Statuses]
    BY <1>5, ExecRunType DEF WriteAll
  <2>2. [rec EXCEPT !.stacks = lis[l].stacks] \in Records
    BY <1>2, <2>1 DEF Records
  <2>3. Put([[rec EXCEPT !.stacks = lis[l].stacks] EXCEPT !.updateAt = Now])
    BY <1>2, <1>5 DEF WriteAll, Put, Records
  <2> QED BY <1>1, <1>5, <2>2, <2>3, NowSet, PutStamp DEF WriteAll
<1>6. CASE \/ \E ev \in news : Describe(l, ev) \/ ReadPipeline(l, ev)
           \/ WriteStackRefused(l) \/ WriteStateRefused(l) \/ ReadAgain(l)
           \/ FetchAll(l) \/ WriteAllRefused(l)
           \/ ListenerFails(l) \/ ListenerFindsNothing(l)
  <2>1. rec' = rec /\ index' = index /\ req' = req /\ get' = get
    BY <1>6 DEF Describe, ReadPipeline, WriteStackRefused, WriteStateRefused, ReadAgain,
                FetchAll, WriteAllRefused, ListenerFails, ListenerFindsNothing
  <2>2. \A r \in Copies' : r \in Copies
    BY <2>1 DEF Copies
  <2> QED BY <1>1, <2>2, FewerCopies
<1> QED BY <1>3, <1>4, <1>5, <1>6

\* It writes what it read but for its own stack.
LEMMA ReadStackStamp ==
  ASSUME TypeInv, StampInv, NEW l \in Listeners, ReadStack(l)
  PROVE  StampInv'
<1>1. Copies' = Copies
  BY DEF ReadStack, Copies
<1>2. index \in Records /\ index.updateAt \in Stamps /\ index \in Copies
  BY CopiesNow DEF TypeInv, Stamped
<1>3. index.updateAt # NoTime
  <2>1. Cardinality(Listeners) \in Nat
    BY RecordAssumption, FS_CardinalityType
  <2> QED BY <1>2, <2>1 DEF Stamps, NoTime
<1>4. SameStacks'
  BY <1>1 DEF SameStacks, StampInv
<1>5. lis[l] \in Runs
  BY RunType
<1>6. PICK stacks : stacks = [index.stacks EXCEPT ![lis[l].event.stack] = lis[l].seen]
  OBVIOUS
<1>7. \A s \in Stacks \ {lis[l].event.stack} : stacks[s] = index.stacks[s]
  BY <1>2, <1>6 DEF Records
<1>8. lis' = [lis EXCEPT ![l] = [lis[l] EXCEPT !.pc = "write", !.at = index.updateAt,
                                              !.stacks = stacks]]
  BY <1>6 DEF ReadStack, Become
<1>9. /\ lis'[l].at = index.updateAt /\ lis'[l].stacks = stacks
      /\ lis'[l].event = lis[l].event
  BY <1>5, <1>8 DEF TypeInv, Runs
<1>10. ASSUME NEW k \in Listeners, lis'[k].pc = "write"
       PROVE  /\ lis'[k].at \in Stamps
              /\ \A r \in Copies : r.updateAt = lis'[k].at =>
                   \A s \in Stacks \ {lis'[k].event.stack} : lis'[k].stacks[s] = r.stacks[s]
  <2>1. CASE k = l
    <3>1. \A r \in Copies : r.updateAt = index.updateAt => r.stacks = index.stacks
      BY <1>2, <1>3 DEF StampInv, SameStacks
    <3> QED BY <1>2, <1>7, <1>9, <2>1, <3>1
  <2>2. CASE k # l
    <3>1. lis'[k] = lis[k]
      BY <1>8, <2>2 DEF TypeInv
    <3> QED BY <1>10, <3>1 DEF StampInv, WritesKnown
  <2> QED BY <2>1, <2>2
<1>11. WritesKnown'
  BY <1>1, <1>10 DEF WritesKnown
<1> QED BY <1>4, <1>11 DEF StampInv

LEMMA StampInvariance == Spec => []StampInv
<1>1. Init => StampInv
  <2> SUFFICES ASSUME Init PROVE StampInv
    OBVIOUS
  <2>1. \A r \in Copies : r = rec
    BY DEF Init, Copies
  <2>2. \A l \in Listeners : lis[l].pc # "write"
    BY NoRunType DEF Init
  <2> QED BY <2>1, <2>2 DEF StampInv, SameStacks, WritesKnown
<1>2. TypeInv /\ StampInv /\ [Next]_vars => StampInv'
  <2> SUFFICES ASSUME TypeInv, StampInv, [Next]_vars PROVE StampInv'
    OBVIOUS
  <2>1. CASE UNCHANGED vars
    <3>1. Copies' = Copies /\ lis' = lis
      BY <2>1 DEF vars, Copies
    <3> QED BY <3>1, FewerCopies
  <2>2. CASE Next
    BY <2>2, ReadsStamp, RequestsStamp, SaveRequestStamp, ListenersStamp, ReadStackStamp
       DEF Next
  <2> QED BY <2>1, <2>2
<1> QED BY <1>1, <1>2, TypeIsInvariant, PTL DEF Spec

\* Of a stack that a listener was not told of, its write takes no status back: the
\* condition on updateAt lets it through only over the stacks it has read.
THEOREM NothingTakenBack == Spec => []NoStatusTakenBack
<1>1. StampInv => NoStatusTakenBack
  BY CopiesNow DEF StampInv, WritesKnown, NoStatusTakenBack, Holds
<1> QED BY <1>1, StampInvariance, PTL

-----------------------------------------------------------------------------
(* The project is deleted after its stacks: an execution that succeeded is  *)
(* a deletion, and then nothing is left, or an update, and then the record  *)
(* has said so since before its end.                                        *)

\* Events not handled yet.
Pending == news \union {lis[l].event : l \in {k \in Listeners : lis[k].pc # "idle"}}
Ends(ev) == ev \in ExecEvents /\ ev.result = "SUCCEEDED"

AllDeleted == \A s \in Stacks : cfn[s] = "deleted"
AllSaved   == "save" \notin lost

\* A console's read meets no other write.
ReadsAlone ==
  get # Idle => /\ get.copy = rec /\ index = rec /\ req = Idle
                /\ \A l \in Listeners : lis[l].pc = "idle"

ShowsUpdate ==
  /\ rec.lastAction = "Update"
  /\ index.lastAction = "Update"
  /\ req.pc = "save" => req.copy.lastAction = "Update"

\* What the record says, or will say once the request has saved it.
WillShow == IF req.pc = "save" THEN req.copy.lastAction = "Update" ELSE rec.lastAction = "Update"

EventsTrue ==
  /\ \A ev \in Pending : ev \in ExecEvents => exec[ev.exec] # "none"
  /\ \A ev \in Pending : Ends(ev) =>
       /\ kind[ev.exec] = "Delete" => AllDeleted
       /\ kind[ev.exec] = "Update" /\ AllSaved => ShowsUpdate

UpdatesShown == AllSaved => \A e \in Execs : exec[e] = "RUNNING" /\ kind[e] = "Update" => WillShow

\* A listener that is to delete the project.
DeletionsTrue ==
  AllSaved => \A l \in Listeners :
    lis[l].pc # "idle" /\ Ends(lis[l].event) /\ lis[l].lastAction = "Delete" => AllDeleted

ProjectInv == ReadsAlone /\ EventsTrue /\ UpdatesShown /\ DeletionsTrue /\ DeletedOnlyWhenGone

\* What no step undoes.
LEMMA NothingUndone ==
  ASSUME TypeInv, Next
  PROVE  /\ AllDeleted => AllDeleted'
         /\ \A e \in Execs : exec[e] # "none" => exec'[e] # "none" /\ kind'[e] = kind[e]
         /\ AllSaved' => AllSaved
<1> DEFINE Goal == /\ AllDeleted => AllDeleted'
                   /\ \A e \in Execs : exec[e] # "none" => exec'[e] # "none" /\ kind'[e] = kind[e]
                   /\ AllSaved' => AllSaved
<1>1. ASSUME \/ Get \/ SaveGet \/ GetFails \/ CatchUp
             \/ OpenPage \/ LeavePage \/ SaveRequest \/ SaveFails
      PROVE  Goal
  <2>1. cfn' = cfn /\ exec' = exec /\ kind' = kind /\ lost \subseteq lost'
    BY <1>1 DEF Get, SaveGet, GetFails, CatchUp, OpenPage, LeavePage, SaveRequest, SaveFails
  <2> QED BY <2>1 DEF AllDeleted, AllSaved
<1>2. ASSUME NEW e \in Execs, Update(e) \/ UpdateApp(e) \/ Retry(e) \/ Delete(e)
      PROVE  Goal
  <2>1. cfn' = cfn /\ lost \subseteq lost'
    BY <1>2, MissLost DEF Update, UpdateApp, Retry, Delete
  <2>2. PICK action : StartExecution(e, action)
    BY <1>2 DEF Update, UpdateApp, Retry, Delete
  <2>3. \A d \in Execs : exec[d] # "none" => exec'[d] # "none" /\ kind'[d] = kind[d]
    BY <2>2 DEF StartExecution, TypeInv
  <2> QED BY <2>1, <2>3 DEF AllDeleted, AllSaved
<1>3. ASSUME NEW e \in Execs, ExecutionEnds(e) PROVE Goal
  <2>1. cfn' = cfn /\ lost' = lost /\ kind' = kind
    BY <1>3 DEF ExecutionEnds
  <2>2. \A d \in Execs : exec[d] # "none" => exec'[d] # "none"
    BY <1>3, StatusOf DEF ExecutionEnds, TypeInv
  <2> QED BY <2>1, <2>2 DEF AllDeleted, AllSaved
<1>4. ASSUME NEW s \in Stacks, StackStarts(s) \/ StackEnds(s) PROVE Goal
  <2>1. cfn[s] # "deleted" /\ exec' = exec /\ kind' = kind /\ lost' = lost
    BY <1>4 DEF StackStarts, StackEnds
  <2> QED BY <2>1 DEF AllDeleted, AllSaved
<1>5. ASSUME NEW l \in Listeners,
             \/ \E ev \in news : Describe(l, ev) \/ ReadPipeline(l, ev)
             \/ ReadStack(l) \/ WriteStack(l) \/ WriteStackRefused(l)
             \/ WriteState(l) \/ WriteStateRefused(l) \/ ReadAgain(l)
             \/ FetchAll(l) \/ WriteAll(l) \/ WriteAllRefused(l)
             \/ ListenerFails(l) \/ ListenerFindsNothing(l)
      PROVE  Goal
  <2>1. cfn' = cfn /\ exec' = exec /\ kind' = kind /\ lost \subseteq lost'
    BY <1>5, MissLost
       DEF Describe, ReadPipeline, ReadStack, WriteStack, WriteStackRefused, WriteState,
           WriteStateRefused, ReadAgain, FetchAll, WriteAll, WriteAllRefused,
           ListenerFails, ListenerFindsNothing, GiveUp
  <2> QED BY <2>1 DEF AllDeleted, AllSaved
<1>6. ASSUME NEW ev \in news, DropEvent(ev) PROVE Goal
  <2>1. cfn' = cfn /\ exec' = exec /\ kind' = kind /\ lost' = lost
    BY <1>6 DEF DropEvent
  <2> QED BY <2>1 DEF AllDeleted, AllSaved
<1> HIDE DEF Goal
<1>7. Goal
  BY <1>1, <1>2, <1>3, <1>4, <1>5, <1>6 DEF Next
<1> QED BY <1>7 DEF Goal

\* A listener that runs already keeps its event and what it knows of the record.
LEMMA ListenersKeep ==
  ASSUME TypeInv, NEW l \in Listeners,
         \/ ReadStack(l) \/ WriteStack(l) \/ WriteStackRefused(l)
         \/ WriteState(l) \/ WriteStateRefused(l) \/ ReadAgain(l)
         \/ FetchAll(l) \/ WriteAll(l) \/ WriteAllRefused(l)
         \/ ListenerFails(l) \/ ListenerFindsNothing(l)
  PROVE  /\ lis[l].pc # "idle"
         /\ \A k \in Listeners :
              \/ lis'[k].pc = "idle"
              \/ /\ lis[k].pc # "idle"
                 /\ lis'[k].event = lis[k].event
                 /\ lis[k].event \in ExecEvents => lis'[k].lastAction = lis[k].lastAction
<1> DEFINE Keeps(r) == \/ r.pc = "idle"
                       \/ /\ r.event = lis[l].event
                          /\ lis[l].event \in ExecEvents => r.lastAction = lis[l].lastAction
<1>0. NoRun.pc = "idle" /\ NoRun \in Runs /\ lis[l] \in Runs
  BY NoRunType, RunType
<1>1. lis[l].pc # "idle"
  BY DEF ReadStack, WriteStack, WriteStackRefused, WriteState, WriteStateRefused, ReadAgain,
         FetchAll, WriteAll, WriteAllRefused, ListenerFails, ListenerFindsNothing
<1>2. Keeps(NoRun)
  BY <1>0
<1> DEFINE Kept == \E r : Become(l, r) /\ Keeps(r)
<1>3. ASSUME ReadStack(l) PROVE Kept
  <2>1. PICK stacks : Become(l, [lis[l] EXCEPT !.pc = "write", !.at = index.updateAt,
                                               !.stacks = stacks])
    BY <1>3 DEF ReadStack
  <2>2. Keeps([lis[l] EXCEPT !.pc = "write", !.at = index.updateAt, !.stacks = stacks])
    BY <1>0 DEF Runs
  <2> HIDE DEF Keeps
  <2> QED BY <2>1, <2>2
<1>4. ASSUME WriteStack(l) \/ ListenerFails(l) \/ ListenerFindsNothing(l) \/ WriteAll(l) PROVE Kept
  <2> HIDE DEF Keeps
  <2> QED BY <1>2, <1>4 DEF WriteStack, ListenerFails, ListenerFindsNothing, WriteAll, Finish
<1>5. ASSUME WriteStackRefused(l) PROVE Kept
  <2> DEFINE again == [NoRun EXCEPT !.pc = "read", !.event = lis[l].event, !.seen = lis[l].seen,
                                    !.tries = lis[l].tries + 1]
  <2>1. lis[l].event \notin ExecEvents
    BY <1>5, RunType, EventTypes DEF WriteStackRefused, StackRuns
  <2>2. again.event = lis[l].event
    BY <1>0 DEF Runs
  <2>3. Keeps(again)
    BY <2>1, <2>2
  <2>4. Become(l, NoRun) \/ Become(l, again)
    BY <1>5 DEF WriteStackRefused
  <2> HIDE DEF Keeps, again
  <2> QED BY <1>2, <2>3, <2>4
<1>6. ASSUME lis[l].pc = "state" PROVE Keeps(AfterState(l))
  <2>1. [lis[l] EXCEPT !.pc = "fetch", !.tries = 0, !.at = lis[l].first].event = lis[l].event
    BY <1>0 DEF Runs
  <2>2. [lis[l] EXCEPT !.pc = "fetch", !.tries = 0, !.at = lis[l].first].lastAction
          = lis[l].lastAction
    BY <1>0 DEF Runs
  <2> QED BY <1>2, <2>1, <2>2 DEF AfterState
<1>7. ASSUME WriteState(l) PROVE Kept
  <2> HIDE DEF Keeps
  <2> QED BY <1>6, <1>7 DEF WriteState
<1>8. ASSUME WriteStateRefused(l) PROVE Kept
  <2>1. Keeps([lis[l] EXCEPT !.pc = "again", !.tries = @ + 1, !.at = NoTime])
    BY <1>0 DEF Runs
  <2>2. \/ Become(l, AfterState(l))
        \/ Become(l, [lis[l] EXCEPT !.pc = "again", !.tries = @ + 1, !.at = NoTime])
    BY <1>8 DEF WriteStateRefused
  <2>3. lis[l].pc = "state"
    BY <1>8 DEF WriteStateRefused
  <2> HIDE DEF Keeps
  <2> QED BY <1>6, <2>1, <2>2, <2>3
<1>9. ASSUME ReadAgain(l) PROVE Kept
  <2>1. Keeps([lis[l] EXCEPT !.pc = "state", !.at = index.updateAt])
    BY <1>0 DEF Runs
  <2> HIDE DEF Keeps
  <2> QED BY <1>9, <2>1 DEF ReadAgain
<1>10. ASSUME FetchAll(l) PROVE Kept
  <2>1. PICK at, stacks : Become(l, [lis[l] EXCEPT !.pc = "all", !.stacks = stacks,
                                                   !.first = NoTime, !.at = at])
    <3>1. \E missed :
            Become(l, [lis[l] EXCEPT !.pc = "all", !.stacks = Found(missed), !.first = NoTime,
                         !.at = IF lis[l].tries = 0 THEN lis[l].at ELSE index.updateAt])
      BY <1>0, <1>10 DEF FetchAll, Runs
    <3> QED BY <3>1
  <2>2. Keeps([lis[l] EXCEPT !.pc = "all", !.stacks = stacks, !.first = NoTime, !.at = at])
    BY <1>0 DEF Runs
  <2> HIDE DEF Keeps
  <2> QED BY <2>1, <2>2
<1>11. ASSUME WriteAllRefused(l) PROVE Kept
  <2>1. PICK stacks : stacks = NoRun.stacks
    OBVIOUS
  <2>2. \/ Become(l, NoRun)
        \/ Become(l, [lis[l] EXCEPT !.pc = "fetch", !.tries = @ + 1, !.at = NoTime,
                                    !.stacks = stacks])
    BY <1>11, <2>1, Zenon DEF WriteAllRefused, Finish
  <2>3. Keeps([lis[l] EXCEPT !.pc = "fetch", !.tries = @ + 1, !.at = NoTime, !.stacks = stacks])
    BY <1>0 DEF Runs
  <2> HIDE DEF Keeps
  <2> QED BY <1>2, <2>2, <2>3
<1>12. PICK r : Become(l, r) /\ Keeps(r)
  <2> HIDE DEF Keeps
  <2> QED BY <1>3, <1>4, <1>5, <1>7, <1>8, <1>9, <1>10, <1>11
<1> QED BY <1>1, <1>12 DEF Become, TypeInv

\* Which events are pending after a listener's step.
LEMMA ListenersPending ==
  ASSUME TypeInv, NEW l \in Listeners,
         \/ \E ev \in news : Describe(l, ev) \/ ReadPipeline(l, ev)
         \/ ReadStack(l) \/ WriteStack(l) \/ WriteStackRefused(l)
         \/ WriteState(l) \/ WriteStateRefused(l) \/ ReadAgain(l)
         \/ FetchAll(l) \/ WriteAll(l) \/ WriteAllRefused(l)
         \/ ListenerFails(l) \/ ListenerFindsNothing(l)
  PROVE  Pending' \subseteq Pending
<1>1. ASSUME NEW ev \in news, Describe(l, ev) \/ ReadPipeline(l, ev)
      PROVE  Pending' \subseteq Pending
  <2>1. \E r : Become(l, r) /\ r.event = ev
    <3>1. NoRun \in Runs
      BY NoRunType
    <3>2. CASE Describe(l, ev)
      <4>1. [NoRun EXCEPT !.pc = "read", !.event = ev, !.seen = cfn[ev.stack]].event = ev
        BY <3>1 DEF Runs
      <4> QED BY <3>2, <4>1 DEF Describe
    <3>3. CASE ReadPipeline(l, ev)
      <4> DEFINE run == [NoRun EXCEPT !.pc = "state", !.event = ev, !.at = index.updateAt]
                 ends == [run EXCEPT !.first = index.updateAt, !.lastAction = index.lastAction]
      <4>1. run.event = ev /\ ends.event = ev
        BY <3>1 DEF Runs
      <4>2. Become(l, IF ev.result = "RUNNING" THEN run ELSE ends)
        BY <3>3 DEF ReadPipeline
      <4> HIDE DEF run, ends
      <4> QED BY <4>1, <4>2
    <3> QED BY <1>1, <3>2, <3>3
  <2>2. news' \subseteq news
    BY <1>1 DEF Describe, ReadPipeline
  <2>3. \A k \in Listeners : lis'[k] = lis[k] \/ lis'[k].event = ev
    BY <2>1 DEF Become, TypeInv
  <2> QED BY <2>2, <2>3 DEF Pending
<1>2. CASE \/ ReadStack(l) \/ WriteStack(l) \/ WriteStackRefused(l)
           \/ WriteState(l) \/ WriteStateRefused(l) \/ ReadAgain(l)
           \/ FetchAll(l) \/ WriteAll(l) \/ WriteAllRefused(l)
           \/ ListenerFails(l) \/ ListenerFindsNothing(l)
  <2>1. news' \subseteq news \union {lis[l].event}
    BY <1>2 DEF ReadStack, WriteStack, WriteStackRefused, WriteState, WriteStateRefused,
                ReadAgain, FetchAll, WriteAll, WriteAllRefused, ListenerFails,
                ListenerFindsNothing
  <2>2. /\ lis[l].pc # "idle"
        /\ \A k \in Listeners : \/ lis'[k].pc = "idle"
                                \/ lis[k].pc # "idle" /\ lis'[k].event = lis[k].event
    BY <1>2, ListenersKeep
  <2> QED BY <2>1, <2>2 DEF Pending
<1> QED BY <1>1, <1>2

LEMMA ReadsAloneStep ==
  ASSUME ~RacingReads, TypeInv, ReadsAlone, Next PROVE ReadsAlone'
<1>1. CASE Get
  <2>1. /\ index = rec /\ req = Idle /\ \A l \in Listeners : lis[l] = NoRun
        /\ get' = [pc |-> "save", copy |-> index]
        /\ UNCHANGED <<rec, index, req, lis>>
    BY <1>1 DEF Get
  <2>2. get'.copy = rec
    BY <2>1
  <2> QED BY <2>1, <2>2, NoRunType DEF ReadsAlone
<1>2. CASE SaveGet \/ GetFails
  BY <1>2 DEF SaveGet, GetFails, ReadsAlone
<1>3. CASE \/ OpenPage \/ SaveRequest
           \/ \E e \in Execs : Update(e) \/ UpdateApp(e) \/ Retry(e) \/ Delete(e) \/ ExecutionEnds(e)
           \/ \E s \in Stacks : StackStarts(s) \/ StackEnds(s)
           \/ \E l \in Listeners, ev \in news : Describe(l, ev) \/ ReadPipeline(l, ev)
  <2>1. get = Idle /\ get' = get
    BY <1>3 DEF OpenPage, SaveRequest, Update, UpdateApp, Retry, Delete, ExecutionEnds,
                StackStarts, StackEnds, Describe, ReadPipeline, NoRead
  <2> QED BY <2>1 DEF ReadsAlone
<1>4. ASSUME NEW l \in Listeners,
             \/ ReadStack(l) \/ WriteStack(l) \/ WriteStackRefused(l)
             \/ WriteState(l) \/ WriteStateRefused(l) \/ ReadAgain(l)
             \/ FetchAll(l) \/ WriteAll(l) \/ WriteAllRefused(l)
             \/ ListenerFails(l) \/ ListenerFindsNothing(l)
      PROVE  ReadsAlone'
  <2>1. lis[l].pc # "idle"
    BY <1>4, ListenersKeep
  <2>2. get' = get
    BY <1>4 DEF ReadStack, WriteStack, WriteStackRefused, WriteState, WriteStateRefused,
                ReadAgain, FetchAll, WriteAll, WriteAllRefused, ListenerFails,
                ListenerFindsNothing
  <2> QED BY <2>1, <2>2 DEF ReadsAlone
<1>5. CASE CatchUp \/ LeavePage \/ SaveFails
  <2>1. get' = get /\ (index # rec \/ req.pc \in {"page", "save"})
    BY <1>5 DEF CatchUp, LeavePage, SaveFails
  <2>2. Idle.pc = "idle"
    BY DEF Idle
  <2> QED BY <2>1, <2>2 DEF ReadsAlone
<1>6. ASSUME NEW ev \in news, DropEvent(ev) PROVE ReadsAlone'
  BY <1>6 DEF DropEvent, ReadsAlone
<1> QED BY <1>1, <1>2, <1>3, <1>4, <1>5, <1>6 DEF Next

\* A save of a request makes a record whose last action is the request's.
LEMMA SaveShows ==
  ASSUME NEW r \in Records, NEW e, NEW name, Save(r, e, name)
  PROVE  req'.pc = "save" /\ req'.copy.lastAction = r.lastAction
BY DEF Save, Records

LEMMA RequestShows ==
  ASSUME TypeInv, NEW e \in Execs, Update(e) \/ UpdateApp(e) \/ Retry(e)
  PROVE  req'.pc = "save" /\ req'.copy.lastAction = "Update"
<1>0. rec \in Records /\ index \in Records
  BY DEF TypeInv, Stamped
<1>1. CASE Update(e)
  <2>1. req.copy \in Records
    BY <1>1 DEF Update, TypeInv, Idle, Pages, Saves, Stamped
  <2>2. /\ [req.copy EXCEPT !.lastAction = "Update"] \in Records
        /\ [req.copy EXCEPT !.lastAction = "Update"].lastAction = "Update"
    BY <2>1 DEF Records, Actions
  <2> QED BY <1>1, <2>2, SaveShows DEF Update
<1>2. CASE UpdateApp(e)
  <2>1. /\ [index EXCEPT !.lastAction = "Update"] \in Records
        /\ [index EXCEPT !.lastAction = "Update"].lastAction = "Update"
    BY <1>0 DEF Records, Actions
  <2> QED BY <1>2, <2>1, SaveShows DEF UpdateApp
<1>3. CASE Retry(e)
  BY <1>0, <1>3, SaveShows DEF Retry
<1> QED BY <1>1, <1>2, <1>3

\* The last action changes only with a deletion, once an update is shown.
LEMMA ShownStays ==
  ASSUME ~RacingReads, TypeInv, ReadsAlone, Next, \A e \in Execs : ~Delete(e)
  PROVE  /\ ShowsUpdate => ShowsUpdate'
         /\ WillShow /\ AllSaved' => WillShow'
<1> DEFINE Goal == /\ ShowsUpdate => ShowsUpdate'
                   /\ WillShow /\ AllSaved' => WillShow'
<1>0. rec \in Records /\ index \in Records /\ Idle.pc = "idle"
  BY DEF TypeInv, Stamped, Idle
<1>1. ASSUME Get \/ GetFails \/ CatchUp PROVE Goal
  BY <1>1 DEF Get, GetFails, CatchUp, ShowsUpdate, WillShow
<1>2. ASSUME SaveGet PROVE Goal
  BY <1>2 DEF SaveGet, Put, ReadsAlone, ShowsUpdate, WillShow
<1>3. ASSUME OpenPage \/ LeavePage PROVE Goal
  BY <1>0, <1>3 DEF OpenPage, LeavePage, ShowsUpdate, WillShow
<1>4. ASSUME SaveFails PROVE Goal
  BY <1>0, <1>4 DEF SaveFails, ShowsUpdate, WillShow, AllSaved
<1>5. ASSUME SaveRequest PROVE Goal
  <2>1. req.pc = "save" /\ req' = Idle
    BY <1>5 DEF SaveRequest
  <2>2. req.copy \in Records
    BY <1>0, <2>1 DEF TypeInv, Pages, Saves, Stamped
  <2>3. rec'.lastAction = req.copy.lastAction
    BY <1>5, <2>2 DEF SaveRequest, Records
  <2>4. index'.lastAction = rec.lastAction
    BY <1>0, <1>5 DEF SaveRequest, Records
  <2> QED BY <1>0, <2>1, <2>3, <2>4 DEF ShowsUpdate, WillShow
<1>6. ASSUME NEW e \in Execs, Update(e) \/ UpdateApp(e) \/ Retry(e) PROVE Goal
  <2>1. rec' = rec /\ index' = index
    BY <1>6 DEF Update, UpdateApp, Retry
  <2>2. req'.pc = "save" /\ req'.copy.lastAction = "Update"
    BY <1>6, RequestShows
  <2> QED BY <2>1, <2>2 DEF ShowsUpdate, WillShow
<1>7. ASSUME \/ \E e \in Execs : ExecutionEnds(e)
             \/ \E s \in Stacks : StackStarts(s) \/ StackEnds(s)
             \/ \E ev \in news : DropEvent(ev)
      PROVE  Goal
  BY <1>7 DEF ExecutionEnds, StackStarts, StackEnds, DropEvent, ShowsUpdate, WillShow
<1>8. ASSUME NEW l \in Listeners,
             \/ \E ev \in news : Describe(l, ev) \/ ReadPipeline(l, ev)
             \/ ReadStack(l) \/ WriteStack(l) \/ WriteStackRefused(l)
             \/ WriteState(l) \/ WriteStateRefused(l) \/ ReadAgain(l)
             \/ FetchAll(l) \/ WriteAll(l) \/ WriteAllRefused(l)
             \/ ListenerFails(l) \/ ListenerFindsNothing(l)
      PROVE  Goal
  <2>1. req' = req
    BY <1>8 DEF Describe, ReadPipeline, ReadStack, WriteStack, WriteStackRefused, WriteState,
                WriteStateRefused, ReadAgain, FetchAll, WriteAll, WriteAllRefused,
                ListenerFails, ListenerFindsNothing
  <2>2. CASE WriteStack(l) \/ WriteState(l) \/ WriteAll(l)
    <3>1. rec'.lastAction = rec.lastAction /\ index' = rec
      BY <1>0, <2>2 DEF WriteStack, WriteState, WriteAll, Put, Records
    <3> QED BY <2>1, <3>1 DEF ShowsUpdate, WillShow
  <2>3. CASE ~(WriteStack(l) \/ WriteState(l) \/ WriteAll(l))
    <3>1. rec' = rec /\ index' = index
      BY <1>8, <2>3 DEF Describe, ReadPipeline, ReadStack, WriteStackRefused,
                WriteStateRefused, ReadAgain, FetchAll, WriteAllRefused,
                ListenerFails, ListenerFindsNothing
    <3> QED BY <2>1, <3>1 DEF ShowsUpdate, WillShow
  <2> QED BY <2>2, <2>3
<1> HIDE DEF Goal
<1>9. Goal
  BY <1>1, <1>2, <1>3, <1>4, <1>5, <1>6, <1>7, <1>8 DEF Next
<1> QED BY <1>9 DEF Goal

\* A deletion starts when no execution runs and no end of one is pending.
LEMMA DeleteStarts ==
  ASSUME TypeInv, NEW e \in Execs, Delete(e)
  PROVE  /\ \A d \in Execs : exec[d] # "RUNNING"
         /\ \A d \in Execs : exec'[d] = "RUNNING" => kind'[d] = "Delete"
         /\ \A ev \in Pending' : ~Ends(ev) /\ (ev \in ExecEvents => exec'[ev.exec] # "none")
         /\ lis' = lis /\ \A l \in Listeners : lis[l].pc = "idle"
<1>1. /\ StartExecution(e, "Delete") /\ lis' = lis
      /\ \A d \in Execs : exec[d] # "RUNNING"
      /\ \A ev \in news : ev.of = "stack"
      /\ \A l \in Listeners : lis[l].pc = "idle"
  BY NoRunType DEF Delete, Running
<1>2. exec' = [exec EXCEPT ![e] = "RUNNING"] /\ kind' = [kind EXCEPT ![e] = "Delete"]
  BY <1>1 DEF StartExecution
<1>3. \A d \in Execs : exec'[d] = "RUNNING" => kind'[d] = "Delete"
  BY <1>1, <1>2 DEF TypeInv
<1>4. ASSUME NEW ev \in Pending'
      PROVE  ~Ends(ev) /\ (ev \in ExecEvents => exec'[ev.exec] # "none")
  <2>1. ev \in news' 
    BY <1>1 DEF Pending
  <2>2. \/ ev \in news
        \/ ev = [of |-> "exec", exec |-> e, result |-> "RUNNING"]
    BY <1>1, <2>1 DEF StartExecution
  <2>3. CASE ev \in news
    BY <1>1, <2>3, EventTypes DEF Ends
  <2>4. CASE ev = [of |-> "exec", exec |-> e, result |-> "RUNNING"]
    BY <1>2, <2>4 DEF Ends, TypeInv
  <2> QED BY <2>2, <2>3, <2>4
<1> QED BY <1>1, <1>3, <1>4

\* Which events a step adds.
LEMMA EventsAdded ==
  ASSUME TypeInv, Next, \A e \in Execs : ~Delete(e), \A e \in Execs : ~ExecutionEnds(e)
  PROVE  \A ev \in Pending' :
           ev \in Pending \/ (~Ends(ev) /\ (ev \in ExecEvents => exec'[ev.exec] # "none"))
<1> DEFINE Goal == \A ev \in Pending' :
           ev \in Pending \/ (~Ends(ev) /\ (ev \in ExecEvents => exec'[ev.exec] # "none"))
<1>1. ASSUME \/ Get \/ SaveGet \/ GetFails \/ CatchUp
             \/ OpenPage \/ LeavePage \/ SaveRequest \/ SaveFails
             \/ \E ev \in news : DropEvent(ev)
      PROVE  Goal
  <2>1. news' \subseteq news /\ lis' = lis
    BY <1>1 DEF Get, SaveGet, GetFails, CatchUp, OpenPage, LeavePage, SaveRequest, SaveFails,
                DropEvent
  <2> QED BY <2>1 DEF Pending
<1>2. ASSUME NEW e \in Execs, Update(e) \/ UpdateApp(e) \/ Retry(e) PROVE Goal
  <2>1. lis' = lis /\ StartExecution(e, "Update")
    BY <1>2 DEF Update, UpdateApp, Retry
  <2>2. \A ev \in Pending' : ev \in Pending \/ ev = [of |-> "exec", exec |-> e, result |-> "RUNNING"]
    BY <2>1 DEF Pending, StartExecution
  <2>3. exec'[e] = "RUNNING"
    BY <2>1 DEF StartExecution, TypeInv
  <2> QED BY <2>2, <2>3 DEF Ends
<1>3. ASSUME NEW s \in Stacks, StackStarts(s) \/ StackEnds(s) PROVE Goal
  <2>1. \A ev \in Pending' : ev \in Pending \/ ev = [of |-> "stack", stack |-> s]
    BY <1>3 DEF Pending, StackStarts, StackEnds
  <2> QED BY <2>1, EventTypes DEF Ends
<1>4. ASSUME NEW l \in Listeners,
             \/ \E ev \in news : Describe(l, ev) \/ ReadPipeline(l, ev)
             \/ ReadStack(l) \/ WriteStack(l) \/ WriteStackRefused(l)
             \/ WriteState(l) \/ WriteStateRefused(l) \/ ReadAgain(l)
             \/ FetchAll(l) \/ WriteAll(l) \/ WriteAllRefused(l)
             \/ ListenerFails(l) \/ ListenerFindsNothing(l)
      PROVE  Goal
  BY <1>4, ListenersPending
<1> HIDE DEF Goal
<1>5. Goal
  BY <1>1, <1>2, <1>3, <1>4 DEF Next
<1> QED BY <1>5 DEF Goal

\* An end of an execution is told with what the record shows of it by then.
LEMMA EndIsTrue ==
  ASSUME TypeInv, EventsTrue, UpdatesShown, NEW e \in Execs, ExecutionEnds(e)
  PROVE  EventsTrue'
<1> DEFINE end == [of |-> "exec", exec |-> e, result |-> Result]
<1>1. /\ exec' = [exec EXCEPT ![e] = Result] /\ news' = news \union {end}
      /\ UNCHANGED <<rec, index, kind, cfn, lis, req, lost>>
      /\ req.pc # "save" /\ index = rec
      /\ exec[e] = "RUNNING"
      /\ kind[e] = "Delete" => \A s \in Stacks : cfn[s] \in {"failed", "deleted"}
  BY DEF ExecutionEnds, Minutes, Seconds
<1>2. (AllDeleted' <=> AllDeleted) /\ (AllSaved' <=> AllSaved) /\ (ShowsUpdate' <=> ShowsUpdate)
  BY <1>1 DEF AllDeleted, AllSaved, ShowsUpdate
<1>3. Result \in {"SUCCEEDED", "FAILED"}
  BY StatusOf
<1>4. \A d \in Execs : exec[d] # "none" => exec'[d] # "none"
  BY <1>1, <1>3 DEF TypeInv
<1>5. kind[e] = "Delete" /\ Result = "SUCCEEDED" => AllDeleted
  BY <1>1 DEF Result, AllDeleted
<1>6. kind[e] = "Update" /\ AllSaved => ShowsUpdate
  BY <1>1 DEF UpdatesShown, WillShow, ShowsUpdate
<1> HIDE DEF end
<1>7. \A ev \in Pending' : ev \in Pending \/ ev = end
  BY <1>1 DEF Pending
<1>8. end.exec = e /\ end.result = Result
  BY DEF end
<1>9. \A ev \in Pending : ev \in ExecEvents => ev.exec \in Execs
  BY EventTypes
<1>10. \A ev \in Pending' : ev \in ExecEvents => exec'[ev.exec] # "none"
  <2>1. exec'[e] # "none"
    BY <1>1, <1>3 DEF TypeInv
  <2> QED BY <1>4, <1>7, <1>8, <1>9, <2>1 DEF EventsTrue
<1>11. ASSUME NEW ev \in Pending', Ends(ev)
       PROVE  /\ kind'[ev.exec] = "Delete" => AllDeleted'
              /\ kind'[ev.exec] = "Update" /\ AllSaved' => ShowsUpdate'
  <2>1. CASE ev \in Pending
    BY <1>1, <1>2, <1>11, <2>1 DEF EventsTrue
  <2>2. CASE ev = end
    BY <1>1, <1>2, <1>5, <1>6, <1>8, <1>11, <2>2 DEF Ends
  <2> QED BY <1>7, <2>1, <2>2
<1> QED BY <1>10, <1>11 DEF EventsTrue

LEMMA EventsTrueStep ==
  ASSUME ~RacingReads, TypeInv, ReadsAlone, EventsTrue, UpdatesShown, Next
  PROVE  EventsTrue'
<1>1. CASE \E e \in Execs : Delete(e)
  BY <1>1, DeleteStarts DEF EventsTrue
<1>2. CASE \E e \in Execs : ExecutionEnds(e)
  BY <1>2, EndIsTrue
<1>3. CASE (\A e \in Execs : ~Delete(e)) /\ (\A e \in Execs : ~ExecutionEnds(e))
  <2>1. /\ AllDeleted => AllDeleted'
        /\ \A e \in Execs : exec[e] # "none" => exec'[e] # "none" /\ kind'[e] = kind[e]
        /\ AllSaved' => AllSaved
    BY NothingUndone
  <2>2. ShowsUpdate => ShowsUpdate'
    BY <1>3, ShownStays
  <2>3. \A ev \in Pending' :
           ev \in Pending \/ (~Ends(ev) /\ (ev \in ExecEvents => exec'[ev.exec] # "none"))
    BY <1>3, EventsAdded
  <2>4. \A ev \in ExecEvents : ev.exec \in Execs
    BY EventTypes
  <2>5. ASSUME NEW ev \in Pending', ev \in ExecEvents PROVE exec'[ev.exec] # "none"
    BY <2>1, <2>3, <2>4, <2>5 DEF EventsTrue
  <2>6. ASSUME NEW ev \in Pending', Ends(ev)
        PROVE  /\ kind'[ev.exec] = "Delete" => AllDeleted'
               /\ kind'[ev.exec] = "Update" /\ AllSaved' => ShowsUpdate'
    <3>1. ev \in Pending /\ ev \in ExecEvents
      BY <2>3, <2>6 DEF Ends
    <3>2. kind'[ev.exec] = kind[ev.exec]
      BY <2>1, <2>4, <3>1 DEF EventsTrue
    <3> QED BY <2>1, <2>2, <2>6, <3>1, <3>2 DEF EventsTrue
  <2> QED BY <2>5, <2>6 DEF EventsTrue
<1> QED BY <1>1, <1>2, <1>3

LEMMA UpdatesShownStep ==
  ASSUME ~RacingReads, TypeInv, ReadsAlone, UpdatesShown, Next
  PROVE  UpdatesShown'
<1>1. CASE \E e \in Execs : Delete(e)
  BY <1>1, DeleteStarts DEF UpdatesShown
<1>2. CASE \E e \in Execs : Update(e) \/ UpdateApp(e) \/ Retry(e)
  BY <1>2, RequestShows DEF UpdatesShown, WillShow
<1>3. CASE \A e \in Execs : ~Delete(e) /\ ~Update(e) /\ ~UpdateApp(e) /\ ~Retry(e)
  <2>1. ASSUME NEW e \in Execs, exec'[e] = "RUNNING" PROVE exec[e] = "RUNNING"
    <3>1. CASE \E d \in Execs : ExecutionEnds(d)
      BY <2>1, <3>1, StatusOf DEF ExecutionEnds, TypeInv
    <3>2. CASE \A d \in Execs : ~ExecutionEnds(d)
      <4>1. exec' = exec
        BY <1>3, <3>2 DEF Next, Get, SaveGet, GetFails, CatchUp, OpenPage, LeavePage,
           SaveRequest, SaveFails, StackStarts, StackEnds, Describe, ReadPipeline, ReadStack,
           WriteStack, WriteStackRefused, WriteState, WriteStateRefused, ReadAgain, FetchAll,
           WriteAll, WriteAllRefused, ListenerFails, ListenerFindsNothing, DropEvent
      <4> QED BY <2>1, <4>1
    <3> QED BY <3>1, <3>2
  <2>2. /\ \A e \in Execs : exec[e] # "none" => kind'[e] = kind[e]
        /\ AllSaved' => AllSaved
    BY NothingUndone
  <2>3. WillShow /\ AllSaved' => WillShow'
    BY <1>3, ShownStays
  <2> QED BY <2>1, <2>2, <2>3 DEF UpdatesShown
<1> QED BY <1>1, <1>2, <1>3

LEMMA DeletionsTrueStep ==
  ASSUME TypeInv, EventsTrue, DeletionsTrue, Next
  PROVE  DeletionsTrue'
<1>0. (AllDeleted => AllDeleted') /\ (AllSaved' => AllSaved)
  BY NothingUndone
<1>1. CASE \/ Get \/ SaveGet \/ GetFails \/ CatchUp
           \/ OpenPage \/ LeavePage \/ SaveRequest \/ SaveFails
           \/ \E e \in Execs : Update(e) \/ UpdateApp(e) \/ Retry(e) \/ Delete(e) \/ ExecutionEnds(e)
           \/ \E s \in Stacks : StackStarts(s) \/ StackEnds(s)
           \/ \E ev \in news : DropEvent(ev)
  <2>1. lis' = lis
    BY <1>1 DEF Get, SaveGet, GetFails, CatchUp, OpenPage, LeavePage, SaveRequest, SaveFails,
       Update, UpdateApp, Retry, Delete, ExecutionEnds, StackStarts, StackEnds, DropEvent
  <2> QED BY <1>0, <2>1 DEF DeletionsTrue
<1>2. ASSUME NEW l \in Listeners,
             \/ ReadStack(l) \/ WriteStack(l) \/ WriteStackRefused(l)
             \/ WriteState(l) \/ WriteStateRefused(l) \/ ReadAgain(l)
             \/ FetchAll(l) \/ WriteAll(l) \/ WriteAllRefused(l)
             \/ ListenerFails(l) \/ ListenerFindsNothing(l)
      PROVE  DeletionsTrue'
  <2>1. \A k \in Listeners :
          \/ lis'[k].pc = "idle"
          \/ /\ lis[k].pc # "idle"
             /\ lis'[k].event = lis[k].event
             /\ lis[k].event \in ExecEvents => lis'[k].lastAction = lis[k].lastAction
    BY <1>2, ListenersKeep
  <2> QED BY <1>0, <2>1 DEF DeletionsTrue, Ends
<1>3. ASSUME NEW l \in Listeners, NEW ev \in news, Describe(l, ev)
      PROVE  DeletionsTrue'
  <2>1. NoRun \in Runs
    BY NoRunType
  <2>2. [NoRun EXCEPT !.pc = "read", !.event = ev, !.seen = cfn[ev.stack]].event = ev
    BY <2>1 DEF Runs
  <2>3. ev.of = "stack"
    BY <1>3 DEF Describe
  <2>4. \A k \in Listeners : lis'[k] = lis[k] \/ lis'[k].event = ev
    BY <1>3, <2>2 DEF Describe, Become, TypeInv
  <2> QED BY <1>0, <2>3, <2>4, EventTypes DEF DeletionsTrue, Ends
<1>4. ASSUME NEW l \in Listeners, NEW ev \in news, ReadPipeline(l, ev)
      PROVE  DeletionsTrue'
  <2> DEFINE run == [NoRun EXCEPT !.pc = "state", !.event = ev, !.at = index.updateAt]
             ends == [run EXCEPT !.first = index.updateAt, !.lastAction = index.lastAction]
  <2>1. NoRun \in Runs
    BY NoRunType
  <2>2. run.event = ev /\ ends.event = ev /\ ends.lastAction = index.lastAction
    BY <2>1 DEF Runs
  <2>3. Become(l, IF ev.result = "RUNNING" THEN run ELSE ends)
    BY <1>4 DEF ReadPipeline
  <2> HIDE DEF run, ends
  <2>4. \A k \in Listeners :
          \/ lis'[k] = lis[k]
          \/ lis'[k].event = ev /\ (ev.result = "RUNNING" \/ lis'[k].lastAction = index.lastAction)
    BY <2>2, <2>3 DEF Become, TypeInv
  <2>5. Ends(ev) /\ AllSaved /\ index.lastAction = "Delete" => AllDeleted
    <3>1. ev \in Pending
      BY DEF Pending
    <3>2. Ends(ev) => kind[ev.exec] \in {"Update", "Delete"}
      BY EventTypes DEF Ends, TypeInv, Actions
    <3> QED BY <3>1, <3>2 DEF EventsTrue, ShowsUpdate
  <2> QED BY <1>0, <2>4, <2>5 DEF DeletionsTrue, Ends
<1> QED BY <1>1, <1>2, <1>3, <1>4 DEF Next

LEMMA ProjectStep ==
  ASSUME TypeInv, DeletionsTrue, DeletedOnlyWhenGone, Next
  PROVE  DeletedOnlyWhenGone'
<1>0. (AllDeleted => AllDeleted') /\ (AllSaved' => AllSaved)
  BY NothingUndone
<1>1. DeletedOnlyWhenGone <=> (gone /\ AllSaved => AllDeleted)
  BY DEF DeletedOnlyWhenGone, AllSaved, AllDeleted
<1>2. DeletedOnlyWhenGone' <=> (gone' /\ AllSaved' => AllDeleted')
  BY DEF DeletedOnlyWhenGone, AllSaved, AllDeleted
<1>3. CASE gone' = gone
  BY <1>0, <1>1, <1>2, <1>3
<1>4. ASSUME NEW l \in Listeners, lis[l].pc = "all", Finish(l)
      PROVE  gone' /\ AllSaved' => AllDeleted'
  <2>1. lis[l].event \in ExecEvents
    BY <1>4, ExecRunType
  <2>2. gone' => gone \/ (Ends(lis[l].event) /\ lis[l].lastAction = "Delete")
    BY <1>4, <2>1 DEF Finish, Ends
  <2> QED BY <1>0, <1>1, <1>4, <2>2 DEF DeletionsTrue
<1>5. gone' = gone \/ \E l \in Listeners : lis[l].pc = "all" /\ Finish(l)
  BY DEF Next, Get, SaveGet, GetFails, CatchUp, OpenPage, LeavePage, SaveRequest, SaveFails,
     Update, UpdateApp, Retry, Delete, ExecutionEnds, StackStarts, StackEnds, Describe,
     ReadPipeline, ReadStack, WriteStack, WriteStackRefused, WriteState, WriteStateRefused,
     ReadAgain, FetchAll, WriteAll, WriteAllRefused, ListenerFails, ListenerFindsNothing,
     DropEvent
<1> QED BY <1>2, <1>3, <1>4, <1>5

LEMMA ProjectInvariance ==
  ASSUME ~RacingReads PROVE Spec => []ProjectInv
<1>1. Init => ProjectInv
  <2> SUFFICES ASSUME Init PROVE ProjectInv
    OBVIOUS
  <2>1. /\ exec[0] = Result /\ kind = [e \in Execs |-> "Update"]
        /\ rec.lastAction = "Update" /\ index = rec /\ req = Idle /\ get = Idle
        /\ lis = [l \in Listeners |-> NoRun] /\ gone = FALSE
        /\ news = {[of |-> "exec", exec |-> 0, result |-> Result]}
        /\ \A e \in Execs : exec[e] # "RUNNING"
    BY RecordAssumption DEF Init, Execs, Result
  <2>2. \A l \in Listeners : lis[l].pc = "idle"
    BY <2>1, NoRunType
  <2>3. Pending = {[of |-> "exec", exec |-> 0, result |-> Result]}
    BY <2>1, <2>2 DEF Pending
  <2>4. ShowsUpdate
    BY <2>1 DEF ShowsUpdate, Idle
  <2>5. Result # "none" /\ 0 \in Execs
    BY RecordAssumption DEF Result, Execs
  <2>6. EventsTrue
    BY <2>1, <2>3, <2>4, <2>5 DEF EventsTrue
  <2> QED BY <2>1, <2>2, <2>6
          DEF ProjectInv, ReadsAlone, UpdatesShown, DeletionsTrue, DeletedOnlyWhenGone
<1>2. TypeInv /\ ProjectInv /\ [Next]_vars => ProjectInv'
  <2> SUFFICES ASSUME TypeInv, ProjectInv, [Next]_vars PROVE ProjectInv'
    OBVIOUS
  <2>1. CASE UNCHANGED vars
    BY <2>1 DEF vars, ProjectInv, ReadsAlone, EventsTrue, UpdatesShown, DeletionsTrue,
       DeletedOnlyWhenGone, Pending, AllDeleted, AllSaved, ShowsUpdate, WillShow
  <2>2. CASE Next
    BY <2>2, ReadsAloneStep, EventsTrueStep, UpdatesShownStep, DeletionsTrueStep, ProjectStep
       DEF ProjectInv
  <2> QED BY <2>1, <2>2
<1> QED BY <1>1, <1>2, TypeIsInvariant, PTL DEF Spec

\* When the console's reads meet no other write, the project and the rule for its
\* stacks' events are deleted only after all of its stacks, unless the save of a
\* request was lost.
THEOREM ProjectOutlivesStacks ==
  ASSUME ~RacingReads PROVE Spec => []DeletedOnlyWhenGone
<1>1. ProjectInv => DeletedOnlyWhenGone
  BY DEF ProjectInv
<1> QED BY <1>1, ProjectInvariance, PTL

-----------------------------------------------------------------------------
(* The record settles.  Between executions nothing changes the stacks, what  *)
(* a listener holds of them is how they are, and the listener told of the    *)
(* last end writes them all: whatever the record shows that is not so is     *)
(* owed by an end of an execution that is still to be handled.               *)

EndEvent(ev) == ev \in ExecEvents /\ ev.result # "RUNNING"
NoneRuns == \A e \in Execs : exec[e] # "RUNNING"
AllKept  == "write" \notin lost

\* No event of an execution is older than the execution's status.
EventsCurrent == \A ev \in Pending : ev \in ExecEvents => exec[ev.exec] = ev.result

\* An execution cannot end before its request is saved.
SavesRun == req.pc = "save" => /\ req.copy.exec \in Execs /\ exec[req.copy.exec] = "RUNNING"
                               /\ req.copy.result = "RUNNING"

NoneBusy == NoneRuns => \A s \in Stacks : cfn[s] # "busy"

\* What is so of the stacks but for those that were not found, of which some may be
\* there when calls were lost.
Near(stacks, missing) ==
  \A s \in Stacks : stacks[s] # cfn[s] =>
    stacks[s] = "unknown" /\ (cfn[s] = "deleted" \/ "describe" \in missing)

\* What the listeners hold between executions.
SeenCurrent ==
  /\ NoneRuns => \A l \in Listeners :
       /\ lis[l].pc \in {"read", "write"} => lis[l].seen = cfn[lis[l].event.stack]
       /\ lis[l].pc = "all" => Near(lis[l].stacks, lost)
  /\ \A l \in Listeners : lis[l].pc = "write" => lis[l].stacks[lis[l].event.stack] = lis[l].seen

\* The end of an execution is still to be written.
Unwritten == \/ \E ev \in news : EndEvent(ev)
             \/ \E l \in Listeners : lis[l].pc \in {"state", "again"} /\ EndEvent(lis[l].event)

ResultShown ==
  /\ exec[rec.exec] # "none"
  /\ AllKept /\ ~gone => rec.result = exec[rec.exec] \/ Unwritten

Shown == Near(rec.stacks, lost)
Owed  == \E ev \in Pending : EndEvent(ev)

StacksShown == NoneRuns /\ AllKept /\ ~gone => Shown \/ Owed

OutsideInv == EventsCurrent /\ SavesRun /\ NoneBusy
SettleInv  == SeenCurrent /\ ResultShown /\ StacksShown

\* Executions start and end; nothing else changes their status.
LEMMA ExecSteps ==
  ASSUME TypeInv, Next
  PROVE  \/ exec' = exec
         \/ \E e \in Execs : /\ Update(e) \/ UpdateApp(e) \/ Retry(e) \/ Delete(e)
                             /\ exec[e] = "none"
                             /\ exec' = [exec EXCEPT ![e] = "RUNNING"]
                             /\ news' = news \union {[of |-> "exec", exec |-> e, result |-> "RUNNING"]}
                             /\ UNCHANGED <<rec, index, cfn, lis, gone>>
         \/ \E e \in Execs : ExecutionEnds(e)
<1>1. CASE \E e \in Execs : Update(e) \/ UpdateApp(e) \/ Retry(e) \/ Delete(e)
  <2>1. PICK e \in Execs : Update(e) \/ UpdateApp(e) \/ Retry(e) \/ Delete(e)
    BY <1>1
  <2>2. \E action : StartExecution(e, action)
    BY <2>1 DEF Update, UpdateApp, Retry, Delete
  <2>3. /\ exec[e] = "none"
        /\ exec' = [exec EXCEPT ![e] = "RUNNING"]
        /\ news' = news \union {[of |-> "exec", exec |-> e, result |-> "RUNNING"]}
    BY <2>2 DEF StartExecution
  <2>4. UNCHANGED <<rec, index, cfn, lis, gone>>
    BY <2>1 DEF Update, UpdateApp, Retry, Delete
  <2> QED BY <2>1, <2>3, <2>4
<1>2. CASE \E e \in Execs : ExecutionEnds(e)
  BY <1>2
<1>3. CASE /\ \A e \in Execs : ~Delete(e) /\ ~Update(e) /\ ~UpdateApp(e) /\ ~Retry(e)
           /\ \A e \in Execs : ~ExecutionEnds(e)
  BY <1>3 DEF Next, Get, SaveGet, GetFails, CatchUp, OpenPage, LeavePage,
     SaveRequest, SaveFails, StackStarts, StackEnds, Describe, ReadPipeline, ReadStack,
     WriteStack, WriteStackRefused, WriteState, WriteStateRefused, ReadAgain, FetchAll,
     WriteAll, WriteAllRefused, ListenerFails, ListenerFindsNothing, DropEvent
<1> QED BY <1>1, <1>2, <1>3

\* At the end of an execution no event of one is pending.
LEMMA EndsAlone ==
  ASSUME TypeInv, NEW e \in Execs, ExecutionEnds(e)
  PROVE  /\ \A ev \in Pending : ev \notin ExecEvents
         /\ \A l \in Listeners : lis[l].pc \in {"idle", "read", "write"}
         /\ \A l \in Listeners : lis[l].pc \in {"read", "write"} =>
              lis[l].seen = cfn[lis[l].event.stack]
         /\ Pending' = Pending \union {[of |-> "exec", exec |-> e, result |-> Result]}
         /\ exec' = [exec EXCEPT ![e] = Result]
         /\ exec[e] = "RUNNING" /\ req.pc # "save"
         /\ \A s \in Stacks : cfn[s] # "busy"
         /\ UNCHANGED <<rec, index, cfn, lis, req, gone, lost>>
<1>1. /\ \A ev \in news : ev.of = "stack"
      /\ \A l \in Listeners : lis[l] # NoRun => lis[l].event.of = "stack"
      /\ \A l \in Listeners : lis[l] # NoRun => lis[l].seen = cfn[lis[l].event.stack]
      /\ exec' = [exec EXCEPT ![e] = Result] /\ exec[e] = "RUNNING" /\ req.pc # "save"
      /\ \A s \in Stacks : cfn[s] # "busy"
      /\ news' = news \union {[of |-> "exec", exec |-> e, result |-> Result]}
      /\ UNCHANGED <<rec, index, cfn, lis, req, gone, lost>>
  BY DEF ExecutionEnds, Minutes, Seconds, UpToDate
<1>2. NoRun.pc = "idle"
  BY NoRunType
<1>3. \A l \in Listeners : lis[l].pc # "idle" => lis[l].event.of = "stack"
  BY <1>1, <1>2
<1>4. \A ev \in Pending : ev \notin ExecEvents
  BY <1>1, <1>3, EventTypes DEF Pending
<1>5. ASSUME NEW l \in Listeners PROVE lis[l].pc \in {"idle", "read", "write"}
  <2>1. lis[l].pc \in {"again", "state", "fetch", "all"} => lis[l].event \in ExecEvents
    BY ExecRunType
  <2>2. lis[l] \in Runs
    BY RunType
  <2> QED BY <1>3, <2>1, <2>2, EventTypes DEF Runs
<1>6. Pending' = Pending \union {[of |-> "exec", exec |-> e, result |-> Result]}
  BY <1>1 DEF Pending
<1> QED BY <1>1, <1>2, <1>4, <1>5, <1>6

LEMMA EventsCurrentStep ==
  ASSUME TypeInv, EventsCurrent, Next PROVE EventsCurrent'
<1>0. \A ev \in ExecEvents : ev.exec \in Execs /\ ev.result # "none"
  BY EventTypes
<1>1. CASE \E e \in Execs : Update(e) \/ UpdateApp(e) \/ Retry(e) \/ Delete(e)
  <2>1. PICK e \in Execs : Update(e) \/ UpdateApp(e) \/ Retry(e) \/ Delete(e)
    BY <1>1
  <2>2. /\ \E action : StartExecution(e, action)
        /\ lis' = lis
    BY <2>1 DEF Update, UpdateApp, Retry, Delete
  <2>3. /\ exec[e] = "none" /\ exec' = [exec EXCEPT ![e] = "RUNNING"]
        /\ news' = news \union {[of |-> "exec", exec |-> e, result |-> "RUNNING"]}
    BY <2>2 DEF StartExecution
  <2> DEFINE start == [of |-> "exec", exec |-> e, result |-> "RUNNING"]
  <2>4. \A ev \in Pending' : ev \in Pending \/ ev = start
    BY <2>2, <2>3 DEF Pending
  <2>5. start.exec = e /\ start.result = "RUNNING"
    OBVIOUS
  <2> HIDE DEF start
  <2> QED BY <1>0, <2>3, <2>4, <2>5 DEF EventsCurrent, TypeInv
<1>2. CASE \E e \in Execs : ExecutionEnds(e)
  <2>1. PICK e \in Execs : ExecutionEnds(e)
    BY <1>2
  <2> DEFINE end == [of |-> "exec", exec |-> e, result |-> Result]
  <2>2. /\ \A ev \in Pending : ev \notin ExecEvents
        /\ Pending' = Pending \union {end}
        /\ exec' = [exec EXCEPT ![e] = Result]
    BY <2>1, EndsAlone
  <2>3. end.exec = e /\ end.result = Result
    OBVIOUS
  <2> HIDE DEF end
  <2> QED BY <2>2, <2>3 DEF EventsCurrent, TypeInv
<1>3. CASE /\ \A e \in Execs : ~Delete(e) /\ ~Update(e) /\ ~UpdateApp(e) /\ ~Retry(e)
           /\ \A e \in Execs : ~ExecutionEnds(e)
  <2>1. exec' = exec
    BY <1>3, ExecSteps
  <2>2. \A ev \in Pending' : ev \in Pending \/ ev \notin ExecEvents
    <3>1. CASE \/ Get \/ SaveGet \/ GetFails \/ CatchUp
               \/ OpenPage \/ LeavePage \/ SaveRequest \/ SaveFails
               \/ \E ev \in news : DropEvent(ev)
      <4>1. news' \subseteq news /\ lis' = lis
        BY <3>1 DEF Get, SaveGet, GetFails, CatchUp, OpenPage, LeavePage, SaveRequest,
                    SaveFails, DropEvent
      <4> QED BY <4>1 DEF Pending
    <3>2. ASSUME NEW s \in Stacks, StackStarts(s) \/ StackEnds(s)
          PROVE  \A ev \in Pending' : ev \in Pending \/ ev \notin ExecEvents
      <4>1. \A ev \in Pending' : ev \in Pending \/ ev = [of |-> "stack", stack |-> s]
        BY <3>2 DEF Pending, StackStarts, StackEnds
      <4> QED BY <4>1, EventTypes
    <3>3. ASSUME NEW l \in Listeners,
                 \/ \E ev \in news : Describe(l, ev) \/ ReadPipeline(l, ev)
                 \/ ReadStack(l) \/ WriteStack(l) \/ WriteStackRefused(l)
                 \/ WriteState(l) \/ WriteStateRefused(l) \/ ReadAgain(l)
                 \/ FetchAll(l) \/ WriteAll(l) \/ WriteAllRefused(l)
                 \/ ListenerFails(l) \/ ListenerFindsNothing(l)
          PROVE  \A ev \in Pending' : ev \in Pending \/ ev \notin ExecEvents
      BY <3>3, ListenersPending
    <3> QED BY <1>3, <3>1, <3>2, <3>3 DEF Next
  <2> QED BY <2>1, <2>2 DEF EventsCurrent
<1> QED BY <1>1, <1>2, <1>3

LEMMA SaveOfExecution ==
  ASSUME TypeInv, NEW e \in Execs, Update(e) \/ UpdateApp(e) \/ Retry(e) \/ Delete(e)
  PROVE  /\ exec'[e] = "RUNNING"
         /\ req'.copy.exec = e /\ req'.copy.result = "RUNNING"
<1>1. \E action : StartExecution(e, action)
  BY DEF Update, UpdateApp, Retry, Delete
<1>2. exec'[e] = "RUNNING"
  BY <1>1 DEF StartExecution, TypeInv
<1>3. ASSUME NEW r \in Records, NEW name, Save(r, e, name)
      PROVE  req'.copy.exec = e /\ req'.copy.result = "RUNNING"
  BY <1>3 DEF Save, Records
<1>4. rec \in Records /\ index \in Records
  BY DEF TypeInv, Stamped
<1>5. \E r \in Records : \E name : Save(r, e, name)
  <2>1. CASE Update(e)
    <3>1. req.copy \in Records
      BY <2>1 DEF Update, TypeInv, Idle, Pages, Saves, Stamped
    <3>2. [req.copy EXCEPT !.lastAction = "Update"] \in Records
      BY <3>1 DEF Records, Actions
    <3> QED BY <2>1, <3>2 DEF Update
  <2>2. CASE UpdateApp(e)
    <3>1. [index EXCEPT !.lastAction = "Update"] \in Records
      BY <1>4 DEF Records, Actions
    <3> QED BY <2>2, <3>1 DEF UpdateApp
  <2>3. CASE Retry(e)
    BY <1>4, <2>3 DEF Retry
  <2>4. CASE Delete(e)
    <3>1. PICK r \in {index, rec}, missed \in SUBSET Stacks :
             Save([r EXCEPT !.lastAction = "Delete", !.stacks = Found(missed)], e, "delete")
      BY <2>4 DEF Delete
    <3>2. [r EXCEPT !.lastAction = "Delete", !.stacks = Found(missed)] \in Records
      BY <1>4, StatusOf DEF Records, Actions
    <3> QED BY <3>1, <3>2
  <2> QED BY <2>1, <2>2, <2>3, <2>4
<1> QED BY <1>2, <1>3, <1>5

LEMMA SavesRunStep ==
  ASSUME TypeInv, SavesRun, Next PROVE SavesRun'
<1>1. CASE \E e \in Execs : Update(e) \/ UpdateApp(e) \/ Retry(e) \/ Delete(e)
  BY <1>1, SaveOfExecution DEF SavesRun
<1>2. CASE \E e \in Execs : ExecutionEnds(e)
  BY <1>2, EndsAlone DEF SavesRun
<1>3. CASE OpenPage \/ LeavePage \/ SaveRequest \/ SaveFails
  BY <1>3 DEF OpenPage, LeavePage, SaveRequest, SaveFails, SavesRun, Idle
<1>4. CASE /\ \A e \in Execs : ~Delete(e) /\ ~Update(e) /\ ~UpdateApp(e) /\ ~Retry(e)
           /\ \A e \in Execs : ~ExecutionEnds(e)
           /\ ~OpenPage /\ ~LeavePage /\ ~SaveRequest /\ ~SaveFails
  <2>1. exec' = exec
    BY <1>4, ExecSteps
  <2>2. req' = req
    BY <1>4 DEF Next, Get, SaveGet, GetFails, CatchUp, StackStarts, StackEnds, Describe,
       ReadPipeline, ReadStack, WriteStack, WriteStackRefused, WriteState,
       WriteStateRefused, ReadAgain, FetchAll, WriteAll, WriteAllRefused, ListenerFails,
       ListenerFindsNothing, DropEvent
  <2> QED BY <2>1, <2>2 DEF SavesRun
<1> QED BY <1>1, <1>2, <1>3, <1>4

\* Between executions nothing changes outside the record.
LEMMA Between ==
  ASSUME TypeInv, SavesRun, NoneBusy, Next, NoneRuns', \A e \in Execs : ~ExecutionEnds(e)
  PROVE  /\ NoneRuns /\ exec' = exec /\ cfn' = cfn
         /\ ~SaveRequest
         /\ \A e \in Execs : ~Delete(e) /\ ~Update(e) /\ ~UpdateApp(e) /\ ~Retry(e)
         /\ \A s \in Stacks : ~StackStarts(s) /\ ~StackEnds(s)
<1>1. \A e \in Execs : ~Delete(e) /\ ~Update(e) /\ ~UpdateApp(e) /\ ~Retry(e)
  BY SaveOfExecution DEF NoneRuns
<1>2. exec' = exec
  BY <1>1, ExecSteps
<1>3. NoneRuns
  BY <1>2 DEF NoneRuns
<1>4. \A s \in Stacks : ~StackStarts(s) /\ ~StackEnds(s)
  BY <1>3 DEF StackStarts, StackEnds, Running, NoneRuns, NoneBusy
<1>5. ~SaveRequest
  BY <1>3 DEF SaveRequest, SavesRun, NoneRuns
<1>6. cfn' = cfn
  BY <1>1, <1>4 DEF Next, Get, SaveGet, GetFails, CatchUp, OpenPage, LeavePage,
     SaveRequest, SaveFails, Describe, ReadPipeline, ReadStack, ExecutionEnds,
     WriteStack, WriteStackRefused, WriteState, WriteStateRefused, ReadAgain, FetchAll,
     WriteAll, WriteAllRefused, ListenerFails, ListenerFindsNothing, DropEvent
<1> QED BY <1>1, <1>2, <1>3, <1>4, <1>5, <1>6

LEMMA NoneBusyStep ==
  ASSUME TypeInv, SavesRun, NoneBusy, Next PROVE NoneBusy'
<1>1. CASE \E e \in Execs : ExecutionEnds(e)
  BY <1>1, EndsAlone DEF NoneBusy
<1>2. CASE \A e \in Execs : ~ExecutionEnds(e)
  BY <1>2, Between DEF NoneBusy
<1> QED BY <1>1, <1>2

\* What a listener of stacks becomes.
LEMMA StackListenerNext ==
  ASSUME TypeInv, NEW l \in Listeners,
         (\E ev \in news : Describe(l, ev)) \/ ReadStack(l) \/ WriteStackRefused(l)
  PROVE  /\ \A k \in Listeners \ {l} : lis'[k] = lis[k]
         /\ \/ lis'[l].pc = "idle"
            \/ /\ lis'[l].pc = "read" /\ lis'[l].event.stack \in Stacks
               /\ \/ lis'[l].seen = cfn[lis'[l].event.stack]
                  \/ /\ lis[l].pc \in {"read", "write"}
                     /\ lis'[l].event = lis[l].event /\ lis'[l].seen = lis[l].seen
            \/ /\ lis'[l].pc = "write"
               /\ lis[l].pc \in {"read", "write"}
               /\ lis'[l].event = lis[l].event /\ lis'[l].seen = lis[l].seen
               /\ lis'[l].stacks[lis[l].event.stack] = lis[l].seen
<1>0. NoRun.pc = "idle" /\ NoRun \in Runs /\ lis[l] \in Runs
  BY NoRunType, RunType
<1>1. \A k \in Listeners \ {l} : lis'[k] = lis[k]
  BY DEF Describe, ReadStack, WriteStackRefused, Become, TypeInv
<1>2. CASE \E ev \in news : Describe(l, ev)
  <2>0. PICK ev \in news : Describe(l, ev)
    BY <1>2
  <2> DEFINE run == [NoRun EXCEPT !.pc = "read", !.event = ev, !.seen = cfn[ev.stack]]
  <2>1. run.pc = "read" /\ run.event = ev /\ run.seen = cfn[ev.stack]
    BY <1>0 DEF Runs
  <2>2. lis'[l] = run
    BY <2>0 DEF Describe, Become, TypeInv
  <2>3. ev.stack \in Stacks
    BY <2>0, EventTypes DEF Describe, TypeInv
  <2> HIDE DEF run
  <2> QED BY <1>1, <2>1, <2>2, <2>3
<1>3. CASE ReadStack(l)
  <2>1. lis[l].event.stack \in Stacks /\ lis[l].pc = "read"
    BY <1>3, RunType, EventTypes DEF ReadStack, StackRuns
  <2>2. PICK stacks : stacks = [index.stacks EXCEPT ![lis[l].event.stack] = lis[l].seen]
    OBVIOUS
  <2>3. stacks[lis[l].event.stack] = lis[l].seen
    BY <2>1, <2>2 DEF TypeInv, Stamped, Records
  <2>4. lis'[l] = [lis[l] EXCEPT !.pc = "write", !.at = index.updateAt, !.stacks = stacks]
    BY <1>3, <2>2 DEF ReadStack, Become, TypeInv
  <2>5. /\ lis'[l].pc = "write" /\ lis'[l].event = lis[l].event
        /\ lis'[l].seen = lis[l].seen /\ lis'[l].stacks = stacks
    BY <1>0, <2>4 DEF Runs
  <2> QED BY <1>1, <2>1, <2>3, <2>5
<1>4. CASE WriteStackRefused(l)
  <2> DEFINE again == [NoRun EXCEPT !.pc = "read", !.event = lis[l].event, !.seen = lis[l].seen,
                                    !.tries = lis[l].tries + 1]
  <2>1. /\ again.pc = "read" /\ again.event = lis[l].event /\ again.seen = lis[l].seen
    BY <1>0 DEF Runs
  <2>2. lis[l].event.stack \in Stacks /\ lis[l].pc = "write"
    BY <1>4, RunType, EventTypes DEF WriteStackRefused, StackRuns
  <2>3. lis'[l] = NoRun \/ lis'[l] = again
    BY <1>4 DEF WriteStackRefused, Become, TypeInv
  <2> HIDE DEF again
  <2> QED BY <1>0, <1>1, <2>1, <2>2, <2>3
<1> QED BY <1>2, <1>3, <1>4

\* What every other listener becomes.
LEMMA ExecListenerNext ==
  ASSUME TypeInv, NEW l \in Listeners,
         \/ \E ev \in news : ReadPipeline(l, ev)
         \/ WriteStack(l) \/ WriteState(l) \/ WriteStateRefused(l) \/ ReadAgain(l)
         \/ FetchAll(l) \/ WriteAll(l) \/ WriteAllRefused(l)
         \/ ListenerFails(l) \/ ListenerFindsNothing(l)
  PROVE  /\ \A k \in Listeners \ {l} : lis'[k] = lis[k]
         /\ \/ lis'[l].pc \in {"idle", "state", "again", "fetch"}
            \/ lis'[l].pc = "all" /\ Near(lis'[l].stacks, lost')
<1> DEFINE Fits(r) == \/ r.pc \in {"idle", "state", "again", "fetch"}
                      \/ r.pc = "all" /\ Near(r.stacks, lost')
           Kept == \E r : Become(l, r) /\ Fits(r)
<1>0. NoRun.pc = "idle" /\ NoRun \in Runs /\ lis[l] \in Runs
  BY NoRunType, RunType
<1>1. Fits(NoRun)
  BY <1>0
<1>2. ASSUME NEW ev \in news, ReadPipeline(l, ev) PROVE Kept
  <2> DEFINE run == [NoRun EXCEPT !.pc = "state", !.event = ev, !.at = index.updateAt]
             ends == [run EXCEPT !.first = index.updateAt, !.lastAction = index.lastAction]
  <2>1. run.pc = "state" /\ ends.pc = "state"
    BY <1>0 DEF Runs
  <2>2. Become(l, IF ev.result = "RUNNING" THEN run ELSE ends)
    BY <1>2 DEF ReadPipeline
  <2> HIDE DEF run, ends
  <2> QED BY <2>1, <2>2
<1>3. ASSUME WriteStack(l) \/ ListenerFails(l) \/ ListenerFindsNothing(l) \/ WriteAll(l)
      PROVE  Kept
  <2> HIDE DEF Fits
  <2> QED BY <1>1, <1>3 DEF WriteStack, ListenerFails, ListenerFindsNothing, WriteAll, Finish
<1>4. Fits(AfterState(l))
  <2>1. [lis[l] EXCEPT !.pc = "fetch", !.tries = 0, !.at = lis[l].first].pc = "fetch"
    BY <1>0 DEF Runs
  <2> QED BY <1>1, <2>1 DEF AfterState
<1>5. ASSUME WriteState(l) PROVE Kept
  <2> HIDE DEF Fits
  <2> QED BY <1>4, <1>5 DEF WriteState
<1>6. ASSUME WriteStateRefused(l) PROVE Kept
  <2>1. Fits([lis[l] EXCEPT !.pc = "again", !.tries = @ + 1, !.at = NoTime])
    BY <1>0 DEF Runs
  <2>2. \/ Become(l, AfterState(l))
        \/ Become(l, [lis[l] EXCEPT !.pc = "again", !.tries = @ + 1, !.at = NoTime])
    BY <1>6 DEF WriteStateRefused
  <2> HIDE DEF Fits
  <2> QED BY <1>4, <2>1, <2>2
<1>7. ASSUME ReadAgain(l) PROVE Kept
  <2>1. Fits([lis[l] EXCEPT !.pc = "state", !.at = index.updateAt])
    BY <1>0 DEF Runs
  <2> HIDE DEF Fits
  <2> QED BY <1>7, <2>1 DEF ReadAgain
<1>8. ASSUME FetchAll(l) PROVE Kept
  <2>1. PICK stacks : /\ Near(stacks, lost')
                      /\ \E at : Become(l, [lis[l] EXCEPT !.pc = "all", !.stacks = stacks,
                                                          !.first = NoTime, !.at = at])
    <3>1. PICK missed \in SUBSET Stacks :
            /\ Become(l, [lis[l] EXCEPT !.pc = "all", !.stacks = Found(missed),
                            !.first = NoTime,
                            !.at = IF lis[l].tries = 0 THEN lis[l].at ELSE index.updateAt])
            /\ Miss(missed)
      BY <1>0, <1>8 DEF FetchAll, Runs
    <3>2. missed # {} => "describe" \in lost'
      BY <3>1 DEF Miss
    <3>3. Near(Found(missed), lost')
      BY <3>2 DEF Near, Found
    <3> QED BY <3>1, <3>3
  <2>2. PICK at : Become(l, [lis[l] EXCEPT !.pc = "all", !.stacks = stacks,
                                           !.first = NoTime, !.at = at])
    BY <2>1
  <2>3. [lis[l] EXCEPT !.pc = "all", !.stacks = stacks, !.first = NoTime, !.at = at].stacks = stacks
    BY <1>0 DEF Runs
  <2>4. [lis[l] EXCEPT !.pc = "all", !.stacks = stacks, !.first = NoTime, !.at = at].pc = "all"
    BY <1>0 DEF Runs
  <2>5. Fits([lis[l] EXCEPT !.pc = "all", !.stacks = stacks, !.first = NoTime, !.at = at])
    BY <2>1, <2>3, <2>4
  <2> HIDE DEF Fits
  <2> QED BY <2>2, <2>5
<1>9. ASSUME WriteAllRefused(l) PROVE Kept
  <2>1. PICK stacks : stacks = NoRun.stacks
    OBVIOUS
  <2>2. \/ Become(l, NoRun)
        \/ Become(l, [lis[l] EXCEPT !.pc = "fetch", !.tries = @ + 1, !.at = NoTime,
                                    !.stacks = stacks])
    BY <1>9, <2>1, Zenon DEF WriteAllRefused, Finish
  <2>3. Fits([lis[l] EXCEPT !.pc = "fetch", !.tries = @ + 1, !.at = NoTime, !.stacks = stacks])
    BY <1>0 DEF Runs
  <2> HIDE DEF Fits
  <2> QED BY <1>1, <2>2, <2>3
<1>10. PICK r : Become(l, r) /\ Fits(r)
  <2> HIDE DEF Fits
  <2> QED BY <1>2, <1>3, <1>5, <1>6, <1>7, <1>8, <1>9
<1> QED BY <1>10 DEF Become, TypeInv

\* Nothing lost is found again, and a deleted project stays so.
LEMMA LostStays ==
  ASSUME TypeInv, Next PROVE  lost \subseteq lost' /\ (AllKept' => AllKept) /\ (gone => gone')
<1>1. CASE \/ Get \/ SaveGet \/ GetFails \/ CatchUp
           \/ OpenPage \/ LeavePage \/ SaveRequest \/ SaveFails
           \/ \E e \in Execs : Update(e) \/ UpdateApp(e) \/ Retry(e) \/ Delete(e) \/ ExecutionEnds(e)
           \/ \E s \in Stacks : StackStarts(s) \/ StackEnds(s)
           \/ \E ev \in news : DropEvent(ev)
  <2>1. lost \subseteq lost' /\ gone' = gone
    BY <1>1, MissLost DEF Get, SaveGet, GetFails, CatchUp, OpenPage, LeavePage, SaveRequest, SaveFails,
       Update, UpdateApp, Retry, Delete, ExecutionEnds, StackStarts, StackEnds, DropEvent
  <2> QED BY <2>1 DEF AllKept
<1>2. ASSUME NEW l \in Listeners,
             \/ \E ev \in news : Describe(l, ev) \/ ReadPipeline(l, ev)
             \/ ReadStack(l) \/ WriteStack(l) \/ WriteStackRefused(l)
             \/ WriteState(l) \/ WriteStateRefused(l) \/ ReadAgain(l)
             \/ FetchAll(l) \/ ListenerFails(l) \/ ListenerFindsNothing(l)
      PROVE  lost \subseteq lost' /\ (AllKept' => AllKept) /\ (gone => gone')
  <2>1. lost \subseteq lost' /\ gone' = gone
    BY <1>2, MissLost DEF Describe, ReadPipeline, ReadStack, WriteStack, WriteStackRefused, WriteState,
       WriteStateRefused, ReadAgain, FetchAll, ListenerFails, ListenerFindsNothing, GiveUp
  <2> QED BY <2>1 DEF AllKept
<1>3. ASSUME NEW l \in Listeners, WriteAll(l) \/ WriteAllRefused(l)
      PROVE  lost \subseteq lost' /\ (AllKept' => AllKept) /\ (gone => gone')
  <2>1. lost \subseteq lost' /\ (gone' = gone \/ Finish(l))
    BY <1>3 DEF WriteAll, WriteAllRefused, GiveUp
  <2>2. gone => gone'
    BY <2>1, Zenon DEF Finish
  <2> QED BY <2>1, <2>2 DEF AllKept
<1> QED BY <1>1, <1>2, <1>3 DEF Next

LEMMA SeenCurrentStep ==
  ASSUME TypeInv, SavesRun, NoneBusy, SeenCurrent, Next PROVE SeenCurrent'
<1> DEFINE At(l) == /\ NoneRuns =>
                         /\ lis[l].pc \in {"read", "write"} => lis[l].seen = cfn[lis[l].event.stack]
                         /\ lis[l].pc = "all" => Near(lis[l].stacks, lost)
                    /\ lis[l].pc = "write" => lis[l].stacks[lis[l].event.stack] = lis[l].seen
<1>0. (\A l \in Listeners : At(l)) /\ (SeenCurrent' <=> \A l \in Listeners : At(l)')
  BY DEF SeenCurrent
<1>1. CASE \E e \in Execs : ExecutionEnds(e)
  BY <1>0, <1>1, EndsAlone DEF SeenCurrent
<1>2. CASE \A e \in Execs : ~ExecutionEnds(e)
  <2>1. NoneRuns' => NoneRuns /\ cfn' = cfn
    BY <1>2, Between
  <2>2. lost \subseteq lost'
    BY LostStays
  <2> HIDE DEF NoneRuns
  <2>3. ASSUME NEW l \in Listeners, lis'[l] = lis[l] PROVE At(l)'
    BY <1>0, <2>1, <2>2, <2>3 DEF Near
  <2>4. ASSUME NEW l \in Listeners,
               (\E ev \in news : Describe(l, ev)) \/ ReadStack(l) \/ WriteStackRefused(l)
        PROVE  \A k \in Listeners : At(k)'
    <3>1. At(l)'
      BY <1>0, <2>1, <2>4, StackListenerNext
    <3> QED BY <2>3, <2>4, <3>1, StackListenerNext
  <2>5. ASSUME NEW l \in Listeners,
               \/ \E ev \in news : ReadPipeline(l, ev)
               \/ WriteStack(l) \/ WriteState(l) \/ WriteStateRefused(l) \/ ReadAgain(l)
               \/ FetchAll(l) \/ WriteAll(l) \/ WriteAllRefused(l)
               \/ ListenerFails(l) \/ ListenerFindsNothing(l)
        PROVE  \A k \in Listeners : At(k)'
    <3>1. At(l)'
      BY <2>1, <2>5, ExecListenerNext DEF Near
    <3> QED BY <2>3, <2>5, <3>1, ExecListenerNext
  <2>6. CASE \/ Get \/ SaveGet \/ GetFails \/ CatchUp
             \/ OpenPage \/ LeavePage \/ SaveRequest \/ SaveFails
             \/ \E e \in Execs : Update(e) \/ UpdateApp(e) \/ Retry(e) \/ Delete(e)
             \/ \E s \in Stacks : StackStarts(s) \/ StackEnds(s)
             \/ \E ev \in news : DropEvent(ev)
    <3>1. lis' = lis
      BY <2>6 DEF Get, SaveGet, GetFails, CatchUp, OpenPage, LeavePage, SaveRequest, SaveFails,
         Update, UpdateApp, Retry, Delete, StackStarts, StackEnds, DropEvent
    <3>2. \A k \in Listeners : At(k)'
      BY <2>3, <3>1
    <3> QED BY <1>0, <3>2
  <2> HIDE DEF At
  <2> QED BY <1>0, <1>2, <2>4, <2>5, <2>6 DEF Next
<1> QED BY <1>1, <1>2

\* A listener told of an end goes on until it has written all the stacks.
LEMMA EndKept ==
  ASSUME TypeInv, NEW l \in Listeners, lis[l].pc # "idle", EndEvent(lis[l].event),
         \/ ReadStack(l) \/ WriteStack(l) \/ WriteStackRefused(l)
         \/ WriteState(l) \/ WriteStateRefused(l) \/ ReadAgain(l)
         \/ FetchAll(l) \/ WriteAllRefused(l)
         \/ ListenerFails(l) \/ ListenerFindsNothing(l),
         AllKept', ~gone
  PROVE  \/ ListenerFails(l) /\ lis[l].event \in news'
         \/ /\ lis'[l].event = lis[l].event
            /\ lis'[l].pc # "idle"
            /\ lis[l].pc \in {"state", "again"} /\ ~WriteState(l) =>
                 lis'[l].pc \in {"state", "again"}
<1>0. lis[l] \in Runs
  BY RunType
<1>1. lis[l].pc \notin {"read", "write"}
  BY RunType, EventTypes DEF EndEvent, StackRuns
<1>2. lis'[l].pc = "idle" \/ lis'[l].event = lis[l].event
  BY ListenersKeep
<1>3. CASE WriteState(l)
  <2>1. lis'[l] = [lis[l] EXCEPT !.pc = "fetch", !.tries = 0, !.at = lis[l].first]
    BY <1>3 DEF WriteState, AfterState, EndEvent, Become, TypeInv
  <2>2. lis'[l].pc = "fetch"
    BY <1>0, <2>1 DEF Runs
  <2> QED BY <1>2, <1>3, <2>2
<1>4. CASE WriteStateRefused(l)
  <2>1. lis'[l] = [lis[l] EXCEPT !.pc = "again", !.tries = @ + 1, !.at = NoTime]
    BY <1>4 DEF WriteStateRefused, GiveUp, AllKept, Become, TypeInv
  <2>2. lis'[l].pc = "again"
    BY <1>0, <2>1 DEF Runs
  <2> QED BY <1>2, <2>2
<1>5. CASE ReadAgain(l)
  <2>1. lis'[l] = [lis[l] EXCEPT !.pc = "state", !.at = index.updateAt]
    BY <1>5 DEF ReadAgain, Become, TypeInv
  <2>2. lis'[l].pc = "state"
    BY <1>0, <2>1 DEF Runs
  <2> QED BY <1>2, <2>2
<1>6. CASE FetchAll(l)
  <2>0. PICK stacks, at : Become(l, [lis[l] EXCEPT !.pc = "all", !.stacks = stacks,
                                                   !.first = NoTime, !.at = at])
    <3>1. \E missed :
            Become(l, [lis[l] EXCEPT !.pc = "all", !.stacks = Found(missed), !.first = NoTime,
                         !.at = IF lis[l].tries = 0 THEN lis[l].at ELSE index.updateAt])
      BY <1>0, <1>6 DEF FetchAll, Runs
    <3> QED BY <3>1
  <2>1. lis'[l] = [lis[l] EXCEPT !.pc = "all", !.stacks = stacks,
                                 !.first = NoTime, !.at = at]
    BY <2>0 DEF Become, TypeInv
  <2>2. lis'[l].pc = "all" /\ lis[l].pc = "fetch"
    BY <1>0, <1>6, <2>1 DEF Runs, FetchAll
  <2> QED BY <1>2, <2>2
<1>7. CASE WriteAllRefused(l)
  <2>1. PICK stacks : stacks = NoRun.stacks
    OBVIOUS
  <2>2. Become(l, [lis[l] EXCEPT !.pc = "fetch", !.tries = @ + 1, !.at = NoTime,
                                 !.stacks = stacks])
    BY <1>7, <2>1 DEF WriteAllRefused, GiveUp, AllKept
  <2>3. lis'[l] = [lis[l] EXCEPT !.pc = "fetch", !.tries = @ + 1, !.at = NoTime,
                                 !.stacks = stacks]
    BY <2>2 DEF Become, TypeInv
  <2>4. lis'[l].pc = "fetch" /\ lis[l].pc = "all"
    BY <1>0, <1>7, <2>3 DEF Runs, WriteAllRefused
  <2> QED BY <1>2, <2>4
<1>8. CASE ListenerFails(l)
  BY <1>8 DEF ListenerFails
<1> QED BY <1>1, <1>3, <1>4, <1>5, <1>6, <1>7, <1>8
         DEF ReadStack, WriteStack, WriteStackRefused, ListenerFindsNothing

\* What a listener takes from news.
LEMMA TakesEvent ==
  ASSUME TypeInv, NEW l \in Listeners, NEW ev \in news, Describe(l, ev) \/ ReadPipeline(l, ev)
  PROVE  /\ lis[l].pc = "idle" /\ \A k \in Listeners \ {l} : lis'[k] = lis[k]
         /\ \A e \in news : EndEvent(e) =>
              e \in news' \/ (lis'[l].pc = "state" /\ lis'[l].event = e)
<1>0. NoRun.pc = "idle" /\ NoRun \in Runs
  BY NoRunType
<1>1. lis[l].pc = "idle" /\ \A k \in Listeners \ {l} : lis'[k] = lis[k]
  BY <1>0 DEF Describe, ReadPipeline, Become, TypeInv
<1>2. CASE Describe(l, ev)
  BY <1>1, <1>2, EventTypes DEF Describe, EndEvent
<1>3. CASE ReadPipeline(l, ev)
  <2> DEFINE run == [NoRun EXCEPT !.pc = "state", !.event = ev, !.at = index.updateAt]
             ends == [run EXCEPT !.first = index.updateAt, !.lastAction = index.lastAction]
  <2>1. run.pc = "state" /\ ends.pc = "state" /\ run.event = ev /\ ends.event = ev
    BY <1>0 DEF Runs
  <2>2. Become(l, IF ev.result = "RUNNING" THEN run ELSE ends)
    BY <1>3 DEF ReadPipeline
  <2> HIDE DEF run, ends
  <2>3. lis'[l].pc = "state" /\ lis'[l].event = ev
    BY <2>1, <2>2 DEF Become, TypeInv
  <2>4. news' = news \ {ev}
    BY <1>3 DEF ReadPipeline
  <2> QED BY <1>1, <2>3, <2>4
<1> QED BY <1>2, <1>3

\* An end that is still to be written stays so until it is written.
LEMMA UnwrittenStays ==
  ASSUME TypeInv, Next, Unwritten, AllKept', ~gone, \A l \in Listeners : ~WriteState(l)
  PROVE  Unwritten'
<1>1. CASE \/ Get \/ SaveGet \/ GetFails \/ CatchUp
           \/ OpenPage \/ LeavePage \/ SaveRequest \/ SaveFails
           \/ \E e \in Execs : Update(e) \/ UpdateApp(e) \/ Retry(e) \/ Delete(e) \/ ExecutionEnds(e)
           \/ \E s \in Stacks : StackStarts(s) \/ StackEnds(s)
           \/ \E ev \in news : DropEvent(ev)
  <2>1. news \subseteq news' /\ lis' = lis
    BY <1>1 DEF Get, SaveGet, GetFails, CatchUp, OpenPage, LeavePage, SaveRequest, SaveFails,
       Update, UpdateApp, Retry, Delete, ExecutionEnds, StackStarts, StackEnds, DropEvent,
       StartExecution
  <2> QED BY <2>1 DEF Unwritten
<1>2. ASSUME NEW l \in Listeners, NEW ev \in news, Describe(l, ev) \/ ReadPipeline(l, ev)
      PROVE  Unwritten'
  BY <1>2, TakesEvent DEF Unwritten
<1>3. ASSUME NEW l \in Listeners,
             \/ ReadStack(l) \/ WriteStack(l) \/ WriteStackRefused(l)
             \/ WriteStateRefused(l) \/ ReadAgain(l)
             \/ FetchAll(l) \/ WriteAll(l) \/ WriteAllRefused(l)
             \/ ListenerFails(l) \/ ListenerFindsNothing(l)
      PROVE  Unwritten'
  <2>1. /\ news \subseteq news'
        /\ \A k \in Listeners \ {l} : lis'[k] = lis[k]
    BY <1>3 DEF ReadStack, WriteStack, WriteStackRefused, WriteStateRefused, ReadAgain,
       FetchAll, WriteAll, WriteAllRefused, ListenerFails, ListenerFindsNothing, Become,
       Finish, TypeInv
  <2>2. CASE lis[l].pc \in {"state", "again"} /\ EndEvent(lis[l].event)
    <3>1. ~WriteAll(l)
      BY <2>2 DEF WriteAll
    <3>2. \/ lis[l].event \in news'
          \/ lis'[l].event = lis[l].event /\ lis'[l].pc \in {"state", "again"}
      BY <1>3, <2>2, <3>1, EndKept
    <3> QED BY <2>2, <3>2 DEF Unwritten
  <2>3. CASE ~(lis[l].pc \in {"state", "again"} /\ EndEvent(lis[l].event))
    BY <2>1, <2>3 DEF Unwritten
  <2> QED BY <2>2, <2>3
<1> QED BY <1>1, <1>2, <1>3 DEF Next

\* The stacks are owed as long as no listener has written them all.
LEMMA OwedStays ==
  ASSUME TypeInv, Next, Owed, AllKept', ~gone, \A l \in Listeners : ~WriteAll(l)
  PROVE  Owed'
<1>1. CASE \/ Get \/ SaveGet \/ GetFails \/ CatchUp
           \/ OpenPage \/ LeavePage \/ SaveRequest \/ SaveFails
           \/ \E e \in Execs : Update(e) \/ UpdateApp(e) \/ Retry(e) \/ Delete(e) \/ ExecutionEnds(e)
           \/ \E s \in Stacks : StackStarts(s) \/ StackEnds(s)
           \/ \E ev \in news : DropEvent(ev)
  <2>1. news \subseteq news' /\ lis' = lis
    BY <1>1 DEF Get, SaveGet, GetFails, CatchUp, OpenPage, LeavePage, SaveRequest, SaveFails,
       Update, UpdateApp, Retry, Delete, ExecutionEnds, StackStarts, StackEnds, DropEvent,
       StartExecution
  <2> QED BY <2>1 DEF Owed, Pending
<1>2. ASSUME NEW l \in Listeners, NEW ev \in news, Describe(l, ev) \/ ReadPipeline(l, ev)
      PROVE  Owed'
  <2>1. PICK e \in Pending : EndEvent(e)
    BY DEF Owed
  <2>2. /\ lis[l].pc = "idle" /\ \A k \in Listeners \ {l} : lis'[k] = lis[k]
        /\ \A d \in news : EndEvent(d) =>
             d \in news' \/ (lis'[l].pc = "state" /\ lis'[l].event = d)
    BY <1>2, TakesEvent
  <2>3. e \in Pending'
    BY <2>1, <2>2 DEF Pending
  <2> QED BY <2>1, <2>3 DEF Owed
<1>3. ASSUME NEW l \in Listeners,
             \/ ReadStack(l) \/ WriteStack(l) \/ WriteStackRefused(l)
             \/ WriteState(l) \/ WriteStateRefused(l) \/ ReadAgain(l)
             \/ FetchAll(l) \/ WriteAllRefused(l)
             \/ ListenerFails(l) \/ ListenerFindsNothing(l)
      PROVE  Owed'
  <2>1. /\ news \subseteq news'
        /\ \A k \in Listeners \ {l} : lis'[k] = lis[k]
    BY <1>3 DEF ReadStack, WriteStack, WriteStackRefused, WriteState, WriteStateRefused,
       ReadAgain, FetchAll, WriteAllRefused, ListenerFails, ListenerFindsNothing, Become,
       Finish, TypeInv
  <2>2. PICK e \in Pending : EndEvent(e)
    BY DEF Owed
  <2>3. lis[l].pc # "idle" /\ EndEvent(lis[l].event) =>
          \/ lis[l].event \in news'
          \/ lis'[l].event = lis[l].event /\ lis'[l].pc # "idle"
    BY <1>3, EndKept
  <2>4. e \in Pending'
    BY <2>1, <2>2, <2>3 DEF Pending
  <2> QED BY <2>2, <2>4 DEF Owed
<1> QED BY <1>1, <1>2, <1>3 DEF Next

LEMMA ResultShownStep ==
  ASSUME ~RacingReads, TypeInv, ReadsAlone, EventsCurrent, SavesRun, ResultShown, Next
  PROVE  ResultShown'
<1>0. rec \in Records /\ rec.exec \in Execs
  BY DEF TypeInv, Stamped, Records
<1>1. (AllKept' => AllKept) /\ (gone => gone')
  BY LostStays
<1>2. (AllKept' /\ ~gone) /\ Unwritten /\ (\A l \in Listeners : ~WriteState(l)) => Unwritten'
  BY UnwrittenStays
<1>3. CASE \E e \in Execs : Update(e) \/ UpdateApp(e) \/ Retry(e) \/ Delete(e)
  <2>1. PICK e \in Execs : Update(e) \/ UpdateApp(e) \/ Retry(e) \/ Delete(e)
    BY <1>3
  <2>2. \E action : StartExecution(e, action)
    BY <2>1 DEF Update, UpdateApp, Retry, Delete
  <2>3. /\ exec[e] = "none" /\ exec' = [exec EXCEPT ![e] = "RUNNING"]
        /\ news \subseteq news'
    BY <2>2 DEF StartExecution
  <2>4. rec' = rec /\ lis' = lis
    BY <2>1 DEF Update, UpdateApp, Retry, Delete
  <2>5. exec'[rec.exec] = exec[rec.exec]
    BY <2>3 DEF ResultShown, TypeInv
  <2>6. Unwritten => Unwritten'
    BY <2>3, <2>4 DEF Unwritten
  <2> QED BY <1>1, <2>4, <2>5, <2>6 DEF ResultShown
<1>4. CASE \E e \in Execs : ExecutionEnds(e)
  <2>1. PICK e \in Execs : ExecutionEnds(e)
    BY <1>4
  <2> DEFINE end == [of |-> "exec", exec |-> e, result |-> Result]
  <2>2. end \in news' /\ exec' = [exec EXCEPT ![e] = Result] /\ rec' = rec
    BY <2>1 DEF ExecutionEnds
  <2>3. Result \in {"SUCCEEDED", "FAILED"}
    BY StatusOf
  <2>4. EndEvent(end)
    BY <2>3 DEF EndEvent, ExecEvents, Results
  <2>5. exec'[rec.exec] # "none"
    BY <1>0, <2>2, <2>3 DEF ResultShown, TypeInv
  <2> HIDE DEF end
  <2> QED BY <2>2, <2>4, <2>5 DEF ResultShown, Unwritten
<1>5. CASE /\ \A e \in Execs : ~Delete(e) /\ ~Update(e) /\ ~UpdateApp(e) /\ ~Retry(e)
           /\ \A e \in Execs : ~ExecutionEnds(e)
  <2>1. exec' = exec
    BY <1>5, ExecSteps
  <2>2. CASE SaveRequest
    <3>1. req.pc = "save" /\ req.copy \in Records
      BY <2>2 DEF SaveRequest, TypeInv, Pages, Saves, Stamped, Idle
    <3>2. rec'.exec = req.copy.exec /\ rec'.result = req.copy.result
      BY <2>2, <3>1 DEF SaveRequest, Records
    <3> QED BY <2>1, <3>1, <3>2 DEF SavesRun, ResultShown
  <2>3. ASSUME NEW l \in Listeners, WriteState(l) PROVE ResultShown'
    <3>1. rec'.exec = lis[l].event.exec /\ rec'.result = lis[l].event.result
      BY <1>0, <2>3 DEF WriteState, Put, Records
    <3>2. lis[l].event \in ExecEvents /\ lis[l].pc # "idle"
      BY <2>3, ExecRunType DEF WriteState
    <3>3. lis[l].event \in Pending
      BY <3>2 DEF Pending
    <3>4. exec[lis[l].event.exec] = lis[l].event.result
      BY <3>2, <3>3 DEF EventsCurrent
    <3>5. lis[l].event.result # "none"
      BY <3>2, EventTypes
    <3> QED BY <2>1, <3>1, <3>4, <3>5 DEF ResultShown
  <2>4. CASE ~SaveRequest /\ \A l \in Listeners : ~WriteState(l)
    <3>1. rec'.exec = rec.exec /\ rec'.result = rec.result
      <4>1. CASE SaveGet
        BY <4>1 DEF SaveGet, Put, ReadsAlone
      <4>2. ASSUME NEW l \in Listeners, WriteStack(l) \/ WriteAll(l)
            PROVE  rec'.exec = rec.exec /\ rec'.result = rec.result
        BY <1>0, <4>2 DEF WriteStack, WriteAll, Put, Records
      <4>3. CASE ~SaveGet /\ \A l \in Listeners : ~WriteStack(l) /\ ~WriteAll(l)
        <5>1. rec' = rec
          BY <1>5, <2>4, <4>3 DEF Next, Get, GetFails, CatchUp, OpenPage, LeavePage, SaveFails,
             StackStarts, StackEnds, Describe, ReadPipeline, ReadStack, WriteStackRefused,
             WriteStateRefused, ReadAgain, FetchAll, WriteAllRefused, ListenerFails,
             ListenerFindsNothing, DropEvent
        <5> QED BY <5>1
      <4> QED BY <4>1, <4>2, <4>3
    <3> QED BY <1>1, <1>2, <2>1, <2>4, <3>1 DEF ResultShown
  <2> QED BY <2>2, <2>3, <2>4
<1> QED BY <1>3, <1>4, <1>5

LEMMA StacksShownStep ==
  ASSUME ~RacingReads, TypeInv, StampInv, ReadsAlone, SavesRun, NoneBusy, SeenCurrent,
         StacksShown, Next
  PROVE  StacksShown'
<1> SUFFICES ASSUME NoneRuns', AllKept', ~gone' PROVE Shown' \/ Owed'
  BY DEF StacksShown
<1>1. CASE \E e \in Execs : ExecutionEnds(e)
  <2>1. PICK e \in Execs : ExecutionEnds(e)
    BY <1>1
  <2> DEFINE end == [of |-> "exec", exec |-> e, result |-> Result]
  <2>2. end \in Pending'
    BY <2>1, EndsAlone
  <2>3. Result \in {"SUCCEEDED", "FAILED"}
    BY StatusOf
  <2>4. EndEvent(end)
    BY <2>3 DEF EndEvent, ExecEvents, Results
  <2> HIDE DEF end
  <2> QED BY <2>2, <2>4 DEF Owed
<1>2. CASE \A e \in Execs : ~ExecutionEnds(e)
  <2>1. /\ NoneRuns /\ cfn' = cfn /\ ~SaveRequest
        /\ \A e \in Execs : ~Delete(e) /\ ~Update(e) /\ ~UpdateApp(e) /\ ~Retry(e)
        /\ \A s \in Stacks : ~StackStarts(s) /\ ~StackEnds(s)
    BY <1>2, Between
  <2>2. lost \subseteq lost'
    BY LostStays
  <2>3. AllKept /\ ~gone
    BY LostStays
  <2>4. Shown \/ Owed
    BY <2>1, <2>3 DEF StacksShown
  <2>5. rec \in Records
    BY DEF TypeInv, Stamped
  <2>6. CASE \E l \in Listeners : WriteAll(l)
    <3>1. PICK l \in Listeners : WriteAll(l)
      BY <2>6
    <3>2. rec'.stacks = lis[l].stacks /\ lis[l].pc = "all"
      BY <2>5, <3>1 DEF WriteAll, Put, Records
    <3>3. Near(lis[l].stacks, lost)
      BY <2>1, <3>2 DEF SeenCurrent
    <3> QED BY <2>1, <2>2, <3>2, <3>3 DEF Shown, Near
  <2>7. CASE Owed /\ \A l \in Listeners : ~WriteAll(l)
    BY <2>3, <2>7, OwedStays
  <2>8. CASE Shown /\ \A l \in Listeners : ~WriteAll(l)
    <3>1. CASE \E l \in Listeners : WriteStack(l)
      <4>1. PICK l \in Listeners : WriteStack(l)
        BY <3>1
      <4>2. rec'.stacks = lis[l].stacks /\ lis[l].pc = "write" /\ lis[l].at = rec.updateAt
        BY <2>5, <4>1 DEF WriteStack, Put, Records, Holds
      <4>3. \A s \in Stacks \ {lis[l].event.stack} : lis[l].stacks[s] = rec.stacks[s]
        BY <4>2, CopiesNow DEF StampInv, WritesKnown
      <4>4. lis[l].stacks[lis[l].event.stack] = cfn[lis[l].event.stack]
        BY <2>1, <4>2 DEF SeenCurrent
      <4> QED BY <2>1, <2>2, <2>8, <4>2, <4>3, <4>4 DEF Shown, Near
    <3>2. CASE \E l \in Listeners : WriteState(l)
      <4>1. rec'.stacks = rec.stacks
        BY <2>5, <3>2 DEF WriteState, Put, Records
      <4> QED BY <2>1, <2>2, <2>8, <4>1 DEF Shown, Near
    <3>3. CASE SaveGet
      <4>1. rec' = rec
        BY <3>3 DEF SaveGet, Put, ReadsAlone
      <4> QED BY <2>1, <2>2, <2>8, <4>1 DEF Shown, Near
    <3>4. CASE ~SaveGet /\ \A l \in Listeners : ~WriteStack(l) /\ ~WriteState(l)
      <4>1. rec' = rec
        BY <1>2, <2>1, <2>8, <3>4 DEF Next, Get, GetFails, CatchUp, OpenPage, LeavePage,
           SaveFails, Describe, ReadPipeline, ReadStack, WriteStackRefused,
           WriteStateRefused, ReadAgain, FetchAll, WriteAllRefused, ListenerFails,
           ListenerFindsNothing, DropEvent
      <4> QED BY <2>1, <2>2, <2>8, <4>1 DEF Shown, Near
    <3> QED BY <3>1, <3>2, <3>3, <3>4
  <2> QED BY <2>4, <2>6, <2>7, <2>8
<1> QED BY <1>1, <1>2

LEMMA SettleInvariance ==
  ASSUME ~RacingReads PROVE Spec => [](OutsideInv /\ SettleInv)
<1>1. Init => OutsideInv /\ SettleInv
  <2> SUFFICES ASSUME Init PROVE OutsideInv /\ SettleInv
    OBVIOUS
  <2> DEFINE end == [of |-> "exec", exec |-> 0, result |-> Result]
  <2>1. /\ cfn \in [Stacks -> {"done", "failed"}]
        /\ exec[0] = Result /\ rec.exec = 0 /\ req = Idle
        /\ lis = [l \in Listeners |-> NoRun]
        /\ news = {end}
    BY RecordAssumption DEF Init, Execs
  <2>2. \A l \in Listeners : lis[l].pc = "idle"
    BY <2>1, NoRunType
  <2>3. Pending = {end}
    BY <2>1, <2>2 DEF Pending
  <2>4. Result \in {"SUCCEEDED", "FAILED"} /\ 0 \in Execs
    BY RecordAssumption DEF Result, Execs
  <2>5. EndEvent(end) /\ end.exec = 0 /\ end.result = Result
    BY <2>4 DEF EndEvent, ExecEvents, Results
  <2> HIDE DEF end
  <2>6. EventsCurrent
    BY <2>1, <2>3, <2>5 DEF EventsCurrent
  <2>7. SavesRun /\ NoneBusy
    BY <2>1 DEF SavesRun, NoneBusy, Idle
  <2>8. SeenCurrent
    BY <2>2 DEF SeenCurrent
  <2>9. ResultShown
    BY <2>1, <2>4, <2>5 DEF ResultShown, Unwritten
  <2>10. StacksShown
    BY <2>3, <2>5 DEF StacksShown, Owed
  <2> QED BY <2>6, <2>7, <2>8, <2>9, <2>10 DEF OutsideInv, SettleInv
<1>2. TypeInv /\ StampInv /\ ProjectInv /\ OutsideInv /\ SettleInv /\ [Next]_vars
        => (OutsideInv /\ SettleInv)'
  <2> SUFFICES ASSUME TypeInv, StampInv, ProjectInv, OutsideInv, SettleInv, [Next]_vars
               PROVE  (OutsideInv /\ SettleInv)'
    OBVIOUS
  <2>1. CASE UNCHANGED vars
    BY <2>1 DEF vars, OutsideInv, SettleInv, EventsCurrent, SavesRun, NoneBusy, SeenCurrent,
       ResultShown, StacksShown, Unwritten, Shown, Owed, NoneRuns, AllKept, Pending, Near
  <2>2. CASE Next
    <3>1. EventsCurrent' /\ SavesRun' /\ NoneBusy'
      BY <2>2, EventsCurrentStep, SavesRunStep, NoneBusyStep DEF OutsideInv
    <3>2. SeenCurrent'
      BY <2>2, SeenCurrentStep DEF OutsideInv, SettleInv
    <3>3. ResultShown'
      BY <2>2, ResultShownStep DEF OutsideInv, SettleInv, ProjectInv
    <3>4. StacksShown'
      BY <2>2, StacksShownStep DEF OutsideInv, SettleInv, ProjectInv
    <3> QED BY <3>1, <3>2, <3>3, <3>4 DEF OutsideInv, SettleInv
  <2> QED BY <2>1, <2>2
<1> QED BY <1>1, <1>2, TypeIsInvariant, StampInvariance, ProjectInvariance, PTL DEF Spec

\* When the console's reads meet no other write, and no listener has given up, the
\* record shows the end of its execution and every stack as it is as soon as nothing
\* is under way; a stack that is there may be without a status only when describing
\* one has failed.
THEOREM RecordSettles ==
  ASSUME ~RacingReads PROVE Spec => []StatusSettles
<1>1. TypeInv /\ OutsideInv /\ SettleInv => StatusSettles
  <2> SUFFICES ASSUME TypeInv, OutsideInv, SettleInv, Quiet, ~gone, "write" \notin lost
               PROVE  /\ rec.result = exec[rec.exec]
                      /\ Near(rec.stacks, lost)
    BY DEF StatusSettles, Near
  <2>1. NoneRuns /\ news = {} /\ \A l \in Listeners : lis[l].pc = "idle"
    BY NoRunType DEF Quiet, Running, NoneRuns
  <2>2. ~Unwritten
    BY <2>1 DEF Unwritten
  <2>3. ~Owed
    BY <2>1 DEF Owed, Pending
  <2> QED BY <2>1, <2>2, <2>3 DEF SettleInv, ResultShown, StacksShown, Shown, AllKept
<1> QED BY <1>1, TypeIsInvariant, SettleInvariance, PTL
=============================================================================
