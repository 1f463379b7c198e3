------------------------- MODULE MetadataScan_proofs --------------------------
(***************************************************************************)
(* Proofs about MetadataScan, for any executions, months and bounds.       *)
(***************************************************************************)
EXTENDS MetadataScan, FiniteSetTheorems, WellFoundedInduction, TLAPS

-----------------------------------------------------------------------------
(* Months *)

LEMMA MonthType ==
  /\ Cardinality(FirstDays) \in Nat
  /\ \A d \in Days : Month[d] \in 0..Cardinality(FirstDays)
<1>1. Cardinality(FirstDays) \in Nat
  BY FS_CardinalityType, ScanAssumption
<1>2. ASSUME NEW d \in Days PROVE Month[d] \in 0..Cardinality(FirstDays)
  <2> DEFINE F == {f \in FirstDays : f <= d}
  <2>1. F \in SUBSET FirstDays
    OBVIOUS
  <2>2. IsFiniteSet(F) /\ Cardinality(F) <= Cardinality(FirstDays)
    BY <2>1, FS_Subset, ScanAssumption
  <2>3. Cardinality(F) \in Nat
    BY <2>2, FS_CardinalityType
  <2>4. Month[d] = Cardinality(F)
    BY DEF Month
  <2> QED BY <1>1, <2>2, <2>3, <2>4
<1> QED BY <1>1, <1>2

Less == {p \in Nat \X Nat : p[1] < p[2]}

LEMMA LessWellFounded == IsWellFoundedOn(Less, Nat)
<1>1. OpToRel(<, Nat) = Less
  BY DEF OpToRel, Less
<1> QED BY <1>1, NatLessThanWellFounded, Zenon

\* Of some months one is the newest.
LEMMA NewestExists ==
  ASSUME NEW S \in SUBSET (Months \union {NoMonth}), S # {}
  PROVE  \E x \in S : \A y \in S : y <= x
<1> DEFINE K == Cardinality(FirstDays)
           T == {K - x : x \in S}
<1>1. K \in Nat /\ \A x \in S : x \in Int /\ x <= K
  BY MonthType DEF Months, NoMonth
<1>2. T \subseteq Nat /\ T # {}
  BY <1>1
<1>3. PICK t \in T : \A u \in T : <<u, t>> \notin Less
  BY <1>2, WFMin, LessWellFounded
<1>4. ASSUME NEW u \in T PROVE t <= u
  <2>1. t \in Nat /\ u \in Nat
    BY <1>2
  <2>2. u < t => <<u, t>> \in Less
    BY <2>1 DEF Less
  <2> QED BY <1>3, <2>1, <2>2
<1>5. PICK x \in S : t = K - x
  OBVIOUS
<1>6. \A y \in S : y <= x
  BY <1>1, <1>4, <1>5
<1> QED BY <1>6

LEMMA NewestType ==
  ASSUME NEW S \in SUBSET (Months \union {NoMonth}), S # {}
  PROVE  (CHOOSE x \in S : \A y \in S : y <= x) \in S
BY NewestExists

-----------------------------------------------------------------------------
(* Types *)

ExecType == [pc : {"idle", "check", "scan", "read", "merge", "write", "info"},
             hand : BOOLEAN, from : Days, to : Days, at : 0..now, todo : SUBSET Months,
             old : SUBSET Months, items : [Months -> SUBSET Days],
             newest : Months \union {NoMonth}]

\* The range of a scheduled scan ends within the windows that there are.
WithinWindows ==
  \A e \in Executions : exec[e].pc \notin {"idle", "check"} /\ ~exec[e].hand => exec[e].to <= window

TypeInv == TypeOK /\ WithinWindows

LEMMA IdleTyped ==
  ASSUME TypeOK PROVE Idle \in ExecType
BY ScanAssumption DEF TypeOK, Idle, ExecType, Days

LEMMA InitTyped == Init => TypeInv
<1> SUFFICES ASSUME Init PROVE TypeInv
  OBVIOUS
<1>1. 0 \in Days
  BY ScanAssumption DEF Days
<1>2. Idle \in ExecType
  BY <1>1 DEF Init, Idle, ExecType
<1> QED BY <1>1, <1>2, ScanAssumption
        DEF Init, TypeInv, TypeOK, WithinWindows, ExecType, NoInfo, Idle

LEMMA BecomeType ==
  ASSUME TypeInv, NEW e \in Executions, NEW r \in ExecType, Become(e, r),
         UNCHANGED <<now, window>>,
         r.pc \notin {"idle", "check"} /\ ~r.hand => r.to <= window
  PROVE  exec' \in [Executions -> ExecType'] /\ WithinWindows'
BY DEF TypeInv, TypeOK, ExecType, WithinWindows, Become

\* The windows move on meanwhile.
LEMMA WindowMoves ==
  ASSUME TypeInv, NEW e \in Executions, NEW r \in ExecType, Become(e, r),
         UNCHANGED <<now, info>>, window' \in window..now,
         r.pc \notin {"idle", "check"} /\ ~r.hand => r.to <= window'
  PROVE  /\ exec' \in [Executions -> ExecType'] /\ WithinWindows'
         /\ window' \in 0..now /\ info \in [end : 0..window', at : -1..now]
<1>1. /\ exec \in [Executions -> ExecType] /\ now \in Nat /\ window \in 0..now /\ WithinWindows
      /\ info \in [end : 0..window, at : -1..now]
  BY ScanAssumption DEF TypeInv, TypeOK, ExecType, Days
<1>2. exec' \in [Executions -> ExecType']
  BY <1>1 DEF Become, ExecType
<1>3. WithinWindows'
  <2> SUFFICES ASSUME NEW x \in Executions, exec'[x].pc \notin {"idle", "check"}, ~exec'[x].hand
               PROVE  exec'[x].to <= window'
    BY DEF WithinWindows
  <2>1. CASE x = e
    BY <1>1, <2>1 DEF Become
  <2>2. CASE x # e
    <3>1. exec'[x] = exec[x] /\ exec[x].to <= window
      BY <1>1, <2>2 DEF Become, WithinWindows
    <3>2. exec[x].to \in Int
      BY <1>1, ScanAssumption DEF ExecType, Days
    <3> QED BY <1>1, <3>1, <3>2
  <2> QED BY <2>1, <2>2
<1> QED BY <1>1, <1>2, <1>3

\* The rest of the state of an execution that only moves on.
LEMMA MovesOn ==
  ASSUME TypeInv, NEW e \in Executions, NEW r \in ExecType, Become(e, r),
         r.pc \notin {"idle", "check"} /\ ~r.hand => r.to <= window,
         UNCHANGED <<now, window, info, byHand>>,
         found' \subseteq Days, table' \in [Keys -> Item \union {NoItem}],
         fails' \in 0..MaxFails, kept' \subseteq Days, covered' \subseteq Days, torn' \subseteq Days
  PROVE  TypeInv'
<1>1. exec' \in [Executions -> ExecType'] /\ WithinWindows'
  BY BecomeType
<1>2. TypeOK'
  BY <1>1 DEF TypeInv, TypeOK, ExecType
<1> QED BY <1>1, <1>2 DEF TypeInv

LEMMA CheckType ==
  ASSUME TypeInv, NEW e \in Executions,
         \/ StartAfterLoad(e) \/ StartByHand(e) \/ CheckSkips(e) \/ CheckContinues(e) \/ CheckByHand(e)
  PROVE  TypeInv'
<1>1. /\ exec \in [Executions -> ExecType] /\ exec[e] \in ExecType /\ Idle \in ExecType
      /\ now \in Days /\ window \in 0..now /\ WithinWindows /\ now \in Nat
      /\ info \in [end : 0..window, at : -1..now]
  BY IdleTyped, ScanAssumption DEF TypeInv, TypeOK, ExecType, Days
<1>2. CASE StartAfterLoad(e)
  <2>1. [Idle EXCEPT !.pc = "check"] \in ExecType /\ [Idle EXCEPT !.pc = "check"].pc = "check"
    BY <1>1 DEF ExecType
  <2> QED BY <1>2, <2>1, MovesOn DEF StartAfterLoad, TypeInv, TypeOK
<1>3. CASE StartByHand(e)
  <2>1. PICK from, to \in Days :
          Become(e, [Idle EXCEPT !.pc = "check", !.hand = TRUE, !.from = from, !.to = to])
    BY <1>3 DEF StartByHand
  <2> DEFINE r == [Idle EXCEPT !.pc = "check", !.hand = TRUE, !.from = from, !.to = to]
  <2>2. r \in ExecType /\ r.pc = "check"
    BY <1>1 DEF ExecType
  <2>3. exec' \in [Executions -> ExecType'] /\ WithinWindows'
    BY <1>3, <2>1, <2>2, BecomeType DEF StartByHand
  <2>4. byHand' \in 0..MaxByHand
    <3>1. byHand < MaxByHand /\ byHand' = byHand + 1
      BY <1>3 DEF StartByHand
    <3>2. byHand \in 0..MaxByHand
      BY DEF TypeInv, TypeOK
    <3> QED BY <3>1, <3>2, ScanAssumption
  <2> QED BY <1>3, <2>3, <2>4 DEF StartByHand, TypeInv, TypeOK, ExecType
<1>4. CASE CheckSkips(e)
  <2>1. Idle.pc = "idle"
    BY DEF Idle
  <2> QED BY <1>1, <1>4, <2>1, MovesOn DEF CheckSkips, TypeInv, TypeOK
<1>5. CASE CheckContinues(e)
  <2> DEFINE r == [exec[e] EXCEPT !.pc = "scan", !.from = info.end, !.to = window', !.at = now]
  <2>1. window' \in window..now /\ Become(e, r) /\ exec[e].hand = FALSE
    BY <1>1, <1>5 DEF CheckContinues, ExecType
  <2>2. /\ window' \in 0..now /\ info.end \in Days /\ window' \in Days /\ now \in 0..now
    BY <1>1, <2>1, ScanAssumption DEF Days
  <2>3. r \in ExecType /\ r.to = window'
    BY <1>1, <2>2 DEF ExecType
  <2>4. r.pc \notin {"idle", "check"} /\ ~r.hand => r.to <= window'
    BY <1>1, <2>2, <2>3, ScanAssumption DEF Days
  <2>5. UNCHANGED <<now, info>>
    BY <1>5 DEF CheckContinues
  <2>6. /\ exec' \in [Executions -> ExecType'] /\ WithinWindows'
        /\ window' \in 0..now /\ info \in [end : 0..window', at : -1..now]
    BY <2>1, <2>3, <2>4, <2>5, WindowMoves
  <2> QED BY <1>5, <2>6 DEF CheckContinues, TypeInv, TypeOK, ExecType
<1>6. CASE CheckByHand(e)
  <2> DEFINE r == [exec[e] EXCEPT !.pc = "scan", !.to = IF @ < now THEN @ ELSE now]
  <2>1. r \in ExecType /\ r.hand
    BY <1>1, <1>6 DEF CheckByHand, ExecType
  <2> QED BY <1>6, <2>1, MovesOn DEF CheckByHand, TypeInv, TypeOK
<1> QED BY <1>2, <1>3, <1>4, <1>5, <1>6

LEMMA ScanType ==
  ASSUME TypeInv, NEW e \in Executions, ScanMetadata(e) \/ ReadExisting(e) \/ NoneFound(e)
  PROVE  TypeInv'
<1>1. /\ exec[e] \in ExecType
      /\ exec[e].pc \notin {"idle", "check"} /\ ~exec[e].hand => exec[e].to <= window
  BY DEF TypeInv, TypeOK, ExecType, WithinWindows
<1>2. CASE ScanMetadata(e)
  <2>1. [exec[e] EXCEPT !.pc = "read"] \in ExecType
    BY <1>1 DEF ExecType
  <2>2. /\ [exec[e] EXCEPT !.pc = "read"].to = exec[e].to
        /\ [exec[e] EXCEPT !.pc = "read"].hand = exec[e].hand
    BY <1>1 DEF ExecType
  <2>3. found' \subseteq Days
    BY <1>2 DEF ScanMetadata, RangeOf
  <2>4. now \in Nat /\ window \in 0..now
    BY ScanAssumption DEF TypeInv, TypeOK, Days
  <2>5. window' \in window..now /\ (~exec[e].hand => window' = window)
    BY <1>2, <2>4 DEF ScanMetadata
  <2>6. Become(e, [exec[e] EXCEPT !.pc = "read"]) /\ UNCHANGED <<now, info>>
        /\ exec[e].pc = "scan"
    BY <1>2 DEF ScanMetadata
  <2>7. /\ exec' \in [Executions -> ExecType'] /\ WithinWindows'
        /\ window' \in 0..now /\ info \in [end : 0..window', at : -1..now]
    BY <1>1, <2>1, <2>2, <2>5, <2>6, WindowMoves
  <2> QED BY <1>2, <2>3, <2>7 DEF ScanMetadata, TypeInv, TypeOK, ExecType
<1>3. CASE ReadExisting(e)
  <2> DEFINE ms == {Month[d] : d \in found}
  <2>0. PICK old \in SUBSET ms :
          Become(e, [exec[e] EXCEPT !.pc = "merge", !.todo = ms, !.old = old,
            !.items = [m \in Months |-> IF m \in old THEN table[KeyOf(m)].days ELSE {}]])
    BY <1>3 DEF ReadExisting
  <2> DEFINE it == [m \in Months |-> IF m \in old THEN table[KeyOf(m)].days ELSE {}]
             r == [exec[e] EXCEPT !.pc = "merge", !.todo = ms, !.old = old, !.items = it]
  <2>1. ms \in SUBSET Months /\ old \in SUBSET Months
    BY DEF Months, TypeInv, TypeOK
  <2>2. \A m \in Months : table[KeyOf(m)] \in Item \union {NoItem}
    BY DEF KeyOf, Keys, TypeInv, TypeOK
  <2>3. it \in [Months -> SUBSET Days]
    BY <2>2 DEF Item, NoItem
  <2>4. r \in ExecType /\ r.to = exec[e].to /\ r.hand = exec[e].hand
    <3> HIDE DEF ms, it
    <3> QED BY <1>1, <2>1, <2>3 DEF ExecType
  <2>5. Become(e, r)
    BY <2>0
  <2> QED BY <1>1, <1>3, <2>4, <2>5, MovesOn DEF ReadExisting, TypeInv, TypeOK
<1>4. CASE NoneFound(e)
  <2>1. /\ [exec[e] EXCEPT !.pc = "write"] \in ExecType
        /\ [exec[e] EXCEPT !.pc = "write"].to = exec[e].to
        /\ [exec[e] EXCEPT !.pc = "write"].hand = exec[e].hand
    BY <1>1 DEF ExecType
  <2> QED BY <1>1, <1>4, <2>1, MovesOn DEF NoneFound, TypeInv, TypeOK
<1> QED BY <1>2, <1>3, <1>4

LEMMA MergeType ==
  ASSUME TypeInv, NEW e \in Executions, NEW m \in Months, Merge(e, m)
  PROVE  TypeInv'
<1> DEFINE last == table[Latest].origin
           it == [x \in Months |-> exec[e].items[x] \union {d \in found : Month[d] = x}]
           S == exec[e].todo \union {last}
           new == CHOOSE x \in S : \A y \in S : y <= x
           r == [exec[e] EXCEPT !.pc = "write", !.items = it, !.newest = new]
<1>1. /\ exec[e] \in ExecType
      /\ exec[e].pc \notin {"idle", "check"} /\ ~exec[e].hand => exec[e].to <= window
      /\ table \in [Keys -> Item \union {NoItem}] /\ Latest \in Keys /\ found \subseteq Days
  BY DEF TypeInv, TypeOK, ExecType, WithinWindows, Keys
<1>2. last \in Months \union {NoMonth}
  BY <1>1 DEF Item, NoItem
<1>3. it \in [Months -> SUBSET Days]
  BY <1>1 DEF ExecType
<1>4. new \in Months \union {NoMonth}
  <2>1. S \in SUBSET (Months \union {NoMonth}) /\ S # {}
    BY <1>1, <1>2 DEF ExecType
  <2>2. new \in S
    BY <2>1, NewestType
  <2> QED BY <2>1, <2>2
<1>5. r \in ExecType /\ r.to = exec[e].to /\ r.hand = exec[e].hand
  <2> HIDE DEF it, new
  <2> QED BY <1>1, <1>3, <1>4 DEF ExecType
<1>6. Become(e, r) /\ exec[e].pc = "merge"
  BY DEF Merge
<1>7. table' \in [Keys -> Item \union {NoItem}]
  BY <1>1, <1>2 DEF Merge
<1> QED BY <1>1, <1>5, <1>6, <1>7, MovesOn DEF Merge, TypeInv, TypeOK

LEMMA StoreType ==
  ASSUME TypeInv, NEW e \in Executions, BatchWrite(e) \/ StoreEnds(e)
  PROVE  TypeInv'
<1>1. /\ exec[e] \in ExecType /\ Idle \in ExecType
      /\ exec[e].pc \notin {"idle", "check"} /\ ~exec[e].hand => exec[e].to <= window
  BY IdleTyped DEF TypeInv, TypeOK, ExecType, WithinWindows
<1>2. CASE BatchWrite(e)
  <2> DEFINE Put(m) == IF m = exec[e].newest THEN Latest ELSE m
  <2>1. PICK batch \in (SUBSET exec[e].todo) \ {{}} :
          /\ \E done \in IF Throttled THEN SUBSET batch ELSE {batch} :
               table' = [k \in Keys |->
                 IF \E m \in done : Put(m) = k
                 THEN LET m == CHOOSE x \in done : Put(x) = k
                      IN [origin |-> m, days |-> exec[e].items[m]]
                 ELSE table[k]]
          /\ Become(e, [exec[e] EXCEPT !.todo = @ \ batch])
    BY <1>2 DEF BatchWrite
  <2>2. PICK done \in IF Throttled THEN SUBSET batch ELSE {batch} :
          table' = [k \in Keys |->
            IF \E m \in done : Put(m) = k
            THEN LET m == CHOOSE x \in done : Put(x) = k
                 IN [origin |-> m, days |-> exec[e].items[m]]
            ELSE table[k]]
    BY <2>1
  <2>3. done \subseteq Months
    <3>1. done \subseteq batch
      BY <2>2
    <3> QED BY <1>1, <2>1, <3>1 DEF ExecType
  <2>4. \A m \in Months : [origin |-> m, days |-> exec[e].items[m]] \in Item
    BY <1>1 DEF ExecType, Item
  <2>5. ASSUME NEW k \in Keys PROVE table'[k] \in Item \union {NoItem}
    <3>1. CASE \E m \in done : Put(m) = k
      <4>1. PICK m \in done : table'[k] = [origin |-> m, days |-> exec[e].items[m]]
        BY <2>2, <3>1
      <4> QED BY <2>3, <2>4, <4>1
    <3>2. CASE ~ \E m \in done : Put(m) = k
      BY <2>2, <3>2 DEF TypeInv, TypeOK
    <3> QED BY <3>1, <3>2
  <2>6. table' \in [Keys -> Item \union {NoItem}]
    BY <2>2, <2>5
  <2> DEFINE r == [exec[e] EXCEPT !.todo = @ \ batch]
  <2>7. r \in ExecType /\ r.to = exec[e].to /\ r.hand = exec[e].hand /\ r.pc = exec[e].pc
    BY <1>1 DEF ExecType
  <2> QED BY <1>1, <1>2, <2>1, <2>6, <2>7, MovesOn DEF BatchWrite, TypeInv, TypeOK
<1>3. CASE StoreEnds(e)
  <2> DEFINE r == [Idle EXCEPT !.pc = "info", !.hand = exec[e].hand, !.to = exec[e].to,
                               !.at = exec[e].at]
  <2>1. r \in ExecType /\ r.to = exec[e].to /\ r.hand = exec[e].hand
    BY <1>1 DEF ExecType
  <2>2. Become(e, r) /\ exec[e].pc = "write"
    BY <1>3 DEF StoreEnds
  <2>3. /\ kept' \subseteq Days /\ covered' \subseteq Days /\ torn' \subseteq Days
        /\ found' \subseteq Days /\ table' \in [Keys -> Item \union {NoItem}]
        /\ fails' \in 0..MaxFails /\ UNCHANGED <<now, window, info, byHand>>
    BY <1>3 DEF StoreEnds, RangeOf, TypeInv, TypeOK
  <2> QED BY <1>1, <2>1, <2>2, <2>3, MovesOn
<1> QED BY <1>2, <1>3

LEMMA EndType ==
  ASSUME TypeInv, NEW e \in Executions, MergeThrows(e) \/ UpdateInfo(e) \/ ExecutionFails(e)
  PROVE  TypeInv'
<1>1. exec[e] \in ExecType /\ Idle \in ExecType /\ Idle.pc = "idle"
  BY IdleTyped DEF TypeInv, TypeOK, ExecType, Idle
<1>2. Become(e, Idle) /\ UNCHANGED <<now, window, byHand, table>>
  BY DEF MergeThrows, UpdateInfo, ExecutionFails
<1>3. exec' \in [Executions -> ExecType'] /\ WithinWindows'
  BY <1>1, <1>2, BecomeType
<1>4. info' \in [end : 0..window, at : -1..now]
  <2>1. CASE UNCHANGED info
    BY <2>1 DEF TypeInv, TypeOK
  <2>2. CASE UpdateInfo(e)
    <3>1. exec[e].hand \/ exec[e].to \in 0..window
      BY <1>1, <2>2, ScanAssumption
         DEF UpdateInfo, TypeInv, TypeOK, WithinWindows, ExecType, Days
    <3>2. exec[e].at \in -1..now
      BY <1>1, ScanAssumption DEF ExecType, TypeInv, TypeOK, Days
    <3> QED BY <2>2, <3>1, <3>2 DEF UpdateInfo, TypeInv, TypeOK
  <2> QED BY <2>1, <2>2 DEF MergeThrows, ExecutionFails
<1>5. found' \subseteq Days /\ torn' \subseteq Days /\ kept' \subseteq Days /\ covered' \subseteq Days
  BY DEF MergeThrows, UpdateInfo, ExecutionFails, TypeInv, TypeOK
<1>6. fails' \in 0..MaxFails
  BY ScanAssumption DEF MergeThrows, UpdateInfo, ExecutionFails, TypeInv, TypeOK
<1> QED BY <1>2, <1>3, <1>4, <1>5, <1>6 DEF TypeInv, TypeOK, ExecType

LEMMA TickType ==
  ASSUME TypeInv, Tick PROVE TypeInv'
<1>1. now \in Nat /\ now' = now + 1 /\ now' \in Days /\ window \in 0..now'
  BY ScanAssumption DEF Tick, TypeInv, TypeOK, Days
<1>2. exec \in [Executions -> ExecType']
  BY <1>1 DEF TypeInv, TypeOK, ExecType
<1>3. info \in [end : 0..window, at : -1..now']
  BY <1>1 DEF TypeInv, TypeOK
<1> QED BY <1>1, <1>2, <1>3 DEF Tick, TypeInv, TypeOK, ExecType, WithinWindows

LEMMA TypeInvariance == Spec => []TypeInv
<1>1. TypeInv /\ [Next]_vars => TypeInv'
  <2> SUFFICES ASSUME TypeInv, [Next]_vars PROVE TypeInv'
    OBVIOUS
  <2>1. CASE UNCHANGED vars
    BY <2>1 DEF vars, TypeInv, TypeOK, WithinWindows
  <2> QED BY <2>1, TickType, CheckType, ScanType, MergeType, StoreType, EndType DEF Next
<1> QED BY <1>1, InitTyped, PTL DEF Spec

\* The state keeps its types: the recorded end is within the windows that there are.
THEOREM ScanTypeCorrect == Spec => []TypeOK
BY TypeInvariance, PTL DEF TypeInv

-----------------------------------------------------------------------------
(* The days before the recorded end *)

\* A scheduled scan starts where one that was stored has ended.
CoverInv ==
  /\ DaysCovered
  /\ \A e \in Executions, d \in Days : ~exec[e].hand =>
       /\ exec[e].pc \in {"scan", "read", "merge", "write"} /\ d < exec[e].from => d \in covered
       /\ exec[e].pc = "info" /\ d < exec[e].to => d \in covered

LEMMA CoverStep ==
  ASSUME TypeInv, CoverInv, [Next]_vars PROVE CoverInv'
<1>1. exec \in [Executions -> ExecType] /\ \A d \in Days : d \in Int
  BY ScanAssumption DEF TypeInv, TypeOK, ExecType, Days
<1>2. covered \subseteq covered'
  BY DEF Next, vars, Tick, StartAfterLoad, StartByHand, CheckSkips, CheckContinues, CheckByHand,
         ScanMetadata, ReadExisting, Merge, MergeThrows, NoneFound, BatchWrite, StoreEnds,
         UpdateInfo, ExecutionFails
<1>3. ASSUME UNCHANGED exec, UNCHANGED info PROVE CoverInv'
  BY <1>2, <1>3 DEF CoverInv, DaysCovered
<1>4. ASSUME NEW e \in Executions, NEW r, Become(e, r), UNCHANGED info,
             ~r.hand => \/ r.pc \in {"idle", "check"}
                        \/ \A d \in Days :
                             /\ r.pc \in {"scan", "read", "merge", "write"} /\ d < r.from => d \in covered'
                             /\ r.pc = "info" /\ d < r.to => d \in covered'
      PROVE  CoverInv'
  <2>1. exec'[e] = r /\ \A x \in Executions \ {e} : exec'[x] = exec[x]
    BY <1>1, <1>4 DEF Become
  <2> QED BY <1>2, <1>4, <2>1 DEF CoverInv, DaysCovered
<1>5. ASSUME NEW e \in Executions,
             StartAfterLoad(e) \/ StartByHand(e) \/ CheckSkips(e) \/ CheckByHand(e)
                \/ MergeThrows(e) \/ ExecutionFails(e)
      PROVE  CoverInv'
  <2>1. CASE CheckByHand(e)
    BY <1>1, <1>4, <2>1 DEF CheckByHand, ExecType
  <2>2. Idle.pc = "idle" /\ [Idle EXCEPT !.pc = "check"].pc = "check"
    BY IdleTyped DEF TypeInv, ExecType, Idle
  <2>3. CASE StartByHand(e)
    <3>1. PICK from, to \in Days :
            Become(e, [Idle EXCEPT !.pc = "check", !.hand = TRUE, !.from = from, !.to = to])
      BY <2>3 DEF StartByHand
    <3>2. [Idle EXCEPT !.pc = "check", !.hand = TRUE, !.from = from, !.to = to].hand
      BY IdleTyped DEF TypeInv, ExecType
    <3> QED BY <1>4, <2>3, <3>1, <3>2 DEF StartByHand
  <2>4. CASE StartAfterLoad(e)
    BY <1>4, <2>2, <2>4 DEF StartAfterLoad
  <2>5. CASE CheckSkips(e) \/ MergeThrows(e) \/ ExecutionFails(e)
    BY <1>4, <2>2, <2>5 DEF CheckSkips, MergeThrows, ExecutionFails
  <2> QED BY <1>5, <2>1, <2>3, <2>4, <2>5
<1>6. ASSUME NEW e \in Executions, CheckContinues(e) PROVE CoverInv'
  <2> DEFINE r == [exec[e] EXCEPT !.pc = "scan", !.from = info.end, !.to = window', !.at = now]
  <2>1. r.pc = "scan" /\ r.from = info.end /\ Become(e, r) /\ UNCHANGED <<info, covered>>
    BY <1>1, <1>6 DEF CheckContinues, ExecType
  <2> HIDE DEF r
  <2> QED BY <1>4, <2>1 DEF CoverInv, DaysCovered
<1>7. ASSUME NEW e \in Executions, NEW r, Become(e, r), UNCHANGED <<info, covered>>,
             exec[e].pc \in {"scan", "read", "merge", "write"},
             r.pc \in {"scan", "read", "merge", "write"},
             r.hand = exec[e].hand, r.from = exec[e].from
      PROVE  CoverInv'
  BY <1>4, <1>7 DEF CoverInv
<1>8. ASSUME NEW e \in Executions, ScanMetadata(e) \/ NoneFound(e) PROVE CoverInv'
  BY <1>1, <1>7, <1>8 DEF ScanMetadata, NoneFound, ExecType
<1>9. ASSUME NEW e \in Executions, ReadExisting(e) \/ BatchWrite(e)
                \/ \E m \in Months : Merge(e, m)
      PROVE CoverInv'
  <2>1. CASE ReadExisting(e)
    <3>1. PICK todo, old, items :
            Become(e, [exec[e] EXCEPT !.pc = "merge", !.todo = todo, !.old = old, !.items = items])
      BY <2>1 DEF ReadExisting
    <3> DEFINE r == [exec[e] EXCEPT !.pc = "merge", !.todo = todo, !.old = old, !.items = items]
    <3>2. r.pc = "merge" /\ r.hand = exec[e].hand /\ r.from = exec[e].from
      BY <1>1 DEF ExecType
    <3>3. exec[e].pc = "read" /\ UNCHANGED <<info, covered>>
      BY <2>1 DEF ReadExisting
    <3>4. Become(e, r)
      BY <3>1
    <3> HIDE DEF r
    <3> QED BY <1>7, <3>2, <3>3, <3>4
  <2>2. CASE BatchWrite(e)
    <3>1. PICK todo : Become(e, [exec[e] EXCEPT !.todo = todo])
      BY <2>2 DEF BatchWrite
    <3> DEFINE r == [exec[e] EXCEPT !.todo = todo]
    <3>2. r.pc = exec[e].pc /\ r.hand = exec[e].hand /\ r.from = exec[e].from
      BY <1>1 DEF ExecType
    <3>3. exec[e].pc = "write" /\ UNCHANGED <<info, covered>>
      BY <2>2 DEF BatchWrite
    <3>4. Become(e, r)
      BY <3>1
    <3> HIDE DEF r
    <3> QED BY <1>7, <3>2, <3>3, <3>4
  <2>3. ASSUME NEW m \in Months, Merge(e, m) PROVE CoverInv'
    <3>1. PICK items, newest :
            Become(e, [exec[e] EXCEPT !.pc = "write", !.items = items, !.newest = newest])
      BY <2>3 DEF Merge
    <3> DEFINE r == [exec[e] EXCEPT !.pc = "write", !.items = items, !.newest = newest]
    <3>2. r.pc = "write" /\ r.hand = exec[e].hand /\ r.from = exec[e].from
      BY <1>1 DEF ExecType
    <3>3. exec[e].pc = "merge" /\ UNCHANGED <<info, covered>>
      BY <2>3 DEF Merge
    <3>4. Become(e, r)
      BY <3>1
    <3> HIDE DEF r
    <3> QED BY <1>7, <3>2, <3>3, <3>4
  <2> QED BY <1>9, <2>1, <2>2, <2>3
<1>10. ASSUME NEW e \in Executions, StoreEnds(e) PROVE CoverInv'
  <2> DEFINE r == [Idle EXCEPT !.pc = "info", !.hand = exec[e].hand, !.to = exec[e].to,
                               !.at = exec[e].at]
  <2>1. r.pc = "info" /\ r.hand = exec[e].hand /\ r.to = exec[e].to
    BY IdleTyped DEF TypeInv, ExecType
  <2>2. Become(e, r) /\ UNCHANGED info /\ exec[e].pc = "write"
        /\ (~exec[e].hand => covered' = covered \union RangeOf(e))
    BY <1>10 DEF StoreEnds
  <2>3. exec[e].from \in Int
    BY <1>1 DEF ExecType
  <2> HIDE DEF r
  <2>4. ASSUME NEW d \in Days, ~exec[e].hand, d < exec[e].to PROVE d \in covered'
    BY <1>1, <2>2, <2>3, <2>4 DEF CoverInv, RangeOf
  <2> QED BY <1>4, <2>1, <2>2, <2>4
<1>11. ASSUME NEW e \in Executions, UpdateInfo(e) PROVE CoverInv'
  <2>1. exec'[e] = Idle /\ Idle.pc = "idle" /\ \A x \in Executions \ {e} : exec'[x] = exec[x]
    BY <1>1, <1>11 DEF UpdateInfo, Become, Idle
  <2>2. DaysCovered'
    BY <1>11 DEF UpdateInfo, CoverInv, DaysCovered
  <2> QED BY <1>2, <2>1, <2>2 DEF CoverInv
<1> QED BY <1>3, <1>5, <1>6, <1>8, <1>9, <1>10, <1>11 DEF Next, Tick, vars

\* No day before the recorded end is outside of the ranges of the scheduled scans
\* that were stored, whatever fails, is skipped or is asked for by hand.
THEOREM RecordedDaysCovered == Spec => []DaysCovered
<1>1. Init => CoverInv
  BY DEF Init, CoverInv, DaysCovered, NoInfo, Idle, Days
<1>2. TypeInv /\ CoverInv /\ [Next]_vars => CoverInv'
  BY CoverStep
<1> QED BY <1>1, <1>2, TypeInvariance, PTL DEF Spec, CoverInv

-----------------------------------------------------------------------------
(* The items.  A month is read from its own key or, if it is the newest,     *)
(* from the latest.  A scan that fails half-way leaves months newer than the *)
(* latest item under their own keys, and the latest item under its own too,  *)
(* until a scan finds the newest of these months, or one after it, and moves *)
(* the latest item there.  Until then the copy under its own key may lack    *)
(* days that were stored: then only newer months are found (Beyond).         *)

Last == table[Latest].origin
Own(m) == table[m].origin = m

Active(e) == exec[e].pc \notin {"idle", "check"}

\* It has looked for the newest month.
Writing(e) == exec[e].pc = "write" /\ exec[e].newest # NoMonth

KeptOf(m) == {d \in kept : Month[d] = m}
MonthsFound == {Month[d] : d \in found}

\* One execution scans at a time; one asked for by hand, when no days are torn.
OneScan ==
  /\ \A e \in Executions :
       /\ exec[e].pc = "idle" => exec[e] = Idle
       /\ exec[e].hand => torn = {}
       /\ exec[e].pc \in {"check", "scan", "read", "merge"} => exec[e].newest = NoMonth
  /\ \A e, x \in Executions : (Active(e) \/ exec[e].hand) /\ Active(x) => e = x

\* A scheduled scan starts at the recorded end and goes as far as the windows do: what
\* is torn in its range is found again.
RangeInv(e) ==
  /\ Active(e) /\ ~exec[e].hand => \A d \in torn : d <= exec[e].to
  /\ exec[e].pc \in {"scan", "read", "merge", "write"} /\ ~exec[e].hand => exec[e].from = info.end
  /\ exec[e].pc \in {"read", "merge", "write"} =>
       /\ found \subseteq RangeOf(e)
       /\ torn \intersect RangeOf(e) \subseteq found
       /\ \A d \in found : d <= window

Ranges ==
  /\ \A d \in torn : d <= window
  /\ \A e \in Executions : RangeInv(e)

Clean == \A m \in Months : Own(m) => m < Last

\* The day w of the newest month of a scan that failed is still to be stored.
Left(w) ==
  /\ w \in torn
  /\ Last < Month[w]
  /\ \A m \in Months : Own(m) => m < Month[w]

\* Scans are past the days before w.
Beyond(w) ==
  \/ info.end >= w
  \/ \E e \in Executions : exec[e].pc = "info" /\ ~exec[e].hand /\ exec[e].to >= w

KeptInv ==
  /\ \A m \in Months : table[m] = NoItem \/ Own(m)
  /\ KeptOf(Last) \subseteq table[Latest].days
  /\ \A m \in Months \ {Last} : KeptOf(m) # {} => Own(m) /\ KeptOf(m) \subseteq table[m].days
  /\ Last \in Months /\ Own(Last) =>
       KeptOf(Last) \subseteq table[Last].days \/ \E w \in torn : Left(w) /\ Beyond(w)
  /\ \A m \in Months : Own(m) /\ m > Last =>
       /\ Last \in Months => Own(Last)
       /\ \/ \E t \in torn : Month[t] = m
          \/ m \in MonthsFound /\ \E e \in Executions : Writing(e)

TableBase == (\A e \in Executions : ~Writing(e)) => Clean \/ \E w \in torn : Left(w)

MergeInv(e) ==
  /\ exec[e].pc = "merge" =>
       /\ exec[e].todo = MonthsFound
       /\ exec[e].old = {m \in MonthsFound : Own(m) \/ m = Last}
       /\ \A m \in MonthsFound : KeptOf(m) \subseteq exec[e].items[m]
  /\ exec[e].pc = "write" /\ exec[e].newest = NoMonth => found = {} /\ exec[e].todo = {}

\* While the batches are written: what is in memory has the days stored before, and the
\* former latest item is under its own key before the new one takes its place.
WriteInv(e) ==
  LET n == exec[e].newest
  IN /\ exec[e].todo \subseteq MonthsFound
     /\ \A d \in found : d \in exec[e].items[Month[d]]
     /\ \A m \in MonthsFound : m <= n /\ KeptOf(m) \subseteq exec[e].items[m]
     /\ n \in MonthsFound \union {Last}
     /\ Last <= n
     /\ \A m \in MonthsFound \ exec[e].todo :
          table[IF m = n THEN Latest ELSE m] = [origin |-> m, days |-> exec[e].items[m]]
     /\ Last # n /\ Last \in Months =>
          \/ Last \in exec[e].todo \intersect exec[e].old /\ n \notin exec[e].old
          \/ Own(Last) /\ KeptOf(Last) \subseteq table[Last].days
     /\ \A m \in exec[e].old : Own(m) \/ m = Last
     /\ \A m \in Months : Own(m) => m <= n
     /\ Own(n) => \E w \in torn \ found : n < Month[w]

ItemsInv ==
  /\ OneScan /\ Ranges /\ KeptInv /\ TableBase
  /\ \A e \in Executions : MergeInv(e) /\ (Writing(e) => WriteInv(e))

\* Any number of failures, but not of the scan after one that failed half-way; nobody
\* asks for a scan next to another or after a failure; DynamoDB processes whole batches
\* and finds the item of every month; and events are of the days of the windows.
\* Without any one of these TLC finds a stored day that is lost.
Mild == ~FailsAgain /\ ~Careless /\ ~Throttled /\ ~Paged /\ ~EarlyEvents

-----------------------------------------------------------------------------
(* Months, keys and executions *)

LEMMA MonthFacts ==
  /\ Days \subseteq Nat /\ Months \subseteq Nat
  /\ \A d \in Days : Month[d] \in Months
  /\ \A c, d \in Days : c <= d => Month[c] <= Month[d]
  /\ Latest \notin Months /\ NoMonth \notin Months /\ Latest \in Keys /\ Months \subseteq Keys
  /\ \A m \in Months : NoMonth < m
<1>1. Days \subseteq Nat
  BY ScanAssumption DEF Days
<1>2. Months \subseteq Nat
  BY MonthType DEF Months
<1>3. \A d \in Days : Month[d] \in Months
  BY DEF Months
<1>4. ASSUME NEW c \in Days, NEW d \in Days, c <= d PROVE Month[c] <= Month[d]
  <2> DEFINE C == {f \in FirstDays : f <= c}
             D == {f \in FirstDays : f <= d}
  <2>1. C \subseteq D
    <3> SUFFICES ASSUME NEW f \in FirstDays, f <= c PROVE f <= d
      OBVIOUS
    <3>1. f \in Int /\ c \in Int /\ d \in Int
      BY <1>1, ScanAssumption
    <3> QED BY <1>4, <3>1
  <2>2. IsFiniteSet(D)
    BY FS_Subset, ScanAssumption
  <2>3. Cardinality(C) <= Cardinality(D)
    BY <2>1, <2>2, FS_Subset
  <2> QED BY <2>3 DEF Month
<1> QED BY <1>1, <1>2, <1>3, <1>4 DEF Latest, NoMonth, Keys

LEMMA ItemFacts ==
  ASSUME TypeInv, NEW k \in Keys
  PROVE  /\ table[k].origin \in Months \union {NoMonth}
         /\ table[k].days \subseteq Days
         /\ table[k] = NoItem <=> table[k].origin = NoMonth
         /\ table[k] = NoItem => table[k].days = {}
<1>1. table[k] \in Item \union {NoItem}
  BY DEF TypeInv, TypeOK
<1> QED BY <1>1, MonthFacts DEF Item, NoItem

\* The numbers among them.
LEMMA Numbers ==
  /\ \A d \in Days : d \in Int
  /\ \A m \in Months : m \in Int /\ NoMonth < m
  /\ NoMonth \in Int
  /\ TypeInv => Last \in Months \union {NoMonth} /\ Last \in Int
<1>1. /\ \A d \in Days : d \in Int
      /\ \A m \in Months : m \in Int
  BY MonthFacts
<1>2. NoMonth \in Int
  BY DEF NoMonth
<1>3. TypeInv => Last \in Months \union {NoMonth}
  BY ItemFacts, MonthFacts, Zenon DEF Last
<1> QED BY <1>1, <1>2, <1>3, MonthFacts

LEMMA ExecFacts ==
  ASSUME TypeInv, NEW e \in Executions
  PROVE  /\ exec[e] \in ExecType
         /\ exec[e].from \in Days /\ exec[e].to \in Days
         /\ exec[e].todo \subseteq Months /\ exec[e].old \subseteq Months
         /\ exec[e].newest \in Months \union {NoMonth}
         /\ exec[e].hand \in BOOLEAN
         /\ \A m \in Months : exec[e].items[m] \subseteq Days
         /\ found \subseteq Days /\ torn \subseteq Days /\ kept \subseteq Days
         /\ MonthsFound \subseteq Months
         /\ info.end \in Int /\ window \in Int
BY MonthFacts DEF TypeInv, TypeOK, ExecType, MonthsFound

\* While one scans the others are idle or have not started to.
LEMMA OthersWait ==
  ASSUME OneScan, NEW e \in Executions, Active(e), NEW x \in Executions \ {e}
  PROVE  ~Active(x) /\ ~exec[x].hand /\ ~Writing(x) /\ exec[x].pc \in {"idle", "check"}
BY DEF OneScan, Active, Writing

\* Once scans are past the days before w, they find newer months than the latest.
LEMMA NewerFound ==
  ASSUME TypeInv, ItemsInv, NEW e \in Executions, exec[e].pc \in {"read", "merge", "write"},
         NEW w \in torn, Left(w), Beyond(w), NEW d \in found
  PROVE  Month[d] # Last /\ Last < Month[d]
<1>1. /\ w \in Days /\ d \in Days /\ exec[e].from \in Days /\ exec[e].to \in Days
      /\ info.end \in Int
  BY ExecFacts
<1>2. ~exec[e].hand /\ exec[e].from = info.end /\ d \in RangeOf(e)
  BY DEF ItemsInv, OneScan, Ranges, RangeInv
<1>3. info.end >= w
  <2>1. ASSUME NEW x \in Executions, exec[x].pc = "info" PROVE FALSE
    BY <2>1, OthersWait DEF ItemsInv, Active
  <2> QED BY <2>1 DEF Beyond
<1>4. w <= d
  BY <1>1, <1>2, <1>3, MonthFacts DEF RangeOf
<1>5. Month[w] <= Month[d] /\ Month[w] \in Nat /\ Month[d] \in Nat
  BY <1>1, <1>4, MonthFacts
<1>6. Last \in Int
  BY Numbers
<1> QED BY <1>5, <1>6 DEF Left

\* The months under their own keys are not newer than the newest that is found.
LEMMA OwnBelow ==
  ASSUME TypeInv, ItemsInv, NEW e \in Executions, exec[e].pc = "merge",
         NEW d \in found, NEW m \in Months, Own(m)
  PROVE  \E y \in MonthsFound \union {Last} : m <= y
<1>1. Last \in Int /\ m \in Int
  BY Numbers
<1>2. CASE m <= Last
  BY <1>2
<1>3. CASE m > Last
  <2>1. \A x \in Executions : ~Writing(x)
    BY OthersWait DEF ItemsInv, Active, Writing
  <2>2. PICK w \in torn : Left(w)
    BY <1>1, <1>3, <2>1 DEF ItemsInv, TableBase, Clean
  <2>3. PICK t \in torn : Month[t] = m
    BY <1>3, <2>1 DEF ItemsInv, KeptInv
  <2>4. ~exec[e].hand /\ w <= exec[e].to
    BY DEF ItemsInv, OneScan, Ranges, RangeInv, Active
  <2>5. /\ w \in Days /\ t \in Days /\ d \in Days /\ exec[e].from \in Days /\ exec[e].to \in Days
    BY ExecFacts
  <2>0. /\ w \in Int /\ t \in Int /\ d \in Int /\ exec[e].from \in Int /\ exec[e].to \in Int
    BY <2>5, Numbers
  <2>6. t < w
    <3>1. Month[t] < Month[w] /\ Month[w] \in Nat /\ Month[t] \in Nat
      BY <2>2, <2>3, <2>5, MonthFacts DEF Left
    <3> QED BY <2>5, <3>1, MonthFacts
  <2>7. CASE exec[e].from <= t
    <3>1. t \in RangeOf(e)
      BY <2>0, <2>4, <2>5, <2>6, <2>7 DEF RangeOf
    <3>2. t \in found
      BY <3>1 DEF ItemsInv, Ranges, RangeInv
    <3> QED BY <1>1, <2>3, <3>2 DEF MonthsFound
  <2>8. CASE t < exec[e].from
    <3>1. d \in RangeOf(e)
      BY DEF ItemsInv, Ranges, RangeInv
    <3>2. t <= d
      BY <2>0, <2>8, <3>1 DEF RangeOf
    <3> QED BY <2>3, <2>5, <3>2, MonthFacts DEF MonthsFound
  <2> QED BY <2>0, <2>7, <2>8
<1> QED BY <1>1, <1>2, <1>3

LEMMA Moved ==
  ASSUME TypeInv, NEW e \in Executions, NEW r, Become(e, r)
  PROVE  exec'[e] = r /\ \A x \in Executions \ {e} : exec'[x] = exec[x]
BY DEF Become, TypeInv, TypeOK

-----------------------------------------------------------------------------
(* Steps before a scan *)

\* An execution that has not begun to scan changes nothing.
LEMMA Waits ==
  ASSUME TypeInv, ItemsInv, NEW e \in Executions, NEW r, Become(e, r),
         ~Active(e), r.pc \in {"idle", "check"},
         r.newest = NoMonth, r.pc = "idle" => r = Idle,
         r.hand => torn = {} /\ \A x \in Executions \ {e} : ~Active(x),
         UNCHANGED <<window, found, table, info, kept, torn>>
  PROVE  ItemsInv'
<1>1. exec'[e] = r /\ \A x \in Executions \ {e} : exec'[x] = exec[x]
  BY Moved
<1>2. \A x \in Executions : (Active(x) <=> Active(x)') /\ (Writing(x) <=> Writing(x)')
  BY <1>1 DEF Active, Writing
<1>3. OneScan'
  <2>1. \A x \in Executions : /\ exec'[x].pc = "idle" => exec'[x] = Idle
                              /\ exec'[x].hand => torn' = {}
                              /\ exec'[x].pc \in {"check", "scan", "read", "merge"} =>
                                   exec'[x].newest = NoMonth
    BY <1>1 DEF ItemsInv, OneScan
  <2>2. \A x, y \in Executions : (Active(x)' \/ exec'[x].hand) /\ Active(y)' => x = y
    BY <1>1, <1>2 DEF ItemsInv, OneScan
  <2> QED BY <2>1, <2>2 DEF OneScan, Active
<1>4. ASSUME NEW x \in Executions
      PROVE  RangeInv(x)' /\ MergeInv(x)' /\ (Writing(x)' => WriteInv(x)')
  <2>1. CASE x = e
    BY <1>1, <2>1 DEF RangeInv, MergeInv, Active, Writing
  <2>2. CASE x # e
    <3>1. RangeInv(x) /\ MergeInv(x) /\ (Writing(x) => WriteInv(x))
      BY DEF ItemsInv, Ranges
    <3>2. exec'[x] = exec[x]
      BY <1>1, <2>2
    <3>3. RangeInv(x)'
      BY <3>1, <3>2 DEF RangeInv, Active, RangeOf
    <3>4. MergeInv(x)'
      BY <3>1, <3>2 DEF MergeInv, MonthsFound, Own, Last, KeptOf
    <3>5. Writing(x)' => WriteInv(x)'
      BY <1>2, <3>1, <3>2 DEF WriteInv, MonthsFound, Own, Last, KeptOf
    <3> QED BY <3>3, <3>4, <3>5
  <2> QED BY <2>1, <2>2
<1>5. Ranges'
  BY <1>4 DEF ItemsInv, Ranges
<1>6. \A w \in torn : (Left(w) => Left(w)') /\ (Beyond(w) => Beyond(w)')
  BY <1>1 DEF Left, Beyond, Own, Last, Active
<1>7. KeptInv'
  BY <1>2, <1>6 DEF ItemsInv, KeptInv, Own, Last, KeptOf, MonthsFound
<1>8. TableBase'
  BY <1>2, <1>6 DEF ItemsInv, TableBase, Clean, Own, Last
<1> QED BY <1>3, <1>4, <1>5, <1>7, <1>8 DEF ItemsInv

LEMMA TickItems ==
  ASSUME ItemsInv, Tick PROVE ItemsInv'
<1>1. UNCHANGED <<window, found, table, info, exec, fails, kept, torn>>
  BY DEF Tick
<1>2. OneScan'
  BY <1>1 DEF ItemsInv, OneScan, Active
<1>3. Ranges'
  BY <1>1 DEF ItemsInv, Ranges, RangeInv, Active, RangeOf
<1>4. KeptInv'
  BY <1>1 DEF ItemsInv, KeptInv, Own, Last, KeptOf, MonthsFound, Left, Beyond, Writing
<1>5. TableBase'
  BY <1>1 DEF ItemsInv, TableBase, Clean, Own, Last, Left, Writing
<1>6. ASSUME NEW e \in Executions PROVE MergeInv(e)' /\ (Writing(e)' => WriteInv(e)')
  BY <1>1 DEF ItemsInv, MergeInv, WriteInv, Writing, MonthsFound, Own, Last, KeptOf
<1> QED BY <1>2, <1>3, <1>4, <1>5, <1>6 DEF ItemsInv

\* A step of the only execution that scans.
LEMMA Alone ==
  ASSUME TypeInv, ItemsInv, NEW e \in Executions, NEW r, Become(e, r),
         \A x \in Executions \ {e} : ~exec[x].hand /\ exec[x].pc \in {"idle", "check"},
         r.pc = "idle" => r = Idle,
         r.hand => torn' = {},
         r.pc \in {"check", "scan", "read", "merge"} => r.newest = NoMonth
  PROVE  /\ exec'[e] = r
         /\ OneScan'
         /\ \A x \in Executions : Writing(x) => x = e
         /\ \A x \in Executions : Writing(x)' => x = e
         /\ \A x \in Executions : exec[x].pc = "info" \/ exec'[x].pc = "info" => x = e
         /\ \A x \in Executions \ {e} : RangeInv(x)' /\ MergeInv(x)'
<1>1. exec'[e] = r /\ \A x \in Executions \ {e} : exec'[x] = exec[x]
  BY Moved
<1>2. \A x \in Executions \ {e} : ~Active(x) /\ ~Active(x)' /\ ~Writing(x) /\ ~Writing(x)' /\ ~exec'[x].hand
  BY <1>1 DEF Active, Writing
<1>3. OneScan'
  <2>1. \A x \in Executions : /\ exec'[x].pc = "idle" => exec'[x] = Idle
                              /\ exec'[x].hand => torn' = {}
                              /\ exec'[x].pc \in {"check", "scan", "read", "merge"} =>
                                   exec'[x].newest = NoMonth
    BY <1>1, <1>2 DEF ItemsInv, OneScan
  <2>2. \A x, y \in Executions : (Active(x)' \/ exec'[x].hand) /\ Active(y)' => x = y
    BY <1>2
  <2> QED BY <2>1, <2>2 DEF OneScan, Active
<1>4. \A x \in Executions \ {e} : RangeInv(x)' /\ MergeInv(x)'
  BY <1>1 DEF RangeInv, MergeInv, Active
<1>5. \A x \in Executions : exec[x].pc = "info" \/ exec'[x].pc = "info" => x = e
  BY <1>1
<1> QED BY <1>1, <1>2, <1>3, <1>4, <1>5

\* What is known of the items stays while they stay.
LEMMA KeptStays ==
  ASSUME TypeInv, ItemsInv, UNCHANGED <<table, kept>>, torn \subseteq torn',
         \A w \in torn : Left(w) /\ Beyond(w) => Left(w)' /\ Beyond(w)',
         ASSUME NEW x \in Executions, Writing(x), NEW m \in MonthsFound
         PROVE  \E t \in torn' : Month[t] = m
  PROVE  KeptInv'
<1>1. \A m \in Months : (Own(m) <=> Own(m)') /\ KeptOf(m) = KeptOf(m)'
  BY DEF Own, KeptOf
<1>2. Last = Last' /\ KeptOf(Last) = KeptOf(Last)'
  BY DEF Last, KeptOf
<1>3. \A m \in Months : Own(m)' /\ m > Last' =>
        /\ Last' \in Months => Own(Last)
        /\ \E t \in torn' : Month[t] = m
  BY <1>1, <1>2 DEF ItemsInv, KeptInv
<1>4. Last' \in Months /\ Own(Last)' =>
        KeptOf(Last) \subseteq table'[Last'].days \/ \E w \in torn' : Left(w)' /\ Beyond(w)'
  <2>1. Own(Last) <=> Own(Last)'
    BY <1>2 DEF Own
  <2> QED BY <1>2, <2>1 DEF ItemsInv, KeptInv
<1>5. Own(Last) => Own(Last)'
  BY <1>2 DEF Own
<1> QED BY <1>1, <1>2, <1>3, <1>4, <1>5 DEF ItemsInv, KeptInv

LEMMA Base ==
  ASSUME TypeInv, ItemsInv, UNCHANGED table,
         \A x \in Executions : ~Writing(x),
         \A w \in torn : Left(w) => Left(w)' /\ w \in torn'
  PROVE  TableBase'
BY DEF ItemsInv, TableBase, Clean, Own, Last

LEMMA StartItems ==
  ASSUME TypeInv, Mild, ItemsInv, NEW e \in Executions,
         StartAfterLoad(e) \/ StartByHand(e) \/ CheckSkips(e)
  PROVE  ItemsInv'
<1>0. /\ Idle.pc = "idle" /\ Idle.newest = NoMonth /\ Idle.hand = FALSE
      /\ \A x \in Executions : exec[x] = Idle => ~Active(x)
  BY DEF Idle, Active
<1>1. CASE StartAfterLoad(e)
  <2> DEFINE r == [Idle EXCEPT !.pc = "check"]
  <2>1. r.pc = "check" /\ r.newest = NoMonth /\ r.hand = FALSE
    BY DEF Idle
  <2>2. Become(e, r) /\ UNCHANGED <<window, found, table, info, kept, torn, fails>> /\ ~Active(e)
    BY <1>0, <1>1 DEF StartAfterLoad
  <2> HIDE DEF r
  <2> QED BY <2>1, <2>2, Waits
<1>2. CASE StartByHand(e)
  <2>0. PICK from, to \in Days :
          Become(e, [Idle EXCEPT !.pc = "check", !.hand = TRUE, !.from = from, !.to = to])
    BY <1>2 DEF StartByHand
  <2> DEFINE r == [Idle EXCEPT !.pc = "check", !.hand = TRUE, !.from = from, !.to = to]
  <2>1. r.pc = "check" /\ r.newest = NoMonth
    BY DEF Idle
  <2>2. Become(e, r) /\ UNCHANGED <<window, found, table, info, kept, torn, fails>> /\ ~Active(e)
    BY <1>0, <1>2, <2>0 DEF StartByHand
  <2>3. torn = {} /\ \A x \in Executions : ~Active(x)
    BY <1>0, <1>2 DEF StartByHand, Mild
  <2> HIDE DEF r
  <2> QED BY <2>1, <2>2, <2>3, Waits
<1>3. CASE CheckSkips(e)
  <2>1. Become(e, Idle) /\ UNCHANGED <<window, found, table, info, kept, torn, fails>> /\ ~Active(e)
    BY <1>3 DEF CheckSkips, Active
  <2> QED BY <1>0, <2>1, Waits
<1> QED BY <1>1, <1>2, <1>3

LEMMA CheckItems ==
  ASSUME TypeInv, Mild, ItemsInv, NEW e \in Executions, CheckContinues(e) \/ CheckByHand(e)
  PROVE  ItemsInv'
<1>1. /\ \A x \in Executions \ {e} : exec[x] = Idle
      /\ exec[e].pc = "check" /\ UNCHANGED <<found, table, info, kept, torn, fails>>
      /\ window' \in Int /\ window <= window' /\ window \in Int
  <2>1. window \in 0..now /\ now \in Int
    BY Numbers DEF TypeInv, TypeOK
  <2> QED BY <2>1 DEF CheckContinues, CheckByHand, OthersRunning
<1>2. exec[e].newest = NoMonth /\ (exec[e].hand => torn = {}) /\ exec[e].hand \in BOOLEAN
  BY <1>1, ExecFacts DEF ItemsInv, OneScan
<1>3. PICK r : /\ Become(e, r) /\ r.pc = "scan" /\ r.hand = exec[e].hand /\ r.newest = NoMonth
               /\ ~r.hand => r.from = info.end /\ r.to = window'
  <2>1. exec[e] \in ExecType
    BY ExecFacts
  <2>2. CASE CheckContinues(e)
    <3> DEFINE r == [exec[e] EXCEPT !.pc = "scan", !.from = info.end, !.to = window', !.at = now]
    <3>1. Become(e, r) /\ r.pc = "scan" /\ r.hand = exec[e].hand /\ r.newest = exec[e].newest
          /\ r.from = info.end /\ r.to = window'
      BY <2>1, <2>2 DEF CheckContinues, ExecType
    <3> HIDE DEF r
    <3> QED BY <1>2, <3>1
  <2>3. CASE CheckByHand(e)
    <3> DEFINE r == [exec[e] EXCEPT !.pc = "scan", !.to = IF @ < now THEN @ ELSE now]
    <3>1. Become(e, r) /\ r.pc = "scan" /\ r.hand = exec[e].hand /\ r.newest = exec[e].newest /\ exec[e].hand
      BY <2>1, <2>3 DEF CheckByHand, ExecType
    <3> HIDE DEF r
    <3> QED BY <1>2, <3>1
  <2> QED BY <2>2, <2>3
<1>4. \A x \in Executions \ {e} : ~exec[x].hand /\ exec[x].pc \in {"idle", "check"}
  BY <1>1 DEF Idle
<1>5. /\ exec'[e] = r
      /\ OneScan'
      /\ \A x \in Executions : Writing(x) => x = e
      /\ \A x \in Executions : Writing(x)' => x = e
      /\ \A x \in Executions : exec[x].pc = "info" \/ exec'[x].pc = "info" => x = e
      /\ \A x \in Executions \ {e} : RangeInv(x)' /\ MergeInv(x)'
  BY <1>1, <1>2, <1>3, <1>4, Alone
<1>6. ~Writing(e) /\ ~Writing(e)' /\ MergeInv(e)'
  BY <1>1, <1>3, <1>5 DEF Writing, MergeInv
<1>7. Ranges'
  <2>1. \A d \in torn' : d <= window'
    <3>1. \A d \in torn : d \in Int /\ d <= window
      BY ExecFacts, Numbers DEF ItemsInv, Ranges
    <3> QED BY <1>1, <3>1
  <2>2. RangeInv(e)'
    BY <1>1, <1>3, <1>5, <2>1 DEF RangeInv, Active
  <2> QED BY <1>5, <2>1, <2>2 DEF Ranges
<1>8. \A w \in torn : (Left(w) => Left(w)') /\ (Beyond(w) => Beyond(w)')
  <2>1. \A w \in torn : Left(w) => Left(w)'
    BY <1>1 DEF Left, Last, Own
  <2>2. \A w \in torn : Beyond(w) => Beyond(w)'
    BY <1>1, <1>4 DEF Beyond
  <2> QED BY <2>1, <2>2
<1>9. KeptInv'
  BY <1>1, <1>5, <1>6, <1>8, KeptStays
<1>10. TableBase'
  BY <1>1, <1>5, <1>6, <1>8, Base
<1> QED BY <1>5, <1>6, <1>7, <1>9, <1>10 DEF ItemsInv

LEMMA ScanItems ==
  ASSUME TypeInv, Mild, ItemsInv, NEW e \in Executions, ScanMetadata(e)
  PROVE  ItemsInv'
<1> DEFINE r == [exec[e] EXCEPT !.pc = "read"]
<1>1. /\ exec[e].pc = "scan" /\ Become(e, r) /\ UNCHANGED <<table, info, kept, torn, fails>>
      /\ window' \in Int /\ window <= window' /\ window \in Int
  <2>1. window \in 0..now /\ now \in Int
    BY Numbers DEF TypeInv, TypeOK
  <2> QED BY <2>1 DEF ScanMetadata
<1>2. /\ r.pc = "read" /\ r.hand = exec[e].hand /\ r.newest = exec[e].newest
      /\ r.from = exec[e].from /\ r.to = exec[e].to
  BY ExecFacts DEF ExecType
<1>3. /\ found' \subseteq RangeOf(e) /\ torn \intersect RangeOf(e) \subseteq found'
      /\ \A d \in found' : d <= window'
  BY DEF ScanMetadata, Mild
<1> HIDE DEF r
<1>4. /\ exec[e].newest = NoMonth /\ (exec[e].hand => torn = {})
      /\ \A x \in Executions \ {e} : ~exec[x].hand /\ exec[x].pc \in {"idle", "check"}
  BY <1>1, OthersWait DEF ItemsInv, OneScan, Active
<1>5. /\ exec'[e] = r
      /\ OneScan'
      /\ \A x \in Executions : Writing(x) => x = e
      /\ \A x \in Executions : Writing(x)' => x = e
      /\ \A x \in Executions : exec[x].pc = "info" \/ exec'[x].pc = "info" => x = e
      /\ \A x \in Executions \ {e} : RangeInv(x)' /\ MergeInv(x)'
  BY <1>1, <1>2, <1>4, Alone
<1>6. ~Writing(e) /\ ~Writing(e)' /\ MergeInv(e)'
  BY <1>1, <1>2, <1>5 DEF Writing, MergeInv
<1>7. Ranges'
  <2>1. \A d \in torn' : d <= window'
    <3>1. \A d \in torn : d \in Int /\ d <= window
      BY ExecFacts, Numbers DEF ItemsInv, Ranges
    <3> QED BY <1>1, <3>1
  <2>2. RangeInv(e)'
    <3>1. RangeOf(e)' = RangeOf(e)
      BY <1>2, <1>5 DEF RangeOf
    <3>2. RangeInv(e)
      BY DEF ItemsInv, Ranges
    <3> QED BY <1>1, <1>2, <1>3, <1>5, <3>1, <3>2 DEF RangeInv, Active
  <2> QED BY <1>5, <2>1, <2>2 DEF Ranges
<1>8. \A w \in torn : (Left(w) => Left(w)') /\ (Beyond(w) => Beyond(w)')
  <2>1. \A w \in torn : Left(w) => Left(w)'
    BY <1>1 DEF Left, Last, Own
  <2>2. \A w \in torn : Beyond(w) => Beyond(w)'
    BY <1>1, <1>5 DEF Beyond
  <2> QED BY <2>1, <2>2
<1>9. KeptInv'
  BY <1>1, <1>5, <1>6, <1>8, KeptStays
<1>10. TableBase'
  BY <1>1, <1>5, <1>6, <1>8, Base
<1> QED BY <1>5, <1>6, <1>7, <1>9, <1>10 DEF ItemsInv

-----------------------------------------------------------------------------
(* Steps of a scan that leave the items alone *)

LEMMA ReadItems ==
  ASSUME TypeInv, Mild, ItemsInv, NEW e \in Executions, ReadExisting(e)
  PROVE  ItemsInv'
<1> DEFINE old == {m \in MonthsFound : table[KeyOf(m)].origin = m}
           it == [m \in Months |-> IF m \in old THEN table[KeyOf(m)].days ELSE {}]
           r == [exec[e] EXCEPT !.pc = "merge", !.todo = MonthsFound, !.old = old, !.items = it]
<1>1. exec[e].pc = "read" /\ UNCHANGED <<window, found, table, info, kept, torn, fails>>
  BY DEF ReadExisting
<1>0. Become(e, r)
  BY DEF ReadExisting, MonthsFound, Mild
<1>2. /\ r.pc = "merge" /\ r.hand = exec[e].hand /\ r.newest = exec[e].newest
      /\ r.from = exec[e].from /\ r.to = exec[e].to
      /\ r.todo = MonthsFound /\ r.old = old /\ r.items = it
  <2> HIDE DEF old, it
  <2> QED BY ExecFacts DEF ExecType
<1>3. old = {m \in MonthsFound : Own(m) \/ m = Last}
  BY ExecFacts DEF KeyOf, Own, Last
<1>4. ASSUME NEW m \in MonthsFound PROVE KeptOf(m) \subseteq it[m]
  <2>1. m \in Months /\ it[m] = IF m \in old THEN table[KeyOf(m)].days ELSE {}
    BY ExecFacts
  <2>2. KeptInv
    BY DEF ItemsInv
  <2>3. CASE m # Last
    <3>1. CASE KeptOf(m) = {}
      BY <3>1
    <3>2. CASE KeptOf(m) # {}
      <4>1. Own(m) /\ KeptOf(m) \subseteq table[m].days
        BY <2>1, <2>2, <2>3, <3>2 DEF KeptInv
      <4>2. m \in old /\ KeyOf(m) = m
        BY <1>3, <4>1 DEF KeyOf, Own
      <4> QED BY <2>1, <4>1, <4>2
    <3> QED BY <3>1, <3>2
  <2>4. CASE m = Last /\ ~Own(m)
    <3>1. m \in old /\ KeyOf(m) = Latest
      BY <1>3, <2>4 DEF KeyOf, Own
    <3> QED BY <2>1, <2>2, <2>4, <3>1 DEF KeptInv
  <2>5. CASE m = Last /\ Own(m)
    <3>1. m \in old /\ KeyOf(m) = m
      BY <1>3, <2>5 DEF KeyOf, Own
    <3>2. ASSUME NEW w \in torn, Left(w), Beyond(w) PROVE FALSE
      <4>1. PICK d \in found : Month[d] = Last
        BY <2>5 DEF MonthsFound
      <4> QED BY <1>1, <3>2, <4>1, NewerFound
    <3>3. KeptOf(Last) \subseteq table[Last].days
      BY <2>1, <2>2, <2>5, <3>2 DEF KeptInv
    <3> QED BY <2>1, <2>5, <3>1, <3>3
  <2> QED BY <2>3, <2>4, <2>5
<1> HIDE DEF old, it, r
<1>5. /\ exec[e].newest = NoMonth /\ (exec[e].hand => torn = {})
      /\ \A x \in Executions \ {e} : ~exec[x].hand /\ exec[x].pc \in {"idle", "check"}
  BY <1>1, OthersWait DEF ItemsInv, OneScan, Active
<1>6. /\ exec'[e] = r
      /\ OneScan'
      /\ \A x \in Executions : Writing(x) => x = e
      /\ \A x \in Executions : Writing(x)' => x = e
      /\ \A x \in Executions : exec[x].pc = "info" \/ exec'[x].pc = "info" => x = e
      /\ \A x \in Executions \ {e} : RangeInv(x)' /\ MergeInv(x)'
  BY <1>0, <1>1, <1>2, <1>5, Alone
<1>7. ~Writing(e) /\ ~Writing(e)'
  BY <1>1, <1>2, <1>6 DEF Writing
<1>8. MergeInv(e)'
  <2>1. MonthsFound' = MonthsFound /\ Last' = Last
        /\ \A m \in MonthsFound : (Own(m)' <=> Own(m)) /\ KeptOf(m)' = KeptOf(m)
    BY <1>1 DEF MonthsFound, Last, Own, KeptOf
  <2>2. old = {m \in MonthsFound' : Own(m)' \/ m = Last'}
    BY <1>3, <2>1
  <2>3. \A m \in MonthsFound' : KeptOf(m)' \subseteq it[m]
    BY <1>4, <2>1
  <2> QED BY <1>2, <1>6, <2>1, <2>2, <2>3 DEF MergeInv
<1>9. Ranges'
  <2>1. RangeOf(e)' = RangeOf(e)
    BY <1>2, <1>6 DEF RangeOf
  <2>2. RangeInv(e)'
    BY <1>1, <1>2, <1>6, <2>1 DEF ItemsInv, Ranges, RangeInv, Active
  <2> QED BY <1>1, <1>6, <2>2 DEF ItemsInv, Ranges
<1>10. \A w \in torn : (Left(w) => Left(w)') /\ (Beyond(w) => Beyond(w)')
  <2>1. \A w \in torn : Left(w) => Left(w)'
    BY <1>1 DEF Left, Last, Own
  <2>2. \A w \in torn : Beyond(w) => Beyond(w)'
    BY <1>1, <1>6 DEF Beyond
  <2> QED BY <2>1, <2>2
<1>11. KeptInv'
  BY <1>1, <1>6, <1>7, <1>10, KeptStays
<1>12. TableBase'
  BY <1>1, <1>6, <1>7, <1>10, Base
<1> QED BY <1>6, <1>7, <1>8, <1>9, <1>11, <1>12 DEF ItemsInv

LEMMA NoneItems ==
  ASSUME TypeInv, ItemsInv, NEW e \in Executions, NoneFound(e)
  PROVE  ItemsInv'
<1> DEFINE r == [exec[e] EXCEPT !.pc = "write"]
<1>1. /\ exec[e].pc = "merge" /\ exec[e].todo = {} /\ Become(e, r)
      /\ UNCHANGED <<window, found, table, info, kept, torn, fails>>
  BY DEF NoneFound
<1>2. /\ r.pc = "write" /\ r.hand = exec[e].hand /\ r.newest = exec[e].newest
      /\ r.from = exec[e].from /\ r.to = exec[e].to /\ r.todo = exec[e].todo
  BY ExecFacts DEF ExecType
<1> HIDE DEF r
<1>3. found = {}
  BY <1>1 DEF ItemsInv, MergeInv, MonthsFound
<1>4. /\ exec[e].newest = NoMonth /\ (exec[e].hand => torn = {})
      /\ \A x \in Executions \ {e} : ~exec[x].hand /\ exec[x].pc \in {"idle", "check"}
  BY <1>1, OthersWait DEF ItemsInv, OneScan, Active
<1>5. /\ exec'[e] = r
      /\ OneScan'
      /\ \A x \in Executions : Writing(x) => x = e
      /\ \A x \in Executions : Writing(x)' => x = e
      /\ \A x \in Executions : exec[x].pc = "info" \/ exec'[x].pc = "info" => x = e
      /\ \A x \in Executions \ {e} : RangeInv(x)' /\ MergeInv(x)'
  BY <1>1, <1>2, <1>4, Alone
<1>6. ~Writing(e) /\ ~Writing(e)' /\ MergeInv(e)'
  BY <1>1, <1>2, <1>3, <1>4, <1>5 DEF Writing, MergeInv
<1>7. Ranges'
  <2>1. RangeOf(e)' = RangeOf(e)
    BY <1>2, <1>5 DEF RangeOf
  <2>2. RangeInv(e)'
    BY <1>1, <1>2, <1>5, <2>1 DEF ItemsInv, Ranges, RangeInv, Active
  <2> QED BY <1>1, <1>5, <2>2 DEF ItemsInv, Ranges
<1>8. \A w \in torn : (Left(w) => Left(w)') /\ (Beyond(w) => Beyond(w)')
  <2>1. \A w \in torn : Left(w) => Left(w)'
    BY <1>1 DEF Left, Last, Own
  <2>2. \A w \in torn : Beyond(w) => Beyond(w)'
    BY <1>1, <1>5 DEF Beyond
  <2> QED BY <2>1, <2>2
<1>9. KeptInv'
  BY <1>1, <1>5, <1>6, <1>8, KeptStays
<1>10. TableBase'
  BY <1>1, <1>5, <1>6, <1>8, Base
<1> QED BY <1>5, <1>6, <1>7, <1>9, <1>10 DEF ItemsInv

\* The end of the execution that scans.
LEMMA Ends ==
  ASSUME TypeInv, ItemsInv, NEW e \in Executions, Become(e, Idle), Active(e),
         UNCHANGED <<window, table, kept>>, torn \subseteq torn', \A d \in torn' : d <= window,
         \A w \in torn : Left(w) => Left(w)' /\ (Beyond(w) => Beyond(w)'),
         Writing(e) => found \subseteq torn',
         TableBase'
  PROVE  ItemsInv'
<1>1. Idle.pc = "idle" /\ Idle.hand = FALSE
  BY DEF Idle
<1>2. \A x \in Executions \ {e} : ~exec[x].hand /\ exec[x].pc \in {"idle", "check"}
  BY OthersWait DEF ItemsInv
<1>3. /\ exec'[e] = Idle
      /\ OneScan'
      /\ \A x \in Executions : Writing(x) => x = e
      /\ \A x \in Executions : Writing(x)' => x = e
      /\ \A x \in Executions \ {e} : RangeInv(x)' /\ MergeInv(x)'
  BY <1>1, <1>2, Alone
<1>4. ~Writing(e)' /\ MergeInv(e)' /\ RangeInv(e)'
  BY <1>1, <1>3 DEF Writing, MergeInv, RangeInv, Active
<1>5. Ranges'
  BY <1>3, <1>4 DEF Ranges
<1>6. KeptInv'
  <2>1. ASSUME NEW x \in Executions, Writing(x), NEW m \in MonthsFound
        PROVE  \E t \in torn' : Month[t] = m
    BY <1>3, <2>1 DEF MonthsFound
  <2> QED BY <2>1, KeptStays
<1> QED BY <1>3, <1>4, <1>5, <1>6 DEF ItemsInv

LEMMA UpdateItems ==
  ASSUME TypeInv, ItemsInv, NEW e \in Executions, UpdateInfo(e)
  PROVE  ItemsInv'
<1>1. /\ exec[e].pc = "info" /\ Become(e, Idle) /\ Active(e) /\ ~Writing(e)
      /\ UNCHANGED <<window, found, table, kept, torn, fails>>
      /\ info' = IF exec[e].hand THEN info ELSE [end |-> exec[e].to, at |-> exec[e].at]
  BY DEF UpdateInfo, Active, Writing
<1>2. \A x \in Executions : ~Writing(x) /\ (exec[x].pc = "info" => x = e)
  BY <1>1, OthersWait DEF ItemsInv, Active
<1>3. \A w \in torn : Left(w) => Left(w)'
  BY <1>1 DEF Left, Last, Own
<1>4. ASSUME NEW w \in torn, Beyond(w) PROVE Beyond(w)'
  <2>1. CASE exec[e].hand
    <3>1. info' = info /\ info.end >= w
      BY <1>1, <1>2, <1>4, <2>1 DEF Beyond
    <3> QED BY <3>1 DEF Beyond
  <2>2. CASE ~exec[e].hand
    <3>1. w <= exec[e].to
      BY <1>1, <2>2 DEF ItemsInv, Ranges, RangeInv
    <3>2. info'.end = exec[e].to
      BY <1>1, <2>2
    <3>3. w \in Int /\ exec[e].to \in Int
      BY ExecFacts, Numbers
    <3> QED BY <3>1, <3>2, <3>3 DEF Beyond
  <2> QED BY <2>1, <2>2
<1>5. TableBase'
  BY <1>1, <1>2, <1>3, Base
<1>6. \A d \in torn' : d <= window
  BY <1>1 DEF ItemsInv, Ranges
<1> QED BY <1>1, <1>3, <1>4, <1>5, <1>6, Ends

LEMMA ThrowItems ==
  ASSUME TypeInv, ItemsInv, NEW e \in Executions, MergeThrows(e)
  PROVE  ItemsInv'
<1>1. /\ exec[e].pc = "merge" /\ Become(e, Idle) /\ Active(e) /\ ~Writing(e)
      /\ UNCHANGED <<window, table, info, kept, torn>>
  BY DEF MergeThrows, Active, Writing
<1>2. \A x \in Executions : ~Writing(x) /\ exec[x].pc # "info"
  BY <1>1, OthersWait DEF ItemsInv, Active
<1>3. \A w \in torn : Left(w) => Left(w)' /\ w \in torn'
  BY <1>1 DEF Left, Last, Own
<1>4. \A w \in torn : Beyond(w) => Beyond(w)'
  BY <1>1, <1>2 DEF Beyond
<1>5. TableBase'
  BY <1>1, <1>2, <1>3, Base
<1>6. \A d \in torn' : d <= window
  BY <1>1 DEF ItemsInv, Ranges, RangeInv
<1> QED BY <1>1, <1>3, <1>4, <1>5, <1>6, Ends

LEMMA FailItems ==
  ASSUME TypeInv, Mild, ItemsInv, NEW e \in Executions, ExecutionFails(e)
  PROVE  ItemsInv'
<1>1. torn = {}
  BY DEF Mild, ExecutionFails
<1>2. Become(e, Idle) /\ UNCHANGED <<window, table, info, kept>>
  BY DEF ExecutionFails
<1>3. \A w \in torn : ~Left(w)
  BY <1>1 DEF Left
<1>4. Idle.pc = "idle" /\ Idle.newest = NoMonth /\ Idle.hand = FALSE
  BY DEF Idle
<1>5. CASE exec[e].pc = "check"
  <2>1. UNCHANGED <<found, torn>> /\ ~Active(e)
    BY <1>5 DEF ExecutionFails, Active
  <2> QED BY <1>1, <1>2, <1>4, <2>1, Waits
<1>6. CASE exec[e].pc # "check"
  <2>1. Active(e)
    BY <1>6 DEF ExecutionFails, ItemsInv, OneScan, Active
  <2>2. torn' = IF exec[e].pc \in {"merge", "write"} THEN torn \union found ELSE torn
    BY DEF ExecutionFails
  <2>3. \A d \in torn' : d <= window
    BY <2>2 DEF ItemsInv, Ranges, RangeInv
  <2>4. Writing(e) => torn' = torn \union found
    BY <2>2 DEF Writing
  <2>5. TableBase'
    <3>1. CASE ~Writing(e)
      <4>1. \A x \in Executions : ~Writing(x)
        BY <2>1, <3>1, OthersWait DEF ItemsInv
      <4> QED BY <1>2, <1>3, <4>1, Base
    <3>2. CASE Writing(e)
      <4>1. PICK n : n = exec[e].newest
        OBVIOUS
      <4>2. WriteInv(e)
        BY <3>2 DEF ItemsInv
      <4>3. ~Own(n) /\ Last <= n /\ n \in MonthsFound \union {Last} /\ \A m \in Months : Own(m) => m <= n
        BY <1>1, <4>1, <4>2 DEF WriteInv
      <4>4. n \in Int /\ Last \in Int /\ \A m \in Months : m \in Int
        BY <4>1, Numbers, ExecFacts
      <4>5. Last' = Last /\ \A m \in Months : Own(m)' <=> Own(m)
        BY <1>2 DEF Last, Own
      <4>6. \A m \in Months : Own(m)' => m < n
        BY <4>3, <4>4, <4>5
      <4>7. CASE Last = n
        BY <4>5, <4>6, <4>7 DEF TableBase, Clean
      <4>8. CASE Last # n
        <5>1. PICK w \in found : Month[w] = n
          BY <4>3, <4>8 DEF MonthsFound
        <5>2. w \in torn' /\ Last' < Month[w]
          BY <2>4, <3>2, <4>3, <4>4, <4>5, <4>8, <5>1
        <5>3. Left(w)'
          BY <1>1, <4>6, <5>1, <5>2 DEF Left
        <5> QED BY <5>2, <5>3 DEF TableBase
      <4> QED BY <4>7, <4>8
    <3> QED BY <3>1, <3>2
  <2> QED BY <1>2, <1>3, <2>1, <2>2, <2>3, <2>4, <2>5, Ends
<1> QED BY <1>5, <1>6

-----------------------------------------------------------------------------
(* Steps of a scan that write *)

\* The newest of the months found and the latest item's.
LEMMA NewestOf ==
  ASSUME TypeInv, NEW S \in SUBSET (Months \union {NoMonth}), S # {},
         NEW n, n = CHOOSE x \in S : \A y \in S : y <= x
  PROVE  n \in S /\ \A y \in S : y <= n
BY NewestExists

\* Their invariants in the next state, for the latest item's month L then, and the
\* newest month n in memory.
LEMMA KeptNext ==
  ASSUME NEW L, Last' = L,
         \A m \in Months : table'[m] = NoItem \/ Own(m)',
         KeptOf(L)' \subseteq table'[Latest].days,
         \A m \in Months \ {L} : KeptOf(m)' # {} => Own(m)' /\ KeptOf(m)' \subseteq table'[m].days,
         L \in Months /\ Own(L)' =>
           KeptOf(L)' \subseteq table'[L].days \/ \E w \in torn' : Left(w)' /\ Beyond(w)',
         \A m \in Months : Own(m)' /\ m > L =>
           /\ L \in Months => Own(L)'
           /\ \/ \E t \in torn' : Month[t] = m
              \/ m \in MonthsFound' /\ \E e \in Executions : Writing(e)'
  PROVE  KeptInv'
<1>1. KeptOf(Last)' = KeptOf(L)' /\ (Own(Last)' <=> Own(L)')
  BY DEF KeptOf, Own
<1> QED BY <1>1 DEF KeptInv

LEMMA WriteNext ==
  ASSUME NEW e \in Executions, NEW L, Last' = L, NEW n, exec'[e].newest = n,
         NEW todo, exec'[e].todo = todo, NEW old, exec'[e].old = old,
         NEW it, exec'[e].items = it,
         todo \subseteq MonthsFound',
         \A d \in found' : d \in it[Month[d]],
         \A m \in MonthsFound' : m <= n /\ KeptOf(m)' \subseteq it[m],
         n \in MonthsFound' \union {L},
         L <= n,
         \A m \in MonthsFound' \ todo :
           table'[IF m = n THEN Latest ELSE m] = [origin |-> m, days |-> it[m]],
         L # n /\ L \in Months =>
           \/ L \in todo \intersect old /\ n \notin old
           \/ Own(L)' /\ KeptOf(L)' \subseteq table'[L].days,
         \A m \in old : Own(m)' \/ m = L,
         \A m \in Months : Own(m)' => m <= n,
         Own(n)' => \E w \in torn' \ found' : n < Month[w]
  PROVE  WriteInv(e)'
<1>1. KeptOf(Last)' = KeptOf(L)' /\ (Own(Last)' <=> Own(L)') /\ (Own(exec[e].newest)' <=> Own(n)')
  BY DEF KeptOf, Own
<1> QED BY <1>1 DEF WriteInv

LEMMA MergeItems ==
  ASSUME TypeInv, ItemsInv, NEW e \in Executions, NEW m \in Months, Merge(e, m)
  PROVE  ItemsInv'
<1>0. PICK L : L = Last
  OBVIOUS
<1> DEFINE it == [x \in Months |-> exec[e].items[x] \union {d \in found : Month[d] = x}]
           S == exec[e].todo \union {L}
           put == m > L /\ L # NoMonth
<1>1. PICK n : n = CHOOSE x \in S : \A y \in S : y <= x
  OBVIOUS
<1> DEFINE r == [exec[e] EXCEPT !.pc = "write", !.items = it, !.newest = n]
<1>2. /\ exec[e].pc = "merge" /\ m \in exec[e].todo
      /\ m >= L \/ L \in exec[e].todo \/ \A x \in exec[e].todo : x < L
      /\ table' = IF put THEN [table EXCEPT ![L] = table[Latest]] ELSE table
      /\ UNCHANGED <<window, found, info, kept, torn, fails>>
  BY <1>0 DEF Merge, Last
<1>3. Become(e, r)
  BY <1>0, <1>1 DEF Merge, Last
<1>4. /\ exec[e].todo = MonthsFound
      /\ exec[e].old = {x \in MonthsFound : Own(x) \/ x = L}
      /\ \A x \in MonthsFound : KeptOf(x) \subseteq exec[e].items[x]
  BY <1>0, <1>2 DEF ItemsInv, MergeInv
<1>5. /\ MonthsFound \subseteq Months /\ L \in Months \union {NoMonth} /\ L \in Int
      /\ \A x \in Months : x \in Int /\ NoMonth < x
      /\ NoMonth \in Int
  BY <1>0, ExecFacts, Numbers
<1>6. n \in MonthsFound \union {L} /\ \A y \in MonthsFound \union {L} : y <= n
  <2>1. S = MonthsFound \union {L} /\ S \in SUBSET (Months \union {NoMonth}) /\ S # {}
    BY <1>4, <1>5
  <2>2. n \in S /\ \A y \in S : y <= n
    <3> HIDE DEF S
    <3> QED BY <1>1, <2>1, NewestOf
  <2> QED BY <2>1, <2>2
<1>7. n \in Months /\ n # NoMonth /\ m <= n /\ L <= n /\ m \in MonthsFound
  BY <1>2, <1>4, <1>5, <1>6
<1>8. /\ r.pc = "write" /\ r.hand = exec[e].hand /\ r.newest = n
      /\ r.from = exec[e].from /\ r.to = exec[e].to /\ r.todo = exec[e].todo /\ r.old = exec[e].old
      /\ r.items = it
  <2> HIDE DEF it
  <2> QED BY ExecFacts DEF ExecType
<1>9. \A x \in Months : it[x] = exec[e].items[x] \union {d \in found : Month[d] = x}
  OBVIOUS
<1> HIDE DEF it, r
<1>10. /\ exec[e].hand => torn = {}
       /\ \A x \in Executions \ {e} : ~exec[x].hand /\ exec[x].pc \in {"idle", "check"}
       /\ \A x \in Executions : ~Writing(x) /\ exec[x].pc # "info"
  <2>1. ~Writing(e)
    BY <1>2 DEF Writing
  <2> QED BY <1>2, <2>1, OthersWait DEF ItemsInv, OneScan, Active
<1>11. /\ exec'[e] = r
       /\ OneScan'
       /\ \A x \in Executions : Writing(x)' => x = e
       /\ \A x \in Executions : exec[x].pc = "info" \/ exec'[x].pc = "info" => x = e
       /\ \A x \in Executions \ {e} : RangeInv(x)' /\ MergeInv(x)'
  BY <1>2, <1>3, <1>8, <1>10, Alone
<1>12. Writing(e)' /\ MergeInv(e)'
  BY <1>7, <1>8, <1>11 DEF Writing, MergeInv
<1>13. Ranges'
  <2>1. RangeOf(e)' = RangeOf(e)
    BY <1>8, <1>11 DEF RangeOf
  <2>2. RangeInv(e)'
    BY <1>2, <1>8, <1>11, <2>1 DEF ItemsInv, Ranges, RangeInv, Active
  <2> QED BY <1>2, <1>11, <2>2 DEF ItemsInv, Ranges
<1>14. /\ table'[Latest] = table[Latest]
       /\ \A x \in Months \ {L} : table'[x] = table[x]
       /\ ~put => table' = table
       /\ put => table'[L] = table[Latest] /\ L \in Months
  <2>1. table \in [Keys -> Item \union {NoItem}]
    BY DEF TypeInv, TypeOK
  <2>2. Latest \in Keys /\ Months \subseteq Keys /\ Latest \notin Months
    BY MonthFacts
  <2> QED BY <1>2, <1>5, <2>1, <2>2
<1>15. Last' = L /\ MonthsFound' = MonthsFound
  BY <1>0, <1>2, <1>14 DEF Last, MonthsFound
<1>16. /\ \A x \in Months : Own(x) => Own(x)'
       /\ \A x \in Months : Own(x)' => Own(x) \/ (put /\ x = L)
       /\ put => Own(L)' /\ KeptOf(L) \subseteq table'[L].days
  <2>1. put => table'[L].origin = L
    BY <1>0, <1>14 DEF Last
  <2>2. KeptOf(L) \subseteq table[Latest].days
    BY <1>0 DEF ItemsInv, KeptInv
  <2>3. \A x \in Months : Own(x) => Own(x)'
    BY <1>14, <2>1 DEF Own
  <2>4. \A x \in Months : Own(x)' => Own(x) \/ (put /\ x = L)
    BY <1>14 DEF Own
  <2>5. put => Own(L)'
    BY <2>1 DEF Own
  <2> QED BY <1>14, <2>2, <2>3, <2>4, <2>5
<1>17. /\ \A x \in Months : table[x] = NoItem \/ Own(x)
       /\ KeptOf(L) \subseteq table[Latest].days
       /\ \A x \in Months \ {L} : KeptOf(x) # {} => Own(x) /\ KeptOf(x) \subseteq table[x].days
       /\ L \in Months /\ Own(L) =>
            KeptOf(L) \subseteq table[L].days \/ \E w \in torn : Left(w) /\ Beyond(w)
       /\ \A x \in Months : Own(x) /\ x > L =>
            (L \in Months => Own(L)) /\ \E t \in torn : Month[t] = x
  BY <1>0, <1>10 DEF ItemsInv, KeptInv
<1>18. KeptInv'
  <2>1. ASSUME NEW x \in Months PROVE table'[x] = NoItem \/ Own(x)'
    BY <1>14, <1>16, <1>17
  <2>2. KeptOf(L) \subseteq table'[Latest].days
    BY <1>14, <1>17
  <2>3. ASSUME NEW x \in Months \ {L}, KeptOf(x) # {}
        PROVE  Own(x)' /\ KeptOf(x) \subseteq table'[x].days
    BY <1>14, <1>16, <1>17, <2>3
  <2>4. ASSUME L \in Months, Own(L)'
        PROVE  KeptOf(L) \subseteq table'[L].days \/ \E w \in torn : Left(w)' /\ Beyond(w)'
    <3>1. CASE put
      BY <1>16, <3>1
    <3>2. CASE ~put
      <4>1. \A w \in torn : (Left(w) => Left(w)') /\ (Beyond(w) => Beyond(w)')
        <5>1. table' = table /\ UNCHANGED <<fails, torn, info>>
          BY <1>2, <1>14, <3>2
        <5>2. \A w \in torn : Left(w) => Left(w)'
          BY <5>1 DEF Left, Last, Own
        <5>3. \A w \in torn : Beyond(w) => Beyond(w)'
          BY <1>10, <5>1 DEF Beyond
        <5> QED BY <5>2, <5>3
      <4>2. Own(L)
        BY <1>16, <2>4, <3>2
      <4>3. table' = table
        BY <1>14, <3>2
      <4> QED BY <1>17, <2>4, <4>1, <4>2, <4>3
    <3> QED BY <3>1, <3>2
  <2>5. ASSUME NEW x \in Months, Own(x)', x > L
        PROVE  (L \in Months => Own(L)') /\ \E t \in torn : Month[t] = x
    <3>0. x # L
      BY <1>5, <2>5
    <3> HIDE DEF put
    <3>1. Own(x)
      BY <1>16, <2>5, <3>0
    <3> QED BY <1>10, <1>16, <1>17, <2>5, <3>1
  <2>6. kept' = kept /\ torn' = torn
    BY <1>2
  <2>7. \A x \in Months \union {L} : KeptOf(x)' = KeptOf(x)
    BY <2>6 DEF KeptOf
  <2> QED BY <1>15, <2>1, <2>2, <2>3, <2>4, <2>5, <2>6, <2>7, KeptNext
<1>19. TableBase'
  BY <1>12 DEF TableBase
<1>20. ASSUME L # n, L \in Months
       PROVE  \/ L \in exec[e].todo \intersect exec[e].old /\ n \notin exec[e].old
              \/ Own(L)' /\ KeptOf(L) \subseteq table'[L].days
  <2>1. CASE put
    BY <1>16, <2>1
  <2>2. CASE ~put
    <3>1. n \in MonthsFound /\ L < n /\ L # NoMonth
      BY <1>5, <1>6, <1>7, <1>20
    <3>2. L \in MonthsFound
      BY <1>2, <1>4, <1>5, <1>7, <2>2, <3>1
    <3>3. CASE n \notin exec[e].old
      BY <1>4, <3>2, <3>3
    <3>4. CASE n \in exec[e].old
      <4>1. Own(n)
        BY <1>4, <1>20, <3>4
      <4>2. Own(L)
        BY <1>5, <1>7, <1>17, <1>20, <3>1, <4>1
      <4>3. ASSUME NEW w \in torn, Left(w), Beyond(w) PROVE FALSE
        <5>1. PICK d \in found : Month[d] = L
          BY <3>2 DEF MonthsFound
        <5> QED BY <1>0, <1>2, <4>3, <5>1, NewerFound
      <4>4. KeptOf(L) \subseteq table[L].days
        BY <1>17, <1>20, <4>2, <4>3
      <4>5. table' = table
        BY <1>14, <2>2
      <4> QED BY <1>16, <1>20, <4>2, <4>4, <4>5
    <3> QED BY <3>3, <3>4
  <2> QED BY <2>1, <2>2
<1>21. ASSUME NEW x \in Months, Own(x)' PROVE x <= n
  <2>1. CASE x = L
    BY <1>7, <2>1
  <2>2. CASE x # L
    <3>1. Own(x)
      BY <1>16, <1>21, <2>2
    <3>2. PICK d \in found : Month[d] = m
      BY <1>7 DEF MonthsFound
    <3>3. PICK y \in MonthsFound \union {L} : x <= y
      BY <1>0, <1>2, <3>1, OwnBelow
    <3>4. y <= n /\ y \in Int /\ n \in Int /\ x \in Int
      BY <1>5, <1>6, <1>7
    <3> QED BY <3>3, <3>4
  <2> QED BY <2>1, <2>2
<1>22. ASSUME Own(n)' PROVE \E w \in torn \ found : n < Month[w]
  <2>1. Own(n)
    <3>1. put => n # L
      BY <1>5, <1>7
    <3> QED BY <1>7, <1>16, <1>22, <3>1
  <2>2. ~Clean
    BY <1>0, <1>5, <1>7, <2>1 DEF Clean
  <2>3. PICK w \in torn : Left(w)
    BY <1>10, <2>2 DEF ItemsInv, TableBase
  <2>4. n < Month[w]
    BY <1>7, <2>1, <2>3 DEF Left
  <2>5. w \notin found
    <3>1. SUFFICES ASSUME w \in found PROVE FALSE
      OBVIOUS
    <3>2. Month[w] \in MonthsFound
      BY <3>1 DEF MonthsFound
    <3>3. Month[w] <= n /\ Month[w] \in Int /\ n \in Int
      BY <1>5, <1>6, <1>7, <3>2
    <3> QED BY <2>4, <3>3
  <2> QED BY <2>4, <2>5
<1>23. WriteInv(e)'
  <2>1. exec'[e].newest = n /\ exec'[e].todo = MonthsFound /\ exec'[e].old = exec[e].old
        /\ exec'[e].items = it
    BY <1>4, <1>8, <1>11
  <2>2. \A d \in found : d \in it[Month[d]]
    <3>1. \A d \in found : Month[d] \in Months
      BY <1>5 DEF MonthsFound
    <3> QED BY <1>9, <3>1
  <2>3. \A x \in MonthsFound : x <= n /\ KeptOf(x) \subseteq it[x]
    BY <1>4, <1>5, <1>6, <1>9
  <2>4. \A x \in exec[e].old : Own(x)' \/ x = L
    BY <1>4, <1>5, <1>16
  <2>5. kept' = kept /\ torn' = torn /\ found' = found /\ fails' = fails
    BY <1>2
  <2>6. \A x \in Months : KeptOf(x)' = KeptOf(x)
    BY <2>5 DEF KeptOf
  <2> DEFINE todo == MonthsFound
             old == exec[e].old
  <2>7. /\ todo \subseteq MonthsFound /\ n \in MonthsFound \union {L} /\ L <= n
        /\ MonthsFound \subseteq Months
    BY <1>5, <1>6, <1>7
  <2>8. L # n /\ L \in Months =>
          \/ L \in todo \intersect old /\ n \notin old
          \/ Own(L)' /\ KeptOf(L) \subseteq table'[L].days
    BY <1>4, <1>20
  <2> HIDE DEF todo, old
  <2>9. /\ \A x \in MonthsFound \ todo :
             table'[IF x = n THEN Latest ELSE x] = [origin |-> x, days |-> it[x]]
        /\ exec'[e].todo = todo /\ exec'[e].old = old
    BY <2>1 DEF todo, old
  <2>10. \A x \in old : Own(x)' \/ x = L
    BY <2>4 DEF old
  <2> QED BY <1>15, <1>21, <1>22, <2>1, <2>2, <2>3, <2>5, <2>6, <2>7, <2>8, <2>9, <2>10, WriteNext
<1> QED BY <1>11, <1>12, <1>13, <1>18, <1>19, <1>23 DEF ItemsInv

\* What a batch puts.
LEMMA BatchEffect ==
  ASSUME TypeInv, Mild, NEW e \in Executions, BatchWrite(e)
  PROVE  \E batch \in SUBSET Months :
           LET n == exec[e].newest
           IN /\ batch # {} /\ batch \subseteq exec[e].todo
              /\ exec[e].old \intersect exec[e].todo \subseteq batch \/ batch \subseteq exec[e].old
              /\ \A m \in batch \ {n} : table'[m] = [origin |-> m, days |-> exec[e].items[m]]
              /\ \A m \in Months : m \notin batch \/ m = n => table'[m] = table[m]
              /\ n \in batch => table'[Latest] = [origin |-> n, days |-> exec[e].items[n]]
              /\ n \notin batch => table'[Latest] = table[Latest]
              /\ Become(e, [exec[e] EXCEPT !.todo = @ \ batch])
<1> DEFINE n == exec[e].newest
           Put(m) == IF m = n THEN Latest ELSE m
<1>1. PICK batch \in (SUBSET exec[e].todo) \ {{}} :
        /\ exec[e].old \intersect exec[e].todo \subseteq batch \/ batch \subseteq exec[e].old
        /\ \E done \in IF Throttled THEN SUBSET batch ELSE {batch} :
             table' = [k \in Keys |->
               IF \E m \in done : Put(m) = k
               THEN LET m == CHOOSE x \in done : Put(x) = k
                    IN [origin |-> m, days |-> exec[e].items[m]]
               ELSE table[k]]
        /\ Become(e, [exec[e] EXCEPT !.todo = @ \ batch])
  BY DEF BatchWrite
<1>2. \A k \in Keys : table'[k] =
        IF \E m \in batch : Put(m) = k
        THEN [origin |-> CHOOSE x \in batch : Put(x) = k,
              days |-> exec[e].items[CHOOSE x \in batch : Put(x) = k]]
        ELSE table[k]
  BY <1>1 DEF Mild
<1>3. batch \subseteq Months /\ Latest \notin Months /\ Latest \in Keys /\ Months \subseteq Keys
  BY <1>1, ExecFacts, MonthFacts
<1>4. ASSUME NEW m \in batch \ {n}
      PROVE  table'[m] = [origin |-> m, days |-> exec[e].items[m]]
  <2>1. Put(m) = m /\ \A x \in batch : Put(x) = m => x = m
    BY <1>3
  <2>2. (CHOOSE x \in batch : Put(x) = m) = m
    BY <2>1
  <2> HIDE DEF Put
  <2> QED BY <1>2, <1>3, <2>1, <2>2
<1>5. ASSUME NEW m \in Months, m \notin batch \/ m = n PROVE table'[m] = table[m]
  <2>1. ~ \E x \in batch : Put(x) = m
    BY <1>3, <1>5
  <2> HIDE DEF Put
  <2> QED BY <1>2, <1>3, <2>1
<1>6. ASSUME n \in batch
      PROVE  table'[Latest] = [origin |-> n, days |-> exec[e].items[n]]
  <2>1. Put(n) = Latest /\ \A x \in batch : Put(x) = Latest => x = n
    BY <1>3
  <2>2. (CHOOSE x \in batch : Put(x) = Latest) = n
    BY <1>6, <2>1
  <2> HIDE DEF Put, n
  <2> QED BY <1>2, <1>3, <1>6, <2>1, <2>2
<1>7. ASSUME n \notin batch PROVE table'[Latest] = table[Latest]
  <2>1. ~ \E x \in batch : Put(x) = Latest
    BY <1>3, <1>7
  <2> HIDE DEF Put
  <2> QED BY <1>2, <1>3, <2>1
<1> QED BY <1>1, <1>3, <1>4, <1>5, <1>6, <1>7

\* The invariants while it writes, for the latest item's month L, the newest n in memory
\* and the items it in memory.
LEMMA WriteNow ==
  ASSUME ItemsInv, NEW e \in Executions, Writing(e), NEW L, L = Last, NEW n, n = exec[e].newest,
         NEW it, it = exec[e].items, NEW old, old = exec[e].old, NEW todo, todo = exec[e].todo
  PROVE  /\ todo \subseteq MonthsFound
         /\ \A d \in found : d \in it[Month[d]]
         /\ \A m \in MonthsFound : m <= n /\ KeptOf(m) \subseteq it[m]
         /\ n \in MonthsFound \union {L} /\ L <= n
         /\ \A m \in MonthsFound \ todo :
              table[IF m = n THEN Latest ELSE m] = [origin |-> m, days |-> it[m]]
         /\ L # n /\ L \in Months =>
              \/ L \in todo \intersect old /\ n \notin old
              \/ Own(L) /\ KeptOf(L) \subseteq table[L].days
         /\ \A m \in old : Own(m) \/ m = L
         /\ \A m \in Months : Own(m) => m <= n
         /\ Own(n) => \E w \in torn \ found : n < Month[w]
<1>1. WriteInv(e)
  BY DEF ItemsInv
<1> QED BY <1>1 DEF WriteInv

LEMMA KeptNow ==
  ASSUME ItemsInv, NEW L, L = Last
  PROVE  /\ \A m \in Months : table[m] = NoItem \/ Own(m)
         /\ KeptOf(L) \subseteq table[Latest].days
         /\ \A m \in Months \ {L} : KeptOf(m) # {} => Own(m) /\ KeptOf(m) \subseteq table[m].days
         /\ L \in Months /\ Own(L) =>
              KeptOf(L) \subseteq table[L].days \/ \E w \in torn : Left(w) /\ Beyond(w)
         /\ \A m \in Months : Own(m) /\ m > L =>
              /\ L \in Months => Own(L)
              /\ \/ \E t \in torn : Month[t] = m
                 \/ m \in MonthsFound /\ \E e \in Executions : Writing(e)
BY DEF ItemsInv, KeptInv

LEMMA BatchItems ==
  ASSUME TypeInv, Mild, ItemsInv, NEW e \in Executions, BatchWrite(e)
  PROVE  ItemsInv'
<1>1. PICK L, n, it, old, todo : /\ L = Last /\ n = exec[e].newest /\ it = exec[e].items
                                 /\ old = exec[e].old /\ todo = exec[e].todo
  OBVIOUS
<1>2. PICK batch \in SUBSET Months :
        /\ batch # {} /\ batch \subseteq todo
        /\ old \intersect todo \subseteq batch \/ batch \subseteq old
        /\ \A m \in batch \ {n} : table'[m] = [origin |-> m, days |-> it[m]]
        /\ \A m \in Months : m \notin batch \/ m = n => table'[m] = table[m]
        /\ n \in batch => table'[Latest] = [origin |-> n, days |-> it[n]]
        /\ n \notin batch => table'[Latest] = table[Latest]
        /\ Become(e, [exec[e] EXCEPT !.todo = @ \ batch])
  BY <1>1, BatchEffect
<1>3. exec[e].pc = "write" /\ UNCHANGED <<window, found, info, kept, torn, fails>>
  BY DEF BatchWrite
<1>4. Writing(e)
  BY <1>1, <1>2, <1>3 DEF ItemsInv, MergeInv, Writing
<1>5. /\ MonthsFound \subseteq Months /\ L \in Months \union {NoMonth} /\ L \in Int
      /\ \A x \in Months : x \in Int
      /\ old \subseteq Months /\ n \in Months \union {NoMonth} /\ n \in Int
  BY <1>1, ExecFacts, Numbers
<1> DEFINE r == [exec[e] EXCEPT !.todo = @ \ batch]
<1>6. /\ r.pc = "write" /\ r.hand = exec[e].hand /\ r.newest = n
      /\ r.from = exec[e].from /\ r.to = exec[e].to /\ r.todo = todo \ batch /\ r.old = old
      /\ r.items = it
  BY <1>1, <1>3, ExecFacts DEF ExecType
<1>7. Become(e, r)
  BY <1>2
<1> HIDE DEF r
<1>8. /\ exec[e].hand => torn = {}
      /\ \A x \in Executions \ {e} : ~exec[x].hand /\ exec[x].pc \in {"idle", "check"}
  BY <1>3, OthersWait DEF ItemsInv, OneScan, Active
<1>9. /\ exec'[e] = r
      /\ OneScan'
      /\ \A x \in Executions : Writing(x)' => x = e
      /\ \A x \in Executions \ {e} : RangeInv(x)' /\ MergeInv(x)'
  BY <1>3, <1>6, <1>7, <1>8, Alone
<1>10. Writing(e)' /\ MergeInv(e)'
  BY <1>1, <1>4, <1>6, <1>9 DEF Writing, MergeInv
<1>11. Ranges'
  <2>1. RangeOf(e)' = RangeOf(e)
    BY <1>6, <1>9 DEF RangeOf
  <2>2. RangeInv(e)'
    BY <1>3, <1>6, <1>9, <2>1 DEF ItemsInv, Ranges, RangeInv, Active
  <2> QED BY <1>3, <1>9, <2>2 DEF ItemsInv, Ranges
<1>12. TableBase'
  BY <1>10 DEF TableBase
<1>13. /\ todo \subseteq MonthsFound
       /\ \A d \in found : d \in it[Month[d]]
       /\ \A x \in MonthsFound : x <= n /\ KeptOf(x) \subseteq it[x]
       /\ n \in MonthsFound \union {L} /\ L <= n
       /\ \A x \in MonthsFound \ todo :
            table[IF x = n THEN Latest ELSE x] = [origin |-> x, days |-> it[x]]
       /\ L # n /\ L \in Months =>
            \/ L \in todo \intersect old /\ n \notin old
            \/ Own(L) /\ KeptOf(L) \subseteq table[L].days
       /\ \A x \in old : Own(x) \/ x = L
       /\ \A x \in Months : Own(x) => x <= n
       /\ Own(n) => \E w \in torn \ found : n < Month[w]
  BY <1>1, <1>4, WriteNow
<1>14. /\ \A x \in Months : table[x] = NoItem \/ Own(x)
       /\ KeptOf(L) \subseteq table[Latest].days
       /\ \A x \in Months \ {L} : KeptOf(x) # {} => Own(x) /\ KeptOf(x) \subseteq table[x].days
       /\ L \in Months /\ Own(L) =>
            KeptOf(L) \subseteq table[L].days \/ \E w \in torn : Left(w) /\ Beyond(w)
       /\ \A x \in Months : Own(x) /\ x > L =>
            /\ L \in Months => Own(L)
            /\ \/ \E t \in torn : Month[t] = x
               \/ x \in MonthsFound /\ \E y \in Executions : Writing(y)
  BY <1>1, KeptNow
<1>15. PICK M : M = IF n \in batch THEN n ELSE L
  OBVIOUS
<1>16. Last' = M /\ MonthsFound' = MonthsFound
  <2>1. Last' = M
    BY <1>1, <1>2, <1>15 DEF Last
  <2> QED BY <1>3, <2>1 DEF MonthsFound
<1>17. /\ \A x \in Months : Own(x) => Own(x)'
       /\ \A x \in batch \ {n} : Own(x)' /\ table'[x].days = it[x]
       /\ \A x \in Months : Own(x)' => Own(x) \/ x \in batch \ {n}
       /\ Own(n)' /\ n \in Months => Own(n)
  <2>1. ASSUME NEW x \in batch \ {n} PROVE table'[x].origin = x /\ table'[x].days = it[x]
    <3>1. table'[x] = [origin |-> x, days |-> it[x]]
      BY <1>2
    <3> QED BY <3>1
  <2>2. \A x \in Months : x \notin batch \ {n} => table'[x] = table[x]
    BY <1>2
  <2> QED BY <2>1, <2>2 DEF Own
<1>18. \A x : KeptOf(x)' = KeptOf(x)
  BY <1>3 DEF KeptOf
<1>19. \A x \in Months : Own(x)' => x <= n
  BY <1>2, <1>13, <1>17
<1>20. L \in Months /\ Own(L) => KeptOf(L) \subseteq table[L].days
  <2>1. SUFFICES ASSUME L \in Months, Own(L), NEW w \in torn, Left(w), Beyond(w)
                 PROVE  KeptOf(L) \subseteq table[L].days
    BY <1>14
  <2>2. \A d \in found : Month[d] # L /\ L < Month[d]
    BY <1>1, <1>3, <2>1, NewerFound
  <2>3. \A x \in MonthsFound : x # L /\ L < x
    BY <2>2 DEF MonthsFound
  <2>4. PICK x \in batch : x \in MonthsFound /\ L < x /\ x <= n
    BY <1>2, <1>13, <2>3
  <2>5. L # n /\ L \notin MonthsFound
    <3>1. x \in Int
      BY <1>5, <2>4
    <3> QED BY <1>5, <2>3, <2>4, <3>1
  <2> QED BY <1>13, <2>1, <2>5
\* The former latest item is put under its month before or together with the new one.
<1>21. ASSUME n \in batch, L # n, L \in Months 
       PROVE  L \in batch \/ (Own(L) /\ KeptOf(L) \subseteq table[L].days)
  <2>1. CASE Own(L) /\ KeptOf(L) \subseteq table[L].days
    BY <2>1
  <2>2. CASE L \in todo \intersect old /\ n \notin old
    <3>1. old \intersect todo \subseteq batch \/ batch \subseteq old
      BY <1>2
    <3> QED BY <1>21, <2>2, <3>1
  <2> QED BY <1>13, <1>21, <2>1, <2>2
<1>22. KeptInv'
  <2>1. \A x \in Months : table'[x] = NoItem \/ Own(x)'
    BY <1>2, <1>14, <1>17
  <2>2. KeptOf(M) \subseteq table'[Latest].days
    <3>1. CASE n \in batch
      BY <1>2, <1>13, <1>15, <3>1
    <3>2. CASE n \notin batch
      BY <1>2, <1>14, <1>15, <3>2
    <3> QED BY <3>1, <3>2
  <2>3. ASSUME NEW x \in Months \ {M}, KeptOf(x) # {}
        PROVE  Own(x)' /\ KeptOf(x) \subseteq table'[x].days
    <3>1. CASE x \in batch \ {n}
      BY <1>2, <1>13, <1>17, <3>1
    <3>2. CASE x \notin batch \ {n}
      <4>1. table'[x] = table[x]
        BY <1>2, <3>2
      <4>2. CASE x # L
        BY <1>14, <1>17, <2>3, <4>1, <4>2
      <4>3. CASE x = L
        <5>1. n \in batch /\ L # n /\ L \notin batch
          BY <1>15, <2>3, <3>2, <4>3
        <5> QED BY <1>17, <1>21, <2>3, <4>1, <4>3, <5>1
      <4> QED BY <4>2, <4>3
    <3> QED BY <3>1, <3>2
  <2>4. ASSUME M \in Months, Own(M)'
        PROVE  KeptOf(M) \subseteq table'[M].days
    <3>1. CASE M \in batch \ {n}
      BY <1>2, <1>13, <1>17, <3>1
    <3>2. CASE M \notin batch \ {n}
      <4>1. table'[M] = table[M] /\ Own(M)
        BY <1>2, <1>17, <2>4, <3>2
      <4>2. CASE M = L
        BY <1>20, <2>4, <4>1, <4>2
      <4>3. CASE M # L
        BY <1>14, <2>4, <4>1, <4>3
      <4> QED BY <4>2, <4>3
    <3> QED BY <3>1, <3>2
  <2>5. ASSUME NEW x \in Months, Own(x)', x > M
        PROVE  /\ M \in Months => Own(M)'
               /\ (\E t \in torn : Month[t] = x) \/ x \in MonthsFound
    <3>1. n \notin batch /\ M = L /\ x \in Int /\ x <= n
      BY <1>5, <1>15, <1>19, <2>5
    <3>2. CASE x \in batch \ {n}
      <4>1. x \in MonthsFound /\ L # n
        BY <1>2, <1>5, <1>13, <2>5, <3>1, <3>2
      <4>2. ASSUME L \in Months PROVE Own(L)'
        <5>1. CASE Own(L)
          BY <1>17, <4>2, <5>1
        <5>2. CASE ~Own(L)
          <6>1. L \in todo \intersect old
            BY <1>13, <4>1, <4>2, <5>2
          <6>2. ~(batch \subseteq old)
            <7>1. SUFFICES ASSUME x \in old PROVE FALSE
              BY <3>2
            <7>2. Own(x)
              BY <1>5, <1>13, <2>5, <3>1, <7>1
            <7> QED BY <1>14, <2>5, <3>1, <4>2, <5>2, <7>2
          <6>3. L \in batch \ {n}
            BY <1>2, <4>1, <6>1, <6>2
          <6> QED BY <1>17, <6>3
        <5> QED BY <5>1, <5>2
      <4> QED BY <3>1, <4>1, <4>2
    <3>3. CASE x \notin batch \ {n}
      <4>1. Own(x)
        BY <1>17, <2>5, <3>3
      <4> QED BY <1>14, <1>17, <2>5, <3>1, <4>1
    <3> QED BY <3>2, <3>3
  <2>6. torn' = torn
    BY <1>3
  <2> QED BY <1>10, <1>16, <1>18, <2>1, <2>2, <2>3, <2>4, <2>5, <2>6, KeptNext
<1>23. WriteInv(e)'
  <2> DEFINE rest == todo \ batch
  <2>1. /\ exec'[e].newest = n /\ exec'[e].todo = rest /\ exec'[e].old = old /\ exec'[e].items = it
        /\ found' = found /\ torn' = torn /\ fails' = fails
    BY <1>3, <1>6, <1>9
  <2>2. rest \subseteq MonthsFound /\ n \in MonthsFound \union {M} /\ M <= n
    BY <1>2, <1>5, <1>13, <1>15
  <2>3. ASSUME NEW x \in MonthsFound \ rest
        PROVE  table'[IF x = n THEN Latest ELSE x] = [origin |-> x, days |-> it[x]]
    <3>1. CASE x \in batch
      BY <1>2, <3>1
    <3>2. CASE x \notin batch
      <4>1. x \in Months /\ table[IF x = n THEN Latest ELSE x] = [origin |-> x, days |-> it[x]]
        BY <1>5, <1>13, <2>3, <3>2
      <4> QED BY <1>2, <3>2, <4>1
    <3> QED BY <3>1, <3>2
  <2>4. ASSUME M # n, M \in Months
        PROVE  \/ M \in rest \intersect old /\ n \notin old
               \/ Own(M)' /\ KeptOf(M) \subseteq table'[M].days
    <3>1. M = L /\ n \notin batch
      BY <1>15, <2>4
    <3>2. CASE L \in batch
      BY <1>13, <1>2, <1>17, <2>4, <3>1, <3>2
    <3>3. CASE L \notin batch
      <4>1. table'[L] = table[L] /\ (Own(L) => Own(L)')
        BY <1>2, <1>17, <2>4, <3>1, <3>3
      <4> QED BY <1>13, <2>4, <3>1, <3>3, <4>1
    <3> QED BY <3>2, <3>3
  <2>5. ASSUME NEW x \in old PROVE Own(x)' \/ x = M
    <3>1. CASE Own(x)
      BY <1>5, <1>17, <3>1
    <3>2. CASE ~Own(x)
      <4>1. x = L /\ L \in Months
        BY <1>5, <1>13, <3>2
      <4>2. CASE n \in batch /\ L # n
        <5>1. L \in batch \ {n} \/ Own(L)
          BY <1>21, <4>1, <4>2
        <5> QED BY <1>17, <4>1, <5>1
      <4>3. CASE ~(n \in batch /\ L # n)
        BY <1>15, <4>1, <4>3
      <4> QED BY <4>2, <4>3
    <3> QED BY <3>1, <3>2
  <2>6. Own(n)' => \E w \in torn \ found : n < Month[w]
    <3>1. n \in Months => (Own(n)' => Own(n))
      BY <1>17
    <3>2. n \in Months
      BY <1>4, <1>1, <1>5 DEF Writing
    <3> QED BY <1>13, <3>1, <3>2
  <2> HIDE DEF rest
  <2> QED BY <1>13, <1>16, <1>18, <1>19, <2>1, <2>2, <2>3, <2>4, <2>5, <2>6, WriteNext
<1> QED BY <1>9, <1>10, <1>11, <1>12, <1>22, <1>23 DEF ItemsInv

\* The scan is stored: its days are kept, and none of them is torn.
LEMMA StoreItems ==
  ASSUME TypeInv, ItemsInv, NEW e \in Executions, StoreEnds(e)
  PROVE  ItemsInv'
<1> DEFINE r == [Idle EXCEPT !.pc = "info", !.hand = exec[e].hand, !.to = exec[e].to,
                             !.at = exec[e].at]
<1>1. /\ exec[e].pc = "write" /\ exec[e].todo = {} /\ Become(e, r)
      /\ UNCHANGED <<window, table, info, fails>>
      /\ kept' = kept \union found /\ torn' = torn \ found /\ found' = {}
  BY DEF StoreEnds
<1>2. r.pc = "info" /\ r.hand = exec[e].hand /\ r.to = exec[e].to /\ r.newest = NoMonth
  BY DEF Idle
<1> HIDE DEF r
<1>3. /\ exec[e].hand => torn = {}
      /\ \A x \in Executions \ {e} : ~exec[x].hand /\ exec[x].pc \in {"idle", "check"}
  BY <1>1, OthersWait DEF ItemsInv, OneScan, Active
<1>4. /\ exec'[e] = r
      /\ OneScan'
      /\ \A x \in Executions : Writing(x) => x = e
      /\ \A x \in Executions : Writing(x)' => x = e
      /\ \A x \in Executions \ {e} : RangeInv(x)' /\ MergeInv(x)'
  BY <1>1, <1>2, <1>3, Alone
<1>5. ~Writing(e)' /\ MergeInv(e)'
  BY <1>2, <1>4 DEF Writing, MergeInv
<1>6. /\ found \subseteq RangeOf(e) /\ torn \intersect RangeOf(e) \subseteq found
      /\ ~exec[e].hand => \A d \in torn : d <= exec[e].to
      /\ \A d \in torn : d <= window
  BY <1>1 DEF ItemsInv, Ranges, RangeInv, Active
<1>7. Ranges'
  <2>1. RangeInv(e)'
    BY <1>1, <1>2, <1>4, <1>6 DEF RangeInv, Active
  <2> QED BY <1>1, <1>4, <1>6, <2>1 DEF Ranges
<1>8. ASSUME NEW w \in torn, Beyond(w) PROVE Beyond(w)'
  <2>1. info.end >= w
    BY <1>1, <1>3, <1>8 DEF Beyond
  <2> QED BY <1>1, <2>1 DEF Beyond
<1>9. PICK L : L = Last
  OBVIOUS
<1>10. Last' = L /\ \A x : Own(x)' <=> Own(x)
  BY <1>1, <1>9 DEF Last, Own
<1>11. /\ MonthsFound \subseteq Months /\ L \in Months \union {NoMonth} /\ L \in Int
       /\ \A x \in Months : x \in Int
       /\ found \subseteq Days /\ torn \subseteq Days
  BY <1>9, ExecFacts, Numbers
<1>12. /\ \A x \in Months : table[x] = NoItem \/ Own(x)
       /\ KeptOf(L) \subseteq table[Latest].days
       /\ \A x \in Months \ {L} : KeptOf(x) # {} => Own(x) /\ KeptOf(x) \subseteq table[x].days
       /\ L \in Months /\ Own(L) =>
            KeptOf(L) \subseteq table[L].days \/ \E w \in torn : Left(w) /\ Beyond(w)
       /\ \A x \in Months : Own(x) /\ x > L =>
            /\ L \in Months => Own(L)
            /\ \/ \E t \in torn : Month[t] = x
               \/ x \in MonthsFound /\ \E y \in Executions : Writing(y)
  BY <1>9, KeptNow
<1>13. CASE ~Writing(e)
  <2>1. found = {}
    BY <1>1, <1>13 DEF ItemsInv, MergeInv, Writing
  <2>2. UNCHANGED <<table, kept, torn>> /\ \A x \in Executions : ~Writing(x)
    BY <1>1, <1>4, <1>13, <2>1
  <2>3. \A w \in torn : Left(w) => Left(w)' /\ w \in torn'
    BY <1>1, <2>2 DEF Left, Last, Own
  <2>4. KeptInv'
    BY <1>8, <2>2, <2>3, KeptStays
  <2>5. TableBase'
    BY <1>1, <2>2, <2>3, Base
  <2> QED BY <1>4, <1>5, <1>7, <2>4, <2>5 DEF ItemsInv
<1>14. CASE Writing(e)
  <2>1. PICK n, it : n = exec[e].newest /\ it = exec[e].items
    OBVIOUS
  <2>2. /\ \A d \in found : d \in it[Month[d]]
        /\ \A x \in MonthsFound : x <= n /\ KeptOf(x) \subseteq it[x]
        /\ n \in MonthsFound \union {L}
        /\ \A x \in MonthsFound :
             table[IF x = n THEN Latest ELSE x] = [origin |-> x, days |-> it[x]]
        /\ \A x \in Months : Own(x) => x <= n
        /\ Own(n) => \E w \in torn \ found : n < Month[w]
    <3>1. PICK old, todo : old = exec[e].old /\ todo = exec[e].todo
      OBVIOUS
    <3>2. MonthsFound \ todo = MonthsFound
      BY <1>1, <3>1
    <3> QED BY <1>9, <1>14, <2>1, <3>1, <3>2, WriteNow
  <2>3. L = n
    <3>1. ASSUME n \in MonthsFound PROVE L = n
      <4>1. table[Latest] = [origin |-> n, days |-> it[n]]
        BY <2>2, <3>1
      <4> QED BY <1>9, <4>1 DEF Last
    <3> QED BY <2>2, <3>1
  <2>4. \A x \in MonthsFound : x <= L
    BY <2>2, <2>3
  <2>5. ASSUME NEW x \in MonthsFound
        PROVE  LET k == IF x = L THEN Latest ELSE x
               IN table[k].origin = x /\ KeptOf(x) \subseteq table[k].days
                    /\ \A d \in found : Month[d] = x => d \in table[k].days
    <3>1. table[IF x = L THEN Latest ELSE x] = [origin |-> x, days |-> it[x]]
      BY <2>2, <2>3
    <3>2. KeptOf(x) \subseteq it[x] /\ \A d \in found : Month[d] = x => d \in it[x]
      BY <2>2
    <3> QED BY <3>1, <3>2
  <2>6. ASSUME NEW x PROVE KeptOf(x)' = KeptOf(x) \union {d \in found : Month[d] = x}
    BY <1>1 DEF KeptOf
  <2>7. ASSUME NEW x, x \notin MonthsFound PROVE KeptOf(x)' = KeptOf(x)
    BY <2>6, <2>7 DEF MonthsFound
\* What is found was the newest: what is newer is still torn.
  <2>8. ASSUME NEW w \in torn \ found, L < Month[w] PROVE w \in torn' /\ Left(w)'
    <3>1. w \in torn'
      BY <1>1, <2>8
    <3>2. Month[w] \in Int
      BY <1>11, Numbers, MonthFacts
    <3>3. \A x \in Months : Own(x)' => x < Month[w]
      BY <1>10, <1>11, <2>2, <2>3, <2>8, <3>2
    <3> QED BY <1>10, <2>8, <3>1, <3>3 DEF Left
  <2>9. ASSUME NEW w \in torn PROVE Beyond(w)'
    <3>1. ~exec[e].hand
      BY <1>3
    <3>2. w <= exec[e].to /\ w \in Int /\ exec[e].to \in Int
      BY <1>6, <3>1, ExecFacts, Numbers
    <3>3. exec'[e].hand = exec[e].hand /\ exec'[e].pc = "info" /\ exec'[e].to = exec[e].to
      BY <1>2, <1>4
    <3>4. exec'[e].to >= w
      BY <3>2, <3>3
    <3>5. ~exec'[e].hand
      BY <3>1, <3>3, Zenon
    <3> QED BY <3>3, <3>4, <3>5 DEF Beyond
  <2>10. KeptInv'
    <3>1. \A x \in Months : table'[x] = NoItem \/ Own(x)'
      BY <1>1, <1>10, <1>12
    <3>2. KeptOf(L)' \subseteq table'[Latest].days
      <4>1. CASE L \in MonthsFound
        BY <1>1, <2>5, <2>6, <4>1
      <4>2. CASE L \notin MonthsFound
        BY <1>1, <1>12, <2>7, <4>2
      <4> QED BY <4>1, <4>2
    <3>3. ASSUME NEW x \in Months \ {L}, KeptOf(x)' # {}
          PROVE  Own(x)' /\ KeptOf(x)' \subseteq table'[x].days
      <4>1. CASE x \in MonthsFound
        <5>1. table[x].origin = x /\ KeptOf(x)' \subseteq table[x].days
          BY <2>5, <2>6, <3>3, <4>1
        <5> QED BY <1>1, <5>1 DEF Own
      <4>2. CASE x \notin MonthsFound
        <5>1. KeptOf(x)' = KeptOf(x)
          BY <2>7, <4>2
        <5>2. Own(x) /\ KeptOf(x) \subseteq table[x].days
          BY <1>12, <3>3, <5>1
        <5> QED BY <1>1, <1>10, <5>1, <5>2
      <4> QED BY <4>1, <4>2
    <3>4. ASSUME L \in Months, Own(L)'
          PROVE  KeptOf(L)' \subseteq table'[L].days \/ \E w \in torn' : Left(w)' /\ Beyond(w)'
      <4>1. Own(L)
        BY <1>10, <3>4
      <4>2. PICK w \in torn \ found : L < Month[w]
        BY <2>2, <2>3, <4>1
      <4> QED BY <2>8, <2>9, <4>2
    <3>5. ASSUME NEW x \in Months, Own(x)', x > L PROVE FALSE
      BY <1>10, <1>11, <2>2, <2>3, <3>5
    <3> QED BY <1>10, <3>1, <3>2, <3>3, <3>4, <3>5, KeptNext
  <2>11. TableBase'
    <3>1. CASE Own(L)
      <4>1. PICK w \in torn \ found : L < Month[w]
        BY <2>2, <2>3, <3>1
      <4> QED BY <2>8, <4>1 DEF TableBase
    <3>2. CASE ~Own(L)
      <4>1. \A x \in Months : Own(x)' => x < L
        BY <1>10, <1>11, <2>2, <2>3, <3>2
      <4> QED BY <1>10, <4>1 DEF TableBase, Clean
    <3> QED BY <3>1, <3>2
  <2> QED BY <1>4, <1>5, <1>7, <2>10, <2>11 DEF ItemsInv
<1> QED BY <1>13, <1>14

-----------------------------------------------------------------------------
(* The theorems *)

LEMMA InitItems == Init => ItemsInv
<1> SUFFICES ASSUME Init PROVE ItemsInv
  OBVIOUS
<1>1. /\ \A k \in Keys : table[k].origin = NoMonth /\ table[k] = NoItem
      /\ found = {} /\ torn = {} /\ kept = {}
      /\ \A e \in Executions : exec[e] = Idle
  BY DEF Init, NoItem
<1>2. Idle.pc = "idle" /\ Idle.hand = FALSE /\ Idle.newest = NoMonth
  BY DEF Idle
<1>3. \A m \in Months : ~Own(m) /\ table[m] = NoItem
  BY <1>1, MonthFacts DEF Own
<1>4. Last \notin Months /\ \A m : KeptOf(m) = {}
  BY <1>1, MonthFacts DEF Last, KeptOf
<1>5. OneScan
  BY <1>1, <1>2 DEF OneScan, Active
<1>6. Ranges
  BY <1>1, <1>2 DEF Ranges, RangeInv, Active
<1>7. KeptInv
  BY <1>3, <1>4 DEF KeptInv
<1>8. TableBase
  BY <1>3 DEF TableBase, Clean
<1>9. \A e \in Executions : MergeInv(e) /\ ~Writing(e)
  BY <1>1, <1>2 DEF MergeInv, Writing
<1> QED BY <1>5, <1>6, <1>7, <1>8, <1>9 DEF ItemsInv

LEMMA SameItems ==
  ASSUME ItemsInv, UNCHANGED vars PROVE ItemsInv'
<1>1. UNCHANGED <<window, found, table, info, exec, fails, kept, torn>>
  BY DEF vars
<1>2. OneScan'
  BY <1>1 DEF ItemsInv, OneScan, Active
<1>3. Ranges'
  BY <1>1 DEF ItemsInv, Ranges, RangeInv, Active, RangeOf
<1>4. KeptInv'
  BY <1>1 DEF ItemsInv, KeptInv, Own, Last, KeptOf, MonthsFound, Left, Beyond, Writing
<1>5. TableBase'
  BY <1>1 DEF ItemsInv, TableBase, Clean, Own, Last, Left, Writing
<1>6. ASSUME NEW e \in Executions PROVE MergeInv(e)' /\ (Writing(e)' => WriteInv(e)')
  BY <1>1 DEF ItemsInv, MergeInv, WriteInv, Writing, MonthsFound, Own, Last, KeptOf
<1> QED BY <1>2, <1>3, <1>4, <1>5, <1>6 DEF ItemsInv

LEMMA ItemsInvariance ==
  ASSUME Mild PROVE Spec => []ItemsInv
<1>1. TypeInv /\ ItemsInv /\ [Next]_vars => ItemsInv'
  <2> SUFFICES ASSUME TypeInv, ItemsInv, [Next]_vars PROVE ItemsInv'
    OBVIOUS
  <2>1. CASE UNCHANGED vars
    BY <2>1, SameItems
  <2>2. CASE Tick
    BY <2>2, TickItems
  <2>3. ASSUME NEW e \in Executions,
               \/ StartAfterLoad(e) \/ StartByHand(e) \/ CheckSkips(e) \/ CheckContinues(e)
               \/ CheckByHand(e) \/ ScanMetadata(e) \/ ReadExisting(e)
               \/ MergeThrows(e) \/ NoneFound(e) \/ BatchWrite(e) \/ StoreEnds(e)
               \/ UpdateInfo(e) \/ ExecutionFails(e)
        PROVE  ItemsInv'
    BY <2>3, StartItems, CheckItems, ScanItems, ReadItems, ThrowItems, NoneItems, BatchItems,
       StoreItems, UpdateItems, FailItems
  <2>4. ASSUME NEW e \in Executions, NEW m \in Months, Merge(e, m) PROVE ItemsInv'
    BY <2>4, MergeItems
  <2> QED BY <2>1, <2>2, <2>3, <2>4 DEF Next
<1> QED BY <1>1, InitItems, TypeInvariance, PTL DEF Spec

\* A day that a scan has stored stays in the item of its month, wherever a lambda that
\* fails half-way leaves the items (store-metadata-into-ddb.ts), however often that
\* happens, if the scan after it ends.
THEOREM StoredStays == ASSUME Mild PROVE Spec => []StoredDaysKept
<1>1. TypeInv /\ ItemsInv => StoredDaysKept
  <2> SUFFICES ASSUME TypeInv, ItemsInv, NEW d \in kept
               PROVE  \E k \in Keys : table[k].origin = Month[d] /\ d \in table[k].days
    BY DEF StoredDaysKept
  <2>1. Month[d] \in Months /\ d \in KeptOf(Month[d]) /\ Latest \in Keys /\ Months \subseteq Keys
    BY MonthFacts DEF TypeInv, TypeOK, KeptOf
  <2>2. CASE Month[d] = Last
    <3>1. d \in table[Latest].days
      BY <2>1, <2>2 DEF ItemsInv, KeptInv
    <3> QED BY <2>1, <2>2, <3>1 DEF Last
  <2>3. CASE Month[d] # Last
    <3>1. Own(Month[d]) /\ d \in table[Month[d]].days
      BY <2>1, <2>3 DEF ItemsInv, KeptInv
    <3> QED BY <2>1, <3>1 DEF Own
  <2> QED BY <2>2, <2>3
<1> QED BY <1>1, ItemsInvariance, TypeInvariance, PTL

\* The latest item is that of the newest month and the others are under theirs, once what
\* a failed scan has left is stored again (store-metadata-into-ddb.ts).
THEOREM NewestIsLatest == ASSUME Mild PROVE Spec => []LatestIsNewest
<1>1. TypeInv /\ ItemsInv => LatestIsNewest
  <2> SUFFICES ASSUME TypeInv, ItemsInv, torn = {}, \A e \in Executions : exec[e] = Idle,
                      NEW m \in Months, table[m] # NoItem
               PROVE  table[m].origin = m /\ m <= table[Latest].origin
    BY DEF LatestIsNewest
  <2>1. \A e \in Executions : ~Writing(e)
    BY DEF Writing, Idle
  <2>2. Own(m)
    BY DEF ItemsInv, KeptInv
  <2>3. m < Last
    BY <2>1, <2>2 DEF ItemsInv, TableBase, Clean
  <2> QED BY <2>2, <2>3, Numbers DEF Own, Last
<1> QED BY <1>1, ItemsInvariance, TypeInvariance, PTL
=============================================================================
