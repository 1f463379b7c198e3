-------------------------- MODULE ViewRefresh_proofs --------------------------
(***************************************************************************)
(* Proofs about ViewRefresh, for any days, windows, reports and executions.*)
(***************************************************************************)
EXTENDS ViewRefresh, FiniteSetTheorems, WellFoundedInduction, TLAPS

-----------------------------------------------------------------------------
(* Maxima *)

\* A finite set of numbers has a greatest one.
LEMMA MaxExists ==
  ASSUME NEW S \in SUBSET Int, IsFiniteSet(S), S # {}
  PROVE  \E x \in S : \A y \in S : x >= y
<1> DEFINE Bad == {T \in SUBSET S : T # {} /\ ~(\E x \in T : \A y \in T : x >= y)}
<1> SUFFICES ASSUME S \in Bad PROVE FALSE
  OBVIOUS
<1> HIDE DEF Bad
<1>1. \A T \in Bad : /\ T \subseteq S /\ T # {}
                     /\ ~(\E x \in T : \A y \in T : x >= y)
  BY DEF Bad
<1>2. Bad \subseteq FiniteSubsetsOf(S)
  BY <1>1, FS_Subset DEF FiniteSubsetsOf
<1>3. PICK T \in Bad : \A U \in Bad : <<U, T>> \notin StrictSubsetOrdering(S)
  BY <1>2, WFMin, FS_StrictSubsetOrderingWellFounded
<1>4. PICK x \in T : TRUE
  BY <1>1
<1> DEFINE U == T \ {x}
<1>5. U # {}
  <2>1. U = {} => \A y \in T : y = x
    OBVIOUS
  <2> QED BY <1>1, <2>1
<1>6. U \subseteq T /\ U # T /\ U \in SUBSET S
  BY <1>1
<1>7. <<U, T>> \in StrictSubsetOrdering(S)
  BY <1>1, <1>6 DEF StrictSubsetOrdering
<1>8. U \notin Bad
  BY <1>3, <1>7
<1>9. PICK m \in U : \A y \in U : m >= y
  BY <1>5, <1>6, <1>8 DEF Bad
<1>10. x \in Int /\ m \in Int /\ \A y \in T : y = x \/ y \in U
  BY <1>1, <1>6
<1>11. CASE m >= x
  <2>1. \A y \in T : m >= y
    BY <1>9, <1>10, <1>11
  <2> QED BY <1>1, <1>6, <1>9, <2>1
<1>12. CASE x > m
  <2>1. \A y \in U : x >= y
    BY <1>1, <1>9, <1>10, <1>12
  <2>2. \A y \in T : x >= y
    BY <1>10, <2>1
  <2> QED BY <1>1, <1>4, <2>2
<1> QED BY <1>10, <1>11, <1>12

LEMMA MaxType ==
  ASSUME NEW S \in SUBSET Int, IsFiniteSet(S), S # {}
  PROVE  Max(S) \in S /\ \A y \in S : Max(S) >= y
BY MaxExists DEF Max

LEMMA MaxOfTwo ==
  ASSUME NEW a \in Int, NEW b \in Int
  PROVE  Max({a, b}) \in {a, b} /\ Max({a, b}) >= a /\ Max({a, b}) >= b
<1>1. IsFiniteSet({a, b})
  <2>1. {a, b} = {a} \cup {b}
    OBVIOUS
  <2>2. IsFiniteSet({a})
    BY FS_Singleton
  <2>3. IsFiniteSet({a} \cup {b})
    BY <2>2, FS_AddElement
  <2> QED BY <2>1, <2>3
<1> QED BY <1>1, MaxType

\* The times of merges of some events, and any number, have a greatest one.
LEMMA MaxOfImage ==
  ASSUME NEW f \in [Times -> Nat], NEW B \in SUBSET Times, NEW n \in Nat
  PROVE  LET S == {n} \union {f[t] : t \in B}
         IN  Max(S) \in S /\ \A y \in S : Max(S) >= y
<1> DEFINE I == {f[t] : t \in B}
           g == [t \in B |-> f[t]]
<1>1. IsFiniteSet(Times)
  <2>1. First \in Int /\ MaxTime - 1 \in Int
    BY RefreshAssumption
  <2> QED BY <2>1, FS_Interval DEF Times
<1>2. IsFiniteSet(B)
  BY <1>1, FS_Subset
<1>3. g \in Surjection(B, I)
  BY DEF Surjection
<1>4. IsFiniteSet(I)
  BY <1>2, <1>3, FS_Surjection
<1>5. IsFiniteSet(I \cup {n})
  BY <1>4, FS_AddElement
<1>6. {n} \union I = I \cup {n}
  OBVIOUS
<1>7. {n} \union I \in SUBSET Int /\ {n} \union I # {}
  OBVIOUS
<1> HIDE DEF I
<1>8. Max({n} \union I) \in {n} \union I /\ \A y \in {n} \union I : Max({n} \union I) >= y
  BY <1>5, <1>6, <1>7, MaxType
<1> QED BY <1>8 DEF I

-----------------------------------------------------------------------------
(* Days *)

LEMMA DayOfType ==
  ASSUME NEW t \in 0..MaxTime
  PROVE  /\ DayOf[t] \in Days
         /\ DayStart[DayOf[t]] <= t
         /\ DayOf[t] + 1 \in Days => t < DayStart[DayOf[t] + 1]
<1> DEFINE S == {d \in Days : DayStart[d] <= t}
<1>1. S \in SUBSET Int /\ S # {}
  BY RefreshAssumption DEF Days
<1>2. IsFiniteSet(S)
  <2>1. IsFiniteSet(Days)
    BY FS_Interval, RefreshAssumption DEF Days
  <2> QED BY <2>1, FS_Subset
<1>3. PICK d \in S : \A c \in S : d >= c
  BY <1>1, <1>2, MaxExists
<1>4. d \in Days /\ DayStart[d] <= t
  OBVIOUS
<1>5. d + 1 \in Days => t < DayStart[d + 1]
  <2> SUFFICES ASSUME d + 1 \in Days PROVE t < DayStart[d + 1]
    OBVIOUS
  <2>1. d + 1 \notin S
    BY <1>3 DEF Days
  <2>2. DayStart[d + 1] \in Nat
    BY RefreshAssumption DEF Days
  <2> QED BY <2>1, <2>2, RefreshAssumption
<1>6. InDay(t, d)
  BY <1>4, <1>5 DEF InDay
<1>7. DayOf[t] = CHOOSE c \in Days : InDay(t, c)
  BY DEF DayOf
<1>8. DayOf[t] \in Days /\ InDay(t, DayOf[t])
  BY <1>4, <1>6, <1>7
<1> QED BY <1>8 DEF InDay

-----------------------------------------------------------------------------
(* Types *)

\* A scheduled execution is for the day before some window that there was.
WithinWindows ==
  \A e \in Executions : exec[e].pc # "idle" /\ ~exec[e].hand => exec[e].to + Day <= latest

TypeInv == TypeOK /\ WithinWindows

LEMMA IdleType == Idle \in ExecStates /\ Idle.pc = "idle" /\ Idle.hand = FALSE /\ Idle.sp = 1
BY RefreshAssumption DEF Idle, ExecStates

LEMMA InitTyped == Init => TypeInv
<1> SUFFICES ASSUME Init PROVE TypeInv
  OBVIOUS
<1>1. First \in First..MaxTime /\ 0 \in 0..MaxFails /\ 0 \in 0..MaxByHand /\ First \in First..First
  BY RefreshAssumption
<1>2. NoRows \in [1..Reports -> [Days -> SUBSET Times]]
  BY DEF NoRows
<1>3. TypeOK
  BY <1>1, <1>2, IdleType DEF Init, TypeOK
<1>4. WithinWindows
  BY IdleType DEF Init, WithinWindows
<1> QED BY <1>3, <1>4 DEF TypeInv

LEMMA BecomeType ==
  ASSUME TypeInv, NEW e \in Executions, NEW r \in ExecStates, Become(e, r),
         UNCHANGED latest,
         r.pc # "idle" /\ ~r.hand => r.to + Day <= latest
  PROVE  exec' \in [Executions -> ExecStates] /\ WithinWindows'
BY DEF TypeInv, TypeOK, WithinWindows, Become

\* A report that is not the last has a next one.
LEMMA NextInList ==
  ASSUME TypeInv, NEW e \in Executions, NextReport(e)
  PROVE  exec[e].sp + 1 \in 1..Reports /\ exec[e].sp \in Int
<1>1. exec[e].sp \in 1..Reports
  BY DEF TypeInv, TypeOK, ExecStates
<1>2. exec[e].sp # Reports
  BY DEF NextReport
<1>3. Reports \in Nat
  BY RefreshAssumption
<1> QED BY <1>1, <1>2, <1>3

LEMMA DateType ==
  ASSUME TypeInv, NEW e \in Executions
  PROVE  RefreshDate(e) \in Days
BY DayOfType DEF TypeInv, TypeOK, ExecStates, RefreshDate

LEMMA SucceedsType ==
  ASSUME TypeInv, NEW e \in Executions, Succeeds(e), UNCHANGED latest,
         exec[e].pc # "idle"
  PROVE  /\ exec' \in [Executions -> ExecStates] /\ WithinWindows'
         /\ refreshed' \in First..latest
         /\ refreshed' >= refreshed
         /\ refreshed' = refreshed \/ (~exec[e].hand /\ refreshed' = exec[e].to + Day)
<1>1. exec' \in [Executions -> ExecStates] /\ WithinWindows'
  BY IdleType, BecomeType DEF Succeeds
<1>2. CASE exec[e].hand
  BY <1>1, <1>2, RefreshAssumption DEF Succeeds, TypeInv, TypeOK
<1>3. CASE ~exec[e].hand
  <2>1. refreshed' = Max({refreshed, exec[e].to + Day})
    BY <1>3 DEF Succeeds
  <2>2. refreshed \in First..latest /\ exec[e].to + Day \in Int /\ refreshed \in Int
        /\ exec[e].to + Day <= latest /\ latest \in Nat /\ First \in Nat
    BY <1>3, RefreshAssumption DEF TypeInv, TypeOK, WithinWindows, ExecStates
  <2>3. /\ refreshed' \in {refreshed, exec[e].to + Day}
        /\ refreshed' >= refreshed /\ refreshed' >= exec[e].to + Day
    BY <2>1, <2>2, MaxOfTwo
  <2>4. refreshed' \in First..latest
    BY <2>2, <2>3
  <2> QED BY <1>1, <1>3, <2>3, <2>4
<1> QED BY <1>2, <1>3

LEMMA SubmitTyped ==
  ASSUME TypeInv, SubmitWindow PROVE TypeInv'
<1>1. PICK n \in Lengths : latest + n <= MaxTime /\ latest' = latest + n
  BY DEF SubmitWindow
<1>2. n \in Nat /\ latest \in First..MaxTime /\ First \in Nat /\ MaxTime \in Nat
  BY RefreshAssumption DEF TypeInv, TypeOK
<1>3. latest' \in First..MaxTime /\ latest' >= latest
  BY <1>1, <1>2
<1>4. refreshed \in First..latest'
  BY <1>2, <1>3 DEF TypeInv, TypeOK
<1>5. TypeOK'
  BY <1>3, <1>4 DEF SubmitWindow, TypeInv, TypeOK, Loaded
<1>6. WithinWindows'
  <2> SUFFICES ASSUME NEW e \in Executions, exec[e].pc # "idle", ~exec[e].hand
               PROVE  exec[e].to + Day <= latest'
    BY DEF SubmitWindow, WithinWindows
  <2>1. exec[e].to + Day <= latest /\ exec[e].to + Day \in Int
    BY RefreshAssumption DEF TypeInv, TypeOK, WithinWindows, ExecStates
  <2> QED BY <1>2, <1>3, <2>1
<1> QED BY <1>5, <1>6 DEF TypeInv

\* A merge gives its events a time that is no earlier than any there is.
LEMMA MergeCreates ==
  ASSUME TypeInv, MergeEvents
  PROVE  \E T \in SUBSET Waiting, second \in Nat \ {0} :
           /\ created' = [t \in Times |-> IF t \in T THEN second ELSE created[t]]
           /\ \A t \in Times : created[t] <= second
<1> DEFINE second(s) == s + Max({1} \union {created[t] : t \in Times})
<1>1. PICK T \in SUBSET Waiting, s \in {0, 1} :
        created' = [t \in Times |-> IF t \in T THEN second(s) ELSE created[t]]
  BY DEF MergeEvents
<1> DEFINE m == Max({1} \union {created[t] : t \in Times})
<1>2. created \in [Times -> Nat]
  BY DEF TypeInv, TypeOK
<1>3. m \in {1} \union {created[t] : t \in Times}
      /\ \A y \in {1} \union {created[t] : t \in Times} : m >= y
  BY <1>2, MaxOfImage
<1> HIDE DEF m
<1>4. m \in Nat /\ m >= 1 /\ \A t \in Times : m >= created[t]
  BY <1>2, <1>3
<1>5. second(s) = s + m
  BY DEF m
<1>6. second(s) \in Nat \ {0} /\ \A t \in Times : created[t] <= second(s)
  BY <1>2, <1>4, <1>5
<1> QED BY <1>1, <1>6

LEMMA MergeTyped ==
  ASSUME TypeInv, MergeEvents
  PROVE  TypeInv' /\ Loaded \subseteq Loaded' /\ \A t \in Loaded : created'[t] = created[t]
<1>1. PICK T \in SUBSET Waiting, second \in Nat \ {0} :
        created' = [t \in Times |-> IF t \in T THEN second ELSE created[t]]
  BY MergeCreates
<1>2. created \in [Times -> Nat]
  BY DEF TypeInv, TypeOK
<1>3. created' \in [Times -> Nat] /\ Loaded \subseteq Loaded' /\ \A t \in Loaded : created'[t] = created[t]
  BY <1>1, <1>2 DEF Loaded, Waiting
<1>4. TypeOK'
  BY <1>3 DEF MergeEvents, TypeInv, TypeOK
<1>5. WithinWindows'
  BY DEF MergeEvents, TypeInv, WithinWindows
<1> QED BY <1>3, <1>4, <1>5 DEF TypeInv

ScheduledFor(t) == [Idle EXCEPT !.pc = "check", !.to = t]
AskedFor(f, t)  == [Idle EXCEPT !.pc = "check", !.hand = TRUE, !.from = f, !.to = t]

LEMMA StartStates ==
  ASSUME NEW f \in 0..MaxTime, NEW t \in 0..MaxTime
  PROVE  /\ ScheduledFor(t) \in ExecStates
         /\ ScheduledFor(t).pc = "check"
         /\ ScheduledFor(t).hand = FALSE
         /\ ScheduledFor(t).to = t
         /\ ScheduledFor(t).sp = 1
         /\ AskedFor(f, t) \in ExecStates
         /\ AskedFor(f, t).hand = TRUE
         /\ AskedFor(f, t).from = f
         /\ AskedFor(f, t).sp = 1
<1> DEFINE I == Idle
<1>1. I \in ExecStates /\ I.hand = FALSE /\ I.sp = 1
  BY IdleType
<1> HIDE DEF I
<1>2. /\ [I EXCEPT !.pc = "check", !.to = t] \in ExecStates
      /\ [I EXCEPT !.pc = "check", !.to = t].pc = "check"
      /\ [I EXCEPT !.pc = "check", !.to = t].hand = FALSE
      /\ [I EXCEPT !.pc = "check", !.to = t].to = t
      /\ [I EXCEPT !.pc = "check", !.to = t].sp = 1
  BY <1>1 DEF ExecStates
<1>3. /\ [I EXCEPT !.pc = "check", !.hand = TRUE, !.from = f, !.to = t] \in ExecStates
      /\ [I EXCEPT !.pc = "check", !.hand = TRUE, !.from = f, !.to = t].hand = TRUE
      /\ [I EXCEPT !.pc = "check", !.hand = TRUE, !.from = f, !.to = t].from = f
      /\ [I EXCEPT !.pc = "check", !.hand = TRUE, !.from = f, !.to = t].sp = 1
  BY <1>1 DEF ExecStates
<1> QED BY <1>2, <1>3 DEF I, ScheduledFor, AskedFor

LEMMA StartTyped ==
  ASSUME TypeInv, NEW e \in Executions, RefreshViews(e) \/ StartByHand(e)
  PROVE  TypeInv'
<1>1. /\ Idle \in ExecStates /\ latest \in First..MaxTime
      /\ First \in Nat /\ MaxTime \in Nat /\ Day \in Nat /\ Day <= First
  BY IdleType, RefreshAssumption DEF TypeInv, TypeOK
<1>2. CASE RefreshViews(e)
  <2> DEFINE r == ScheduledFor(latest - Day)
  <2>1. latest - Day \in 0..MaxTime
    BY <1>1
  <2>2. r \in ExecStates /\ r.to = latest - Day
    BY <1>1, <2>1, StartStates
  <2> HIDE DEF r
  <2>5. r.to + Day <= latest
    BY <1>1, <2>2
  <2>6. Become(e, r) /\ UNCHANGED latest
    BY <1>2 DEF RefreshViews, ScheduledFor, r
  <2>3. exec' \in [Executions -> ExecStates] /\ WithinWindows'
    BY <2>2, <2>5, <2>6, BecomeType
  <2>4. load' \in BOOLEAN
    BY <1>2 DEF RefreshViews, LoadEnds
  <2> QED BY <1>2, <2>3, <2>4 DEF RefreshViews, TypeInv, TypeOK, Loaded
<1>3. CASE StartByHand(e)
  <2>1. PICK from, to \in First..latest :
          Become(e, AskedFor(from, to))
    BY <1>3 DEF StartByHand, AskedFor
  <2> DEFINE r == AskedFor(from, to)
  <2>2. from \in 0..MaxTime /\ to \in 0..MaxTime
    BY <1>1
  <2>3. r \in ExecStates /\ r.hand
    BY <1>1, <2>2, StartStates
  <2> HIDE DEF r
  <2>6. Become(e, r) /\ UNCHANGED latest
    BY <1>3, <2>1 DEF StartByHand, r
  <2>4. exec' \in [Executions -> ExecStates] /\ WithinWindows'
    BY <2>3, <2>6, BecomeType
  <2>5. byHand' \in 0..MaxByHand
    <3>1. byHand < MaxByHand /\ byHand' = byHand + 1
      BY <1>3 DEF StartByHand
    <3>2. byHand \in 0..MaxByHand
      BY DEF TypeInv, TypeOK
    <3> QED BY <3>1, <3>2, RefreshAssumption
  <2> QED BY <1>3, <2>4, <2>5 DEF StartByHand, TypeInv, TypeOK, Loaded
<1> QED BY <1>2, <1>3

LEMMA CheckTyped ==
  ASSUME TypeInv, NEW e \in Executions, CheckSkips(e) \/ CheckContinues(e) \/ StartReports(e) \/ NextReport(e)
  PROVE  TypeInv'
<1>1. exec[e] \in ExecStates /\ WithinWindows
  BY DEF TypeInv, TypeOK
<1>2. CASE CheckSkips(e)
  <2>1. exec' \in [Executions -> ExecStates] /\ WithinWindows'
    BY <1>2, IdleType, BecomeType DEF CheckSkips
  <2> QED BY <1>2, <2>1 DEF CheckSkips, TypeInv, TypeOK, Loaded
<1>3. CASE CheckContinues(e)
  <2> DEFINE r == [exec[e] EXCEPT !.pc = "base"]
  <2>1. r \in ExecStates /\ (~r.hand => r.to + Day <= latest)
    BY <1>1, <1>3 DEF ExecStates, WithinWindows, CheckContinues
  <2>2. exec' \in [Executions -> ExecStates] /\ WithinWindows'
    BY <1>3, <2>1, BecomeType DEF CheckContinues
  <2> QED BY <1>3, <2>2 DEF CheckContinues, TypeInv, TypeOK, Loaded
<1>4. CASE StartReports(e)
  <2> DEFINE r == [exec[e] EXCEPT !.pc = "sp"]
  <2>1. r \in ExecStates /\ (~r.hand => r.to + Day <= latest)
    BY <1>1, <1>4 DEF ExecStates, WithinWindows, StartReports
  <2>2. exec' \in [Executions -> ExecStates] /\ WithinWindows'
    BY <1>4, <2>1, BecomeType DEF StartReports
  <2> QED BY <1>4, <2>2 DEF StartReports, TypeInv, TypeOK, Loaded
<1>5. CASE NextReport(e)
  <2> DEFINE r == [exec[e] EXCEPT !.pc = "sp", !.sp = @ + 1]
  <2>1. exec[e].sp + 1 \in 1..Reports
    BY <1>5, NextInList
  <2>2. r \in ExecStates /\ (~r.hand => r.to + Day <= latest)
    BY <1>1, <1>5, <2>1 DEF ExecStates, WithinWindows, NextReport
  <2>3. exec' \in [Executions -> ExecStates] /\ WithinWindows'
    BY <1>5, <2>2, BecomeType DEF NextReport
  <2> QED BY <1>5, <2>3 DEF NextReport, TypeInv, TypeOK, Loaded
<1> QED BY <1>2, <1>3, <1>4, <1>5

LEMMA BaseTyped ==
  ASSUME TypeInv, NEW e \in Executions, RefreshBase(e)
  PROVE  TypeInv' /\ base \subseteq base'
<1> DEFINE r == [exec[e] EXCEPT !.pc = "start"]
<1>1. exec[e] \in ExecStates /\ WithinWindows
  BY DEF TypeInv, TypeOK
<1>2. r \in ExecStates /\ (~r.hand => r.to + Day <= latest)
  BY <1>1 DEF ExecStates, WithinWindows, RefreshBase
<1>3. exec' \in [Executions -> ExecStates] /\ WithinWindows'
  BY <1>2, BecomeType DEF RefreshBase
<1>4. base \subseteq base' /\ base' \subseteq Loaded
  BY DEF RefreshBase, ToCopy, TypeInv, TypeOK
<1> QED BY <1>3, <1>4 DEF RefreshBase, TypeInv, TypeOK, Loaded

LEMMA ReportTyped ==
  ASSUME TypeInv, NEW e \in Executions, RefreshReport(e)
  PROVE  TypeInv'
<1> DEFINE r == [exec[e] EXCEPT !.pc = "done"]
<1>1. exec[e] \in ExecStates /\ WithinWindows
  BY DEF TypeInv, TypeOK
<1>2. r \in ExecStates /\ (~r.hand => r.to + Day <= latest)
  BY <1>1 DEF ExecStates, WithinWindows, RefreshReport
<1>3. exec' \in [Executions -> ExecStates] /\ WithinWindows'
  BY <1>2, BecomeType DEF RefreshReport
<1>4. report' \in [1..Reports -> [Days -> SUBSET Times]]
  <2>1. \A d \in Days : TimesOf[d] \subseteq Times
    BY DEF TimesOf
  <2> QED BY <2>1 DEF RefreshReport, TypeInv, TypeOK
<1> QED BY <1>3, <1>4 DEF RefreshReport, TypeInv, TypeOK, Loaded

LEMMA EndTyped ==
  ASSUME TypeInv, NEW e \in Executions, SkipReports(e) \/ RecordDay(e) \/ ExecutionFails(e)
  PROVE  TypeInv'
<1>1. CASE SkipReports(e)
  <2>1. exec' \in [Executions -> ExecStates] /\ WithinWindows' /\ refreshed' \in First..latest
    BY <1>1, SucceedsType DEF SkipReports
  <2> QED BY <1>1, <2>1 DEF SkipReports, TypeInv, TypeOK, Loaded
<1>2. CASE RecordDay(e)
  <2>1. exec' \in [Executions -> ExecStates] /\ WithinWindows' /\ refreshed' \in First..latest
    BY <1>2, SucceedsType DEF RecordDay
  <2>2. unsaved' \subseteq Days
    BY <1>2, DateType DEF RecordDay, TypeInv, TypeOK
  <2> QED BY <1>2, <2>1, <2>2 DEF RecordDay, TypeInv, TypeOK, Loaded
<1>3. CASE ExecutionFails(e)
  <2>1. exec' \in [Executions -> ExecStates] /\ WithinWindows'
    BY <1>3, IdleType, BecomeType DEF ExecutionFails
  <2>2. fails' \in 0..MaxFails
    BY <1>3, RefreshAssumption DEF ExecutionFails, TypeInv, TypeOK
  <2> QED BY <1>3, <2>1, <2>2 DEF ExecutionFails, TypeInv, TypeOK, Loaded
<1> QED BY <1>1, <1>2, <1>3

LEMMA RowTyped ==
  ASSUME TypeInv, NEW d \in Days, RowInserted(d) \/ RowLost(d)
  PROVE  TypeInv'
<1>1. CASE RowInserted(d)
  <2>1. d \in Int /\ recorded \in Int
    BY RefreshAssumption DEF TypeInv, TypeOK, Days, NoDay
  <2>2. recorded' \in {d, recorded}
    BY <1>1, <2>1, MaxOfTwo DEF RowInserted
  <2>3. recorded' \in Days \union {NoDay} /\ unsaved' \subseteq Days
    BY <1>1, <2>2 DEF RowInserted, TypeInv, TypeOK
  <2> QED BY <1>1, <2>3 DEF RowInserted, TypeInv, TypeOK, Loaded, WithinWindows
<1>2. CASE RowLost(d)
  <2>1. fails' \in 0..MaxFails
    BY <1>2, RefreshAssumption DEF RowLost, TypeInv, TypeOK
  <2> QED BY <1>2, <2>1 DEF RowLost, TypeInv, TypeOK, Loaded, WithinWindows
<1> QED BY <1>1, <1>2

LEMMA NextTyped == TypeInv /\ [Next]_vars => TypeInv'
<1> SUFFICES ASSUME TypeInv, [Next]_vars PROVE TypeInv'
  OBVIOUS
<1>1. CASE UNCHANGED vars
  BY <1>1 DEF vars, TypeInv, TypeOK, WithinWindows, Loaded
<1>2. CASE RefreshNotDue
  BY <1>2 DEF RefreshNotDue, LoadEnds, TypeInv, TypeOK, WithinWindows, Loaded
<1>3. CASE SubmitWindow \/ MergeEvents
  BY <1>3, SubmitTyped, MergeTyped
<1>4. ASSUME NEW e \in Executions,
             \/ RefreshViews(e) \/ StartByHand(e) \/ CheckSkips(e) \/ CheckContinues(e)
             \/ RefreshBase(e) \/ SkipReports(e) \/ StartReports(e) \/ RefreshReport(e)
             \/ NextReport(e) \/ RecordDay(e) \/ ExecutionFails(e)
      PROVE  TypeInv'
  BY <1>4, StartTyped, CheckTyped, BaseTyped, ReportTyped, EndTyped
<1>5. ASSUME NEW d \in Days, RowInserted(d) \/ RowLost(d) PROVE TypeInv'
  BY <1>5, RowTyped
<1> QED BY <1>1, <1>2, <1>3, <1>4, <1>5 DEF Next

LEMMA TypeInvariance == Spec => []TypeInv
<1> QED BY InitTyped, NextTyped, PTL DEF Spec

\* The state keeps its types; in particular the number of a report stays in the list, and
\* what has been refreshed within the windows that there are (TypeOK).
THEOREM RefreshTypeCorrect == Spec => []TypeOK
<1>1. TypeInv => TypeOK
  BY DEF TypeInv
<1> QED BY <1>1, TypeInvariance, PTL

-----------------------------------------------------------------------------
(* No event is passed *)

\* Windows are loaded before the next one is submitted, procedures fail openly, operators
\* ask for the freshness at least, and refreshes do not fail for longer than it.
Careful == ~LateLoads /\ ~CaughtErrors /\ ~ShortRanges /\ MaxGap <= Freshness

OldestFirst     == \A t \in Loaded \ base, u \in base : created[u] <= created[t]
GapKept         == latest <= refreshed + MaxGap
RefreshedCopied == \A t \in Times : t < refreshed => t \in base
LoadedBefore(e) == \A t \in Times : t < exec[e].to + Day => t \in Loaded
CopiedBefore(e) == \A t \in Times : t < exec[e].to + Day => t \in base
RangesLoaded    == \A e \in Executions : exec[e].pc # "idle" /\ ~exec[e].hand =>
                     /\ LoadedBefore(e)
                     /\ exec[e].pc \in {"start", "sp", "done"} => CopiedBefore(e)
LongRanges      == \A e \in Executions : exec[e].pc \in {"check", "base"} /\ exec[e].hand =>
                     exec[e].from <= latest - Freshness

CopyInv == OldestFirst /\ GapKept /\ RefreshedCopied /\ RangesLoaded /\ LongRanges

LEMMA NewestType ==
  ASSUME TypeInv, NEW since \in Int
  PROVE  Newest(since) = 0 \/ \E u \in base : Newest(since) = created[u]
<1> DEFINE B == {u \in base : u >= since}
<1>1. created \in [Times -> Nat] /\ B \in SUBSET Times
  BY DEF TypeInv, TypeOK, Loaded
<1>2. Max({0} \union {created[t] : t \in B}) \in {0} \union {created[t] : t \in B}
  BY <1>1, MaxOfImage
<1>3. Newest(since) \in {0} \union {created[t] : t \in B}
  BY <1>2 DEF Newest
<1> QED BY <1>3

\* What is loaded and not in the base view is taken by a refresh from its time on.
LEMMA TakesNew ==
  ASSUME TypeInv, OldestFirst, NEW since \in Int,
         \A t \in Loaded \ base : t >= since
  PROVE  Loaded \ base \subseteq ToCopy(since)
<1> SUFFICES ASSUME NEW t \in Loaded \ base PROVE created[t] >= Newest(since)
  BY DEF ToCopy
<1>1. created \in [Times -> Nat] /\ t \in Times /\ base \subseteq Times
  BY DEF TypeInv, TypeOK, Loaded
<1>2. CASE Newest(since) = 0
  BY <1>1, <1>2
<1>3. CASE \E u \in base : Newest(since) = created[u]
  BY <1>1, <1>3 DEF OldestFirst
<1> QED BY <1>2, <1>3, NewestType

LEMMA NewIsFresh ==
  ASSUME TypeInv, CopyInv, Careful, NEW t \in Loaded \ base
  PROVE  t >= latest - Freshness
<1>1. t \in Times /\ ~(t < refreshed) /\ latest <= refreshed + MaxGap
  BY DEF CopyInv, RefreshedCopied, GapKept, Loaded
<1>2. t \in Int /\ refreshed \in Int /\ latest \in Int /\ MaxGap \in Nat /\ Freshness \in Nat
      /\ MaxGap <= Freshness
  BY <1>1, RefreshAssumption DEF Times, TypeInv, TypeOK, Careful
<1> QED BY <1>1, <1>2

LEMMA CopyInvPasses ==
  ASSUME TypeInv, CopyInv, Careful PROVE NoEventPassed
<1>1. latest - Freshness \in Int
  BY RefreshAssumption DEF TypeInv, TypeOK
<1> QED BY <1>1, NewIsFresh, TakesNew DEF CopyInv, NoEventPassed

\* A refresh of the base view, scheduled or not, takes all that is loaded.
LEMMA CopiesAll ==
  ASSUME TypeInv, CopyInv, Careful, NEW e \in Executions, RefreshBase(e)
  PROVE  base' = Loaded
<1>1. /\ exec[e] \in ExecStates /\ latest \in Int /\ Freshness \in Nat
      /\ Since(e) \in Int /\ base \subseteq Loaded /\ Loaded \subseteq Times
  BY RefreshAssumption DEF TypeInv, TypeOK, ExecStates, Since, Loaded
<1>2. Since(e) <= latest - Freshness
  <2>1. CASE exec[e].hand
    BY <1>1, <2>1 DEF Since, RefreshBase, CopyInv, LongRanges
  <2>2. CASE ~exec[e].hand
    BY <1>1, <2>2 DEF Since
  <2> QED BY <2>1, <2>2
<1>3. \A t \in Loaded \ base : t >= Since(e)
  <2> SUFFICES ASSUME NEW t \in Loaded \ base PROVE t >= Since(e)
    OBVIOUS
  <2>1. t >= latest - Freshness /\ t \in Int
    BY <1>1, NewIsFresh, RefreshAssumption DEF Times
  <2> QED BY <1>1, <1>2, <2>1
<1>4. Loaded \ base \subseteq ToCopy(Since(e)) /\ ToCopy(Since(e)) \subseteq Loaded
  BY <1>1, <1>3, TakesNew DEF CopyInv, ToCopy
<1>5. base' = base \union ToCopy(Since(e))
  BY DEF RefreshBase, Careful
<1> QED BY <1>1, <1>4, <1>5

LEMMA InitCopied == Init => CopyInv
<1> SUFFICES ASSUME Init PROVE CopyInv
  OBVIOUS
<1>1. Loaded = {}
  BY DEF Init, Loaded
<1>2. \A t \in Times : ~(t < First)
  BY RefreshAssumption DEF Times
<1>3. \A e \in Executions : exec[e].pc = "idle"
  BY IdleType DEF Init
<1>4. OldestFirst
  BY <1>1 DEF OldestFirst
<1>5. GapKept
  BY RefreshAssumption DEF Init, GapKept
<1>6. RefreshedCopied
  BY <1>2 DEF Init, RefreshedCopied
<1>7. RangesLoaded /\ LongRanges
  BY <1>3 DEF RangesLoaded, LongRanges
<1> QED BY <1>4, <1>5, <1>6, <1>7 DEF CopyInv

LEMMA GapGrows ==
  ASSUME NEW a \in Int, NEW b \in Int, NEW c \in Int, NEW g \in Int, a <= b + g, b <= c
  PROVE  a <= c + g
OBVIOUS

\* Steps that leave the loads and the base view alone.
LEMMA KeepsCopies ==
  ASSUME TypeInv, CopyInv, UNCHANGED <<latest, created, base>>,
         NEW e \in Executions, NEW r \in ExecStates, Become(e, r),
         refreshed' \in First..latest, refreshed' >= refreshed,
         \A t \in Times : t < refreshed' => t \in base,
         \/ r.pc = "idle"
         \/ /\ exec[e].pc # "idle" /\ r.hand = exec[e].hand /\ r.from = exec[e].from /\ r.to = exec[e].to
            /\ r.pc \in {"start", "sp", "done"} => exec[e].pc \in {"start", "sp", "done"}
            /\ r.pc \in {"check", "base"} => exec[e].pc \in {"check", "base"}
  PROVE  CopyInv'
<1>1. OldestFirst' /\ RefreshedCopied'
  BY DEF CopyInv, OldestFirst, RefreshedCopied, Loaded
<1>2. GapKept'
  <2>1. latest \in Int /\ refreshed \in Int /\ MaxGap \in Int /\ refreshed' \in Int
    BY RefreshAssumption DEF TypeInv, TypeOK
  <2>2. latest <= refreshed + MaxGap /\ latest' = latest
    BY DEF CopyInv, GapKept
  <2>3. refreshed <= refreshed'
    OBVIOUS
  <2>4. latest <= refreshed' + MaxGap
    BY <2>1, <2>2, <2>3, GapGrows, Zenon
  <2> QED BY <2>2, <2>4 DEF GapKept
<1>3. \A x \in Executions : exec'[x] = IF x = e THEN r ELSE exec[x]
  BY DEF Become, TypeInv, TypeOK
<1>4. RangesLoaded'
  BY <1>3 DEF CopyInv, RangesLoaded, LoadedBefore, CopiedBefore, Loaded
<1>5. LongRanges'
  BY <1>3 DEF CopyInv, LongRanges
<1> QED BY <1>1, <1>2, <1>4, <1>5 DEF CopyInv

LEMMA SubmitCopied ==
  ASSUME TypeInv, CopyInv, SubmitWindow PROVE CopyInv'
<1>1. PICK n \in Lengths : latest + n <= refreshed + MaxGap /\ latest' = latest + n
  BY DEF SubmitWindow
<1>2. n \in Nat /\ latest \in Int /\ refreshed \in Int /\ Freshness \in Nat
  BY RefreshAssumption DEF TypeInv, TypeOK
<1>3. GapKept'
  BY <1>1 DEF SubmitWindow, GapKept
<1>4. LongRanges'
  <2> SUFFICES ASSUME NEW e \in Executions, exec[e].pc \in {"check", "base"}, exec[e].hand
               PROVE  exec[e].from <= latest' - Freshness
    BY DEF SubmitWindow, LongRanges
  <2>1. exec[e].from <= latest - Freshness /\ exec[e].from \in Int
    BY RefreshAssumption DEF CopyInv, LongRanges, TypeInv, TypeOK, ExecStates
  <2> QED BY <1>1, <1>2, <2>1
<1>5. OldestFirst' /\ RefreshedCopied' /\ RangesLoaded'
  BY DEF SubmitWindow, CopyInv, OldestFirst, RefreshedCopied, RangesLoaded, LoadedBefore,
         CopiedBefore, Loaded
<1> QED BY <1>3, <1>4, <1>5 DEF CopyInv

LEMMA MergeCopied ==
  ASSUME TypeInv, CopyInv, MergeEvents PROVE CopyInv'
<1>1. PICK T \in SUBSET Waiting, second \in Nat \ {0} :
        /\ created' = [t \in Times |-> IF t \in T THEN second ELSE created[t]]
        /\ \A t \in Times : created[t] <= second
  BY MergeCreates
<1>2. /\ UNCHANGED <<latest, base, exec, refreshed>>
      /\ base \subseteq Loaded /\ Loaded \subseteq Loaded'
      /\ \A t \in Loaded : created'[t] = created[t]
  BY MergeTyped DEF MergeEvents, TypeInv, TypeOK
<1>3. OldestFirst'
  <2> SUFFICES ASSUME NEW t \in Loaded' \ base, NEW u \in base
               PROVE  created'[u] <= created'[t]
    BY <1>2 DEF OldestFirst
  <2>1. created'[u] = created[u] /\ u \in Times /\ t \in Times
    BY <1>2 DEF Loaded
  <2>2. CASE t \in T
    BY <1>1, <2>1, <2>2
  <2>3. CASE t \notin T
    <3>1. created'[t] = created[t] /\ t \in Loaded \ base
      BY <1>1, <2>1, <2>3 DEF Loaded
    <3> QED BY <2>1, <3>1 DEF CopyInv, OldestFirst
  <2> QED BY <2>2, <2>3
<1>4. GapKept' /\ RefreshedCopied' /\ LongRanges'
  BY <1>2 DEF CopyInv, GapKept, RefreshedCopied, LongRanges
<1>5. RangesLoaded'
  BY <1>2 DEF CopyInv, RangesLoaded, LoadedBefore, CopiedBefore
<1> QED BY <1>3, <1>4, <1>5 DEF CopyInv

\* A scheduled execution starts when all windows up to the latest one are loaded.
LEMMA StartCopied ==
  ASSUME TypeInv, CopyInv, Careful, NEW e \in Executions, RefreshViews(e) \/ StartByHand(e)
  PROVE  CopyInv'
<1>1. /\ Idle \in ExecStates /\ Idle.hand = FALSE /\ latest \in First..MaxTime
      /\ First \in Nat /\ MaxTime \in Nat /\ Day \in Nat /\ Day <= First
      /\ \A r \in ExecStates : Become(e, r) =>
           \A x \in Executions : exec'[x] = IF x = e THEN r ELSE exec[x]
  BY IdleType, RefreshAssumption DEF TypeInv, TypeOK, Become
<1>2. UNCHANGED <<latest, created, base, refreshed>>
  BY DEF RefreshViews, StartByHand
<1>3. OldestFirst' /\ GapKept' /\ RefreshedCopied'
  BY <1>2 DEF CopyInv, OldestFirst, GapKept, RefreshedCopied, Loaded
<1>4. CASE RefreshViews(e)
  <2> DEFINE r == ScheduledFor(latest - Day)
  <2>1. latest - Day \in 0..MaxTime
    BY <1>1
  <2>2. r \in ExecStates /\ r.to = latest - Day /\ r.hand = FALSE /\ r.pc = "check"
    BY <1>1, <2>1, StartStates
  <2>3. Become(e, r)
    BY <1>4 DEF RefreshViews, ScheduledFor
  <2> HIDE DEF r
  <2>4. \A x \in Executions : exec'[x] = IF x = e THEN r ELSE exec[x]
    BY <1>1, <2>2, <2>3
  <2>5. r.to + Day = latest
    BY <1>1, <2>2
  <2>6. \A t \in Times : t < latest => t \in Loaded
    BY <1>4 DEF RefreshViews, LoadEnds, Careful, Waiting, Loaded
  <2>7. RangesLoaded'
    BY <1>2, <2>2, <2>4, <2>5, <2>6 DEF CopyInv, RangesLoaded, LoadedBefore, CopiedBefore, Loaded
  <2>8. LongRanges'
    BY <1>2, <2>2, <2>4 DEF CopyInv, LongRanges
  <2> QED BY <1>3, <2>7, <2>8 DEF CopyInv
<1>5. CASE StartByHand(e)
  <2>1. PICK from, to \in First..latest :
          /\ from <= latest - Freshness
          /\ Become(e, AskedFor(from, to))
    BY <1>5 DEF StartByHand, Careful, AskedFor
  <2> DEFINE r == AskedFor(from, to)
  <2>2. from \in 0..MaxTime /\ to \in 0..MaxTime
    BY <1>1
  <2>3. r \in ExecStates /\ r.hand /\ r.from = from
    BY <1>1, <2>2, StartStates
  <2>4. Become(e, r)
    BY <2>1
  <2> HIDE DEF r
  <2>5. \A x \in Executions : exec'[x] = IF x = e THEN r ELSE exec[x]
    BY <1>1, <2>3, <2>4
  <2>6. RangesLoaded'
    BY <1>2, <2>3, <2>5 DEF CopyInv, RangesLoaded, LoadedBefore, CopiedBefore, Loaded
  <2>7. LongRanges'
    BY <1>2, <2>1, <2>3, <2>5 DEF CopyInv, LongRanges
  <2> QED BY <1>3, <2>6, <2>7 DEF CopyInv
<1> QED BY <1>4, <1>5

LEMMA CheckCopied ==
  ASSUME TypeInv, CopyInv, NEW e \in Executions,
         \/ CheckSkips(e) \/ CheckContinues(e) \/ StartReports(e) \/ RefreshReport(e)
         \/ NextReport(e) \/ ExecutionFails(e)
  PROVE  CopyInv'
<1>1. /\ exec[e] \in ExecStates /\ refreshed \in First..latest /\ refreshed >= refreshed
      /\ \A t \in Times : t < refreshed => t \in base
  BY RefreshAssumption DEF TypeInv, TypeOK, CopyInv, RefreshedCopied
<1>2. UNCHANGED <<latest, created, base, refreshed>>
  BY DEF CheckSkips, CheckContinues, StartReports, RefreshReport, NextReport, ExecutionFails
<1>3. CASE CheckSkips(e) \/ ExecutionFails(e)
  BY <1>1, <1>2, <1>3, IdleType, KeepsCopies DEF CheckSkips, ExecutionFails
<1>4. CASE CheckContinues(e)
  <2> DEFINE r == [exec[e] EXCEPT !.pc = "base"]
  <2>1. r \in ExecStates /\ r.pc = "base" /\ r.hand = exec[e].hand
        /\ r.from = exec[e].from /\ r.to = exec[e].to
    BY <1>1 DEF ExecStates
  <2>2. Become(e, r) /\ exec[e].pc = "check"
    BY <1>4 DEF CheckContinues
  <2> HIDE DEF r
  <2> QED BY <1>1, <1>2, <2>1, <2>2, KeepsCopies
<1>5. CASE StartReports(e)
  <2> DEFINE r == [exec[e] EXCEPT !.pc = "sp"]
  <2>1. r \in ExecStates /\ r.pc = "sp" /\ r.hand = exec[e].hand
        /\ r.from = exec[e].from /\ r.to = exec[e].to
    BY <1>1 DEF ExecStates
  <2>2. Become(e, r) /\ exec[e].pc = "start"
    BY <1>5 DEF StartReports
  <2> HIDE DEF r
  <2> QED BY <1>1, <1>2, <2>1, <2>2, KeepsCopies
<1>6. CASE RefreshReport(e)
  <2> DEFINE r == [exec[e] EXCEPT !.pc = "done"]
  <2>1. r \in ExecStates /\ r.pc = "done" /\ r.hand = exec[e].hand
        /\ r.from = exec[e].from /\ r.to = exec[e].to
    BY <1>1 DEF ExecStates
  <2>2. Become(e, r) /\ exec[e].pc = "sp"
    BY <1>6 DEF RefreshReport
  <2> HIDE DEF r
  <2> QED BY <1>1, <1>2, <2>1, <2>2, KeepsCopies
<1>7. CASE NextReport(e)
  <2> DEFINE r == [exec[e] EXCEPT !.pc = "sp", !.sp = @ + 1]
  <2>1. exec[e].sp + 1 \in 1..Reports
    BY <1>7, NextInList
  <2>2. r \in ExecStates /\ r.pc = "sp" /\ r.hand = exec[e].hand
        /\ r.from = exec[e].from /\ r.to = exec[e].to
    BY <1>1, <2>1 DEF ExecStates
  <2>3. Become(e, r) /\ exec[e].pc = "done"
    BY <1>7 DEF NextReport
  <2> HIDE DEF r
  <2> QED BY <1>1, <1>2, <2>2, <2>3, KeepsCopies
<1> QED BY <1>3, <1>4, <1>5, <1>6, <1>7

LEMMA BaseCopied ==
  ASSUME TypeInv, CopyInv, Careful, NEW e \in Executions, RefreshBase(e)
  PROVE  CopyInv'
<1> DEFINE r == [exec[e] EXCEPT !.pc = "start"]
<1>1. base' = Loaded /\ base \subseteq Loaded /\ UNCHANGED <<latest, created, refreshed>>
  BY CopiesAll DEF RefreshBase, TypeInv, TypeOK
<1>2. Loaded' = Loaded
  BY <1>1 DEF Loaded
<1>3. exec[e] \in ExecStates /\ exec[e].pc = "base" /\ Become(e, r)
  BY DEF RefreshBase, TypeInv, TypeOK
<1>4. r \in ExecStates /\ r.pc = "start" /\ r.hand = exec[e].hand /\ r.to = exec[e].to
  BY <1>3 DEF ExecStates
<1> HIDE DEF r
<1>5. \A x \in Executions : exec'[x] = IF x = e THEN r ELSE exec[x]
  BY <1>3 DEF Become, TypeInv, TypeOK
<1>6. OldestFirst' /\ GapKept' /\ RefreshedCopied'
  BY <1>1, <1>2 DEF CopyInv, OldestFirst, GapKept, RefreshedCopied
<1>7. RangesLoaded'
  BY <1>1, <1>2, <1>3, <1>4, <1>5 DEF CopyInv, RangesLoaded, LoadedBefore, CopiedBefore
<1>8. LongRanges'
  BY <1>1, <1>4, <1>5 DEF CopyInv, LongRanges
<1> QED BY <1>6, <1>7, <1>8 DEF CopyInv

\* An execution that succeeds has copied all that its windows had.
LEMMA EndCopied ==
  ASSUME TypeInv, CopyInv, NEW e \in Executions, SkipReports(e) \/ RecordDay(e)
  PROVE  CopyInv'
<1>1. Succeeds(e) /\ exec[e].pc \in {"start", "done"} /\ UNCHANGED <<latest, created, base>>
  BY DEF SkipReports, RecordDay
<1>2. /\ refreshed' \in First..latest /\ refreshed' >= refreshed
      /\ refreshed' = refreshed \/ (~exec[e].hand /\ refreshed' = exec[e].to + Day)
  BY <1>1, SucceedsType
<1>3. \A t \in Times : t < refreshed' => t \in base
  BY <1>1, <1>2 DEF CopyInv, RefreshedCopied, RangesLoaded, CopiedBefore
<1>4. Become(e, Idle)
  BY <1>1 DEF Succeeds
<1> QED BY <1>1, <1>2, <1>3, <1>4, IdleType, KeepsCopies

LEMMA NextCopied ==
  ASSUME Careful PROVE TypeInv /\ CopyInv /\ [Next]_vars => CopyInv'
<1> SUFFICES ASSUME TypeInv, CopyInv, [Next]_vars PROVE CopyInv'
  OBVIOUS
<1>1. CASE UNCHANGED <<latest, created, base, exec, refreshed>>
  BY <1>1 DEF CopyInv, OldestFirst, GapKept, RefreshedCopied, RangesLoaded, LongRanges,
              LoadedBefore, CopiedBefore, Loaded
<1>2. CASE UNCHANGED vars
  BY <1>1, <1>2 DEF vars
<1>3. CASE RefreshNotDue
  BY <1>1, <1>3 DEF RefreshNotDue
<1>4. CASE SubmitWindow \/ MergeEvents
  BY <1>4, SubmitCopied, MergeCopied
<1>5. ASSUME NEW e \in Executions,
             \/ RefreshViews(e) \/ StartByHand(e) \/ CheckSkips(e) \/ CheckContinues(e)
             \/ RefreshBase(e) \/ SkipReports(e) \/ StartReports(e) \/ RefreshReport(e)
             \/ NextReport(e) \/ RecordDay(e) \/ ExecutionFails(e)
      PROVE  CopyInv'
  BY <1>5, StartCopied, CheckCopied, BaseCopied, EndCopied
<1>6. ASSUME NEW d \in Days, RowInserted(d) \/ RowLost(d) PROVE CopyInv'
  BY <1>1, <1>6 DEF RowInserted, RowLost
<1> QED BY <1>2, <1>3, <1>4, <1>5, <1>6 DEF Next

LEMMA CopyInvariance ==
  ASSUME Careful PROVE Spec => [](TypeInv /\ CopyInv)
<1>1. Init => TypeInv /\ CopyInv
  BY InitTyped, InitCopied
<1>2. TypeInv /\ CopyInv /\ [Next]_vars => (TypeInv /\ CopyInv)'
  BY NextTyped, NextCopied
<1> QED BY <1>1, <1>2, PTL DEF Spec

\* An event that was merged is in the base view, or the next refresh takes it
\* (NoEventPassed), whatever fails, is skipped or is asked for by hand.
THEOREM NothingPassed ==
  ASSUME Careful PROVE Spec => []NoEventPassed
<1>1. TypeInv /\ CopyInv => NoEventPassed
  BY CopyInvPasses
<1> QED BY <1>1, CopyInvariance, PTL

-----------------------------------------------------------------------------
(* Recorded days are whole *)

\* No day is longer than what a refresh goes back, and REFRESH_SP_DAYS days are no shorter
\* than the time without a refresh.
ShortDays   == \A d \in Days : (IF d + 1 \in Days THEN DayStart[d + 1] ELSE MaxTime) <= DayStart[d] + Day
EnoughDays  == \A c, d \in Days : d = c + ReportDays => DayStart[c] + MaxGap <= DayStart[d]
RegularDays == ShortDays /\ EnoughDays

Whole(r, d)  == TimesOf[d] \subseteq report[r][d]
WholeTo(d)   == \A r \in 1..Reports, c \in Days : c <= d => Whole(r, c)
Written(e, r) == r < exec[e].sp \/ (r = exec[e].sp /\ exec[e].pc = "done")

OnlyCopied    == \A r \in 1..Reports, d \in Days : report[r][d] \subseteq base
UnsavedWhole  == \A d \in unsaved : WholeTo(d)
RefreshedWhole == WholeTo(DayOf[refreshed - Day])
WrittenWhole  ==
  \A e \in Executions : exec[e].pc \in {"sp", "done"} /\ ~exec[e].hand =>
    \A r \in 1..Reports, d \in Days : Written(e, r) /\ d <= RefreshDate(e) => Whole(r, d)

FirstReport == \A e \in Executions : exec[e].pc \notin {"sp", "done"} => exec[e].sp = 1

ReportInv == /\ OnlyCopied /\ ReportsComplete /\ UnsavedWhole /\ RefreshedWhole /\ WrittenWhole
             /\ FirstReport

\* A day that has begun is over a day later.
LEMMA DayOver ==
  ASSUME ShortDays, NEW x \in 0..MaxTime, NEW c \in Days, c <= DayOf[x], NEW t \in TimesOf[c]
  PROVE  t < x + Day
<1> DEFINE D == DayOf[x]
<1>1. D \in Days /\ DayStart[D] <= x
  BY DayOfType
<1>2. t \in Times /\ DayOf[t] = c
  BY DEF TimesOf
<1>3. t \in 0..MaxTime /\ t < MaxTime
  BY <1>2, RefreshAssumption DEF Times
<1>4. c + 1 \in Days => t < DayStart[c + 1]
  BY <1>2, <1>3, DayOfType
<1> HIDE DEF D
<1>5. D \in Int /\ c \in Int /\ c <= D /\ LastDay \in Nat
  BY <1>1, RefreshAssumption DEF Days, D
<1>6. DayStart[c] \in Nat /\ DayStart[D] \in Nat /\ DayStart[c] <= DayStart[D]
  <2>1. DayStart[c] \in Nat /\ DayStart[D] \in Nat
    BY <1>1, RefreshAssumption DEF Days
  <2>2. CASE c = D
    BY <2>1, <2>2
  <2>3. CASE c < D
    BY <1>1, <2>1, <2>3, RefreshAssumption DEF Days
  <2> QED BY <1>5, <2>1, <2>2, <2>3
<1>7. x \in Int /\ t \in Int /\ Day \in Nat /\ MaxTime \in Nat
  BY <1>3, RefreshAssumption
<1>8. CASE c + 1 \in Days
  <2>1. DayStart[c + 1] <= DayStart[c] + Day /\ DayStart[c + 1] \in Nat
    BY <1>8, RefreshAssumption DEF ShortDays, Days
  <2> QED BY <1>1, <1>4, <1>6, <1>7, <1>8, <2>1
<1>9. CASE c + 1 \notin Days
  <2>1. MaxTime <= DayStart[c] + Day
    BY <1>9 DEF ShortDays
  <2> QED BY <1>1, <1>3, <1>6, <1>7, <2>1
<1> QED BY <1>8, <1>9

LEMMA DatesCopied ==
  ASSUME ShortDays, TypeInv, CopyInv, NEW e \in Executions, ~exec[e].hand,
         exec[e].pc \in {"start", "sp", "done"}, NEW d \in Days, d <= RefreshDate(e)
  PROVE  TimesOf[d] \subseteq base
<1> SUFFICES ASSUME NEW t \in TimesOf[d] PROVE t \in base
  OBVIOUS
<1>1. exec[e].to \in 0..MaxTime
  BY DEF TypeInv, TypeOK, ExecStates
<1>2. t < exec[e].to + Day
  BY <1>1, DayOver DEF RefreshDate
<1>3. t \in Times
  BY DEF TimesOf
<1> QED BY <1>2, <1>3 DEF CopyInv, RangesLoaded, CopiedBefore

\* The days that an execution does not report were reported by one before it.
LEMMA EarlierDays ==
  ASSUME EnoughDays, TypeInv, CopyInv, NEW e \in Executions, ~exec[e].hand, exec[e].pc # "idle",
         NEW c \in Days, c <= RefreshDate(e) - ReportDays
  PROVE  c <= DayOf[refreshed - Day]
<1> DEFINE x == refreshed - Day
           D == RefreshDate(e)
           R == DayOf[x]
<1>1. /\ latest \in Int /\ refreshed \in Int /\ First <= refreshed /\ refreshed <= MaxTime
      /\ First \in Int /\ Day \in Nat /\ Day <= First /\ MaxTime \in Int
      /\ ReportDays \in Nat \ {0} /\ MaxGap \in Nat /\ LastDay \in Nat
      /\ exec[e].to \in 0..MaxTime /\ exec[e].to \in Int
      /\ exec[e].to + Day <= latest /\ latest <= refreshed + MaxGap
  BY RefreshAssumption DEF TypeInv, TypeOK, ExecStates, WithinWindows, CopyInv, GapKept
<1>2. x \in 0..MaxTime
  BY <1>1
<1>3. D \in Days /\ DayStart[D] <= exec[e].to
  BY <1>1, DayOfType DEF RefreshDate
<1>4. R \in Days /\ (R + 1 \in Days => x < DayStart[R + 1])
  BY <1>2, DayOfType
<1> SUFFICES ASSUME ~(c <= R) PROVE FALSE
  OBVIOUS
<1> HIDE DEF D, R
<1>5. D \in Int /\ c \in Int /\ R \in Int /\ D <= LastDay /\ 0 <= c /\ 0 <= R /\ c <= D - ReportDays
  BY <1>3, <1>4, RefreshAssumption DEF Days, D
<1>6. R + 1 \in Days /\ R + 1 <= D - ReportDays /\ D - ReportDays \in Days
  BY <1>1, <1>5 DEF Days
<1>7. DayStart[D - ReportDays] + MaxGap <= DayStart[D]
  <2>1. D = (D - ReportDays) + ReportDays
    BY <1>1, <1>5
  <2> QED BY <1>3, <1>6, <2>1 DEF EnoughDays
<1>8. DayStart[R + 1] \in Nat /\ DayStart[D - ReportDays] \in Nat /\ DayStart[D] \in Nat
  BY <1>3, <1>6, RefreshAssumption DEF Days
<1>9. DayStart[R + 1] <= DayStart[D - ReportDays]
  <2>1. CASE R + 1 = D - ReportDays
    BY <1>8, <2>1
  <2>2. CASE R + 1 < D - ReportDays
    <3>1. \A a, b \in Days : a < b => DayStart[a] < DayStart[b]
      BY RefreshAssumption DEF Days
    <3> QED BY <1>6, <1>8, <2>2, <3>1
  <2> QED BY <1>1, <1>5, <1>6, <2>1, <2>2
<1> QED BY <1>1, <1>3, <1>4, <1>6, <1>7, <1>8, <1>9

LEMMA InitWhole ==
  ASSUME RegularDays, TypeInv, Init PROVE ReportInv
<1>1. \A r \in 1..Reports, d \in Days : report[r][d] = {}
  BY DEF Init, NoRows
<1>2. OnlyCopied
  BY <1>1 DEF OnlyCopied
<1>3. ReportsComplete
  BY RefreshAssumption DEF Init, ReportsComplete, NoDay, Days
<1>4. UnsavedWhole
  BY DEF Init, UnsavedWhole
<1>5. RefreshedWhole
  <2>1. refreshed = First /\ First - Day \in 0..MaxTime /\ (First - Day) + Day = First
    BY RefreshAssumption DEF Init
  <2>2. ASSUME NEW c \in Days, c <= DayOf[First - Day], NEW t \in TimesOf[c] PROVE FALSE
    <3>1. t < (First - Day) + Day
      BY <2>1, <2>2, DayOver DEF RegularDays
    <3>2. t \in Times
      BY DEF TimesOf
    <3>3. First <= t /\ t \in Int /\ First \in Int
      BY <3>2, RefreshAssumption DEF Times
    <3> QED BY <2>1, <3>1, <3>3
  <2>3. \A c \in Days : c <= DayOf[First - Day] => TimesOf[c] = {}
    BY <2>2
  <2> QED BY <2>1, <2>3 DEF RefreshedWhole, WholeTo, Whole
<1>6. WrittenWhole
  BY IdleType DEF Init, WrittenWhole
<1>7. FirstReport
  BY IdleType DEF Init, FirstReport
<1> QED BY <1>2, <1>3, <1>4, <1>5, <1>6, <1>7 DEF ReportInv

\* Steps that write no report and record nothing.
LEMMA KeepsWhole ==
  ASSUME TypeInv, ReportInv, base \subseteq base', UNCHANGED <<report, recorded, refreshed>>,
         unsaved' \subseteq unsaved,
         NEW e \in Executions, NEW r \in ExecStates, Become(e, r),
         r.pc \notin {"sp", "done"} => r.sp = 1,
         \/ r.pc \notin {"sp", "done"}
         \/ r.hand
         \/ /\ exec[e].pc \in {"sp", "done"} /\ ~exec[e].hand /\ r.to = exec[e].to
            /\ \A x \in 1..Reports : x < r.sp \/ (x = r.sp /\ r.pc = "done") => Written(e, x)
         \/ r.pc = "sp" /\ r.sp = 1
  PROVE  ReportInv'
<1>1. OnlyCopied' /\ ReportsComplete' /\ UnsavedWhole' /\ RefreshedWhole'
  BY DEF ReportInv, OnlyCopied, ReportsComplete, UnsavedWhole, RefreshedWhole, WholeTo, Whole
<1>2. \A x \in Executions : exec'[x] = IF x = e THEN r ELSE exec[x]
  BY DEF Become, TypeInv, TypeOK
<1>3. WrittenWhole'
  <2> SUFFICES ASSUME NEW x \in Executions, exec'[x].pc \in {"sp", "done"}, ~exec'[x].hand,
                      NEW y \in 1..Reports, NEW d \in Days, Written(x, y)', d <= RefreshDate(x)'
               PROVE  Whole(y, d)
    BY DEF WrittenWhole, Whole
  <2>1. CASE x # e
    <3>1. exec'[x] = exec[x]
      BY <1>2, <2>1
    <3>2. Written(x, y) /\ d <= RefreshDate(x)
      BY <3>1 DEF Written, RefreshDate
    <3> QED BY <3>1, <3>2 DEF ReportInv, WrittenWhole
  <2>2. CASE x = e
    <3>1. exec'[e] = r
      BY <1>2
    <3>2. CASE r.pc = "sp" /\ r.sp = 1
      BY <2>2, <3>1, <3>2 DEF Written
    <3>3. CASE /\ exec[e].pc \in {"sp", "done"} /\ ~exec[e].hand /\ r.to = exec[e].to
               /\ \A z \in 1..Reports : z < r.sp \/ (z = r.sp /\ r.pc = "done") => Written(e, z)
      <4>1. Written(e, y) /\ d <= RefreshDate(e)
        BY <2>2, <3>1, <3>3 DEF Written, RefreshDate
      <4> QED BY <3>3, <4>1 DEF ReportInv, WrittenWhole
    <3> QED BY <2>2, <3>1, <3>2, <3>3
  <2> QED BY <2>1, <2>2
<1>4. FirstReport'
  BY <1>2 DEF ReportInv, FirstReport
<1> QED BY <1>1, <1>3, <1>4 DEF ReportInv

LEMMA MovesWhole ==
  ASSUME TypeInv, ReportInv, NEW e \in Executions,
         \/ RefreshViews(e) \/ StartByHand(e) \/ CheckSkips(e) \/ CheckContinues(e)
         \/ RefreshBase(e) \/ NextReport(e) \/ ExecutionFails(e)
  PROVE  ReportInv'
<1>1. exec[e] \in ExecStates
  BY DEF TypeInv, TypeOK
<1>2. CASE RefreshViews(e)
  <2>1. latest - Day \in 0..MaxTime
    BY RefreshAssumption DEF TypeInv, TypeOK
  <2>2. Become(e, ScheduledFor(latest - Day))
    BY <1>2 DEF RefreshViews, ScheduledFor
  <2> QED BY <1>2, <2>1, <2>2, StartStates, KeepsWhole DEF RefreshViews
<1>3. CASE StartByHand(e)
  <2>1. PICK from, to \in First..latest : Become(e, AskedFor(from, to))
    BY <1>3 DEF StartByHand, AskedFor
  <2>2. from \in 0..MaxTime /\ to \in 0..MaxTime
    BY RefreshAssumption DEF TypeInv, TypeOK
  <2> QED BY <1>3, <2>1, <2>2, StartStates, KeepsWhole DEF StartByHand
<1>4. CASE CheckSkips(e) \/ ExecutionFails(e)
  BY <1>4, IdleType, KeepsWhole DEF CheckSkips, ExecutionFails
<1>5. CASE CheckContinues(e)
  <2> DEFINE r == [exec[e] EXCEPT !.pc = "base"]
  <2>1. r \in ExecStates /\ r.pc = "base" /\ r.sp = 1
    BY <1>1, <1>5 DEF ExecStates, CheckContinues, ReportInv, FirstReport
  <2>2. Become(e, r)
    BY <1>5 DEF CheckContinues
  <2> HIDE DEF r
  <2> QED BY <1>5, <2>1, <2>2, KeepsWhole DEF CheckContinues
<1>6. CASE RefreshBase(e)
  <2> DEFINE r == [exec[e] EXCEPT !.pc = "start"]
  <2>1. r \in ExecStates /\ r.pc = "start" /\ r.sp = 1
    BY <1>1, <1>6 DEF ExecStates, RefreshBase, ReportInv, FirstReport
  <2>2. Become(e, r) /\ base \subseteq base'
    BY <1>6, BaseTyped DEF RefreshBase
  <2> HIDE DEF r
  <2> QED BY <1>6, <2>1, <2>2, KeepsWhole DEF RefreshBase
<1>7. CASE NextReport(e)
  <2> DEFINE r == [exec[e] EXCEPT !.pc = "sp", !.sp = @ + 1]
  <2>1. exec[e].sp + 1 \in 1..Reports /\ exec[e].sp \in Int
    BY <1>7, NextInList
  <2>2. /\ r \in ExecStates /\ r.pc = "sp" /\ r.hand = exec[e].hand /\ r.to = exec[e].to
        /\ r.sp = exec[e].sp + 1
    BY <1>1, <2>1 DEF ExecStates
  <2>3. Become(e, r) /\ exec[e].pc = "done"
    BY <1>7 DEF NextReport
  <2> HIDE DEF r
  <2>4. \A x \in 1..Reports : x < r.sp \/ (x = r.sp /\ r.pc = "done") => Written(e, x)
    BY <2>1, <2>2, <2>3 DEF Written
  <2> QED BY <1>7, <2>2, <2>3, <2>4, KeepsWhole DEF NextReport
<1> QED BY <1>2, <1>3, <1>4, <1>5, <1>6, <1>7

LEMMA StartReportsWhole ==
  ASSUME TypeInv, ReportInv, NEW e \in Executions, StartReports(e)
  PROVE  ReportInv'
<1> DEFINE r == [exec[e] EXCEPT !.pc = "sp"]
<1>1. r \in ExecStates /\ r.pc = "sp" /\ r.sp = 1
  BY DEF ExecStates, TypeInv, TypeOK, StartReports, ReportInv, FirstReport
<1>2. Become(e, r)
  BY DEF StartReports
<1> HIDE DEF r
<1> QED BY <1>1, <1>2, KeepsWhole DEF StartReports

\* What a procedure writes; a day that is whole stays so.
LEMMA ReportWritten ==
  ASSUME Careful, TypeInv, OnlyCopied, NEW e \in Executions, RefreshReport(e),
         NEW r \in 1..Reports, NEW d \in Days
  PROVE  /\ report'[r][d] \subseteq base
         /\ Whole(r, d) => Whole(r, d)'
         /\ r = exec[e].sp /\ d \in RefreshDate(e) - RefreshDays(e) + 1..RefreshDate(e)
              => report'[r][d] = base \intersect TimesOf[d]
<1>1. report \in [1..Reports -> [Days -> SUBSET Times]] /\ report[r][d] \subseteq base
  BY DEF TypeInv, TypeOK, OnlyCopied
<1> DEFINE Span == RefreshDate(e) - RefreshDays(e) + 1..RefreshDate(e)
           Rows == [c \in Days |-> IF c \in Span THEN base \intersect TimesOf[c]
                                   ELSE report[exec[e].sp][c]]
<1>3. base' = base /\ report' = [report EXCEPT ![exec[e].sp] = Rows]
  BY DEF RefreshReport, Careful
<1>4. Rows[d] = IF d \in Span THEN base \intersect TimesOf[d] ELSE report[exec[e].sp][d]
  OBVIOUS
<1> HIDE DEF Rows
<1>5. report'[r] = IF r = exec[e].sp THEN Rows ELSE report[r]
  BY <1>1, <1>3
<1> HIDE DEF Span
<1>2. report'[r][d] = IF r = exec[e].sp /\ d \in Span THEN base \intersect TimesOf[d]
                      ELSE report[r][d]
  BY <1>4, <1>5
<1>6. report'[r][d] \subseteq base /\ (Whole(r, d) => Whole(r, d)')
  <2>1. Whole(r, d) => TimesOf[d] \subseteq base
    BY <1>1 DEF Whole
  <2> QED BY <1>1, <1>2, <2>1 DEF Whole
<1>7. r = exec[e].sp /\ d \in Span => report'[r][d] = base \intersect TimesOf[d]
  BY <1>2
<1> QED BY <1>6, <1>7 DEF Span

LEMMA RefreshWhole ==
  ASSUME Careful, RegularDays, TypeInv, CopyInv, ReportInv, NEW e \in Executions, RefreshReport(e)
  PROVE  ReportInv'
<1> DEFINE q == [exec[e] EXCEPT !.pc = "done"]
<1>1. /\ exec[e] \in ExecStates /\ exec[e].pc = "sp" /\ Become(e, q) /\ OnlyCopied
      /\ UNCHANGED <<base, recorded, unsaved, refreshed>>
  BY DEF RefreshReport, ReportInv, TypeInv, TypeOK
<1>2. q.pc = "done" /\ q.hand = exec[e].hand /\ q.to = exec[e].to /\ q.sp = exec[e].sp
  BY <1>1 DEF ExecStates
<1> HIDE DEF q
<1>3. \A x \in Executions : exec'[x] = IF x = e THEN q ELSE exec[x]
  BY <1>1 DEF Become, TypeInv, TypeOK
<1>4. \A r \in 1..Reports, d \in Days : Whole(r, d) => Whole(r, d)'
  BY <1>1, ReportWritten
<1>5. OnlyCopied'
  BY <1>1, ReportWritten DEF OnlyCopied
<1>6. ReportsComplete' /\ UnsavedWhole' /\ RefreshedWhole'
  BY <1>1, <1>4 DEF ReportInv, ReportsComplete, UnsavedWhole, RefreshedWhole, WholeTo, Whole
<1>7. FirstReport'
  BY <1>2, <1>3 DEF ReportInv, FirstReport
<1>0. PICK p \in 1..Reports : p = exec[e].sp
  BY <1>1 DEF ExecStates
<1>8. ASSUME NEW d \in Days, d <= RefreshDate(e), ~exec[e].hand
      PROVE  Whole(p, d)'
  <2>1. RefreshDate(e) \in Int /\ d \in Int /\ ReportDays \in Int
    BY DateType, RefreshAssumption DEF Days
  <2>2. CASE d <= RefreshDate(e) - ReportDays
    <3>1. d <= DayOf[refreshed - Day]
      BY <1>1, <1>8, <2>2, EarlierDays DEF RegularDays
    <3>2. Whole(p, d)
      BY <2>1, <3>1 DEF ReportInv, RefreshedWhole, WholeTo
    <3> QED BY <1>4, <2>1, <3>2
  <2>3. CASE ~(d <= RefreshDate(e) - ReportDays)
    <3>1. d \in RefreshDate(e) - ReportDays + 1..RefreshDate(e)
      BY <1>8, <2>1, <2>3
    <3>2. RefreshDays(e) = ReportDays
      BY <1>8 DEF RefreshDays
    <3>3. report'[p][d] = base \intersect TimesOf[d]
      BY <1>0, <1>1, <3>1, <3>2, ReportWritten
    <3>4. TimesOf[d] \subseteq base
      BY <1>1, <1>8, DatesCopied DEF RegularDays
    <3> QED BY <3>3, <3>4 DEF Whole
  <2> QED BY <2>2, <2>3
<1>9. WrittenWhole'
  <2> SUFFICES ASSUME NEW x \in Executions, exec'[x].pc \in {"sp", "done"}, ~exec'[x].hand,
                      NEW r \in 1..Reports, NEW d \in Days, Written(x, r)', d <= RefreshDate(x)'
               PROVE  Whole(r, d)'
    BY DEF WrittenWhole
  <2>1. CASE x # e
    <3>1. exec'[x] = exec[x]
      BY <1>3, <2>1
    <3>2. Written(x, r) /\ d <= RefreshDate(x)
      BY <3>1 DEF Written, RefreshDate
    <3> QED BY <1>4, <3>1, <3>2 DEF ReportInv, WrittenWhole
  <2>2. CASE x = e
    <3>1. exec'[e] = q
      BY <1>3
    <3>2. ~exec[e].hand /\ d <= RefreshDate(e) /\ (r < exec[e].sp \/ r = exec[e].sp)
      BY <1>2, <2>2, <3>1 DEF Written, RefreshDate
    <3>3. CASE r < exec[e].sp
      <4>1. Whole(r, d)
        BY <1>1, <3>2, <3>3 DEF ReportInv, WrittenWhole, Written
      <4> QED BY <1>4, <4>1
    <3>4. CASE r = exec[e].sp
      <4>1. r = p
        BY <1>0, <3>4
      <4> QED BY <1>8, <3>2, <4>1
    <3> QED BY <3>2, <3>3, <3>4
  <2> QED BY <2>1, <2>2
<1> QED BY <1>5, <1>6, <1>7, <1>9 DEF ReportInv

\* An execution that succeeds has reported its day, or found it recorded.
LEMMA EndWhole ==
  ASSUME TypeInv, ReportInv, NEW e \in Executions, SkipReports(e) \/ RecordDay(e)
  PROVE  ReportInv'
<1> DEFINE D == RefreshDate(e)
<1>1. /\ Succeeds(e) /\ exec[e].pc \in {"start", "done"}
      /\ UNCHANGED <<latest, base, report, recorded>> /\ Become(e, Idle)
  BY DEF SkipReports, RecordDay, Succeeds
<1>2. D \in Days /\ recorded \in Int /\ D \in Int /\ \A c \in Days : c \in Int
  BY DateType, RefreshAssumption DEF Days, TypeInv, TypeOK, NoDay
<1>3. ~exec[e].hand => WholeTo(D)
  <2>1. CASE SkipReports(e)
    <3>1. recorded >= D
      BY <2>1 DEF SkipReports
    <3>2. \A c \in Days : c <= D => c <= recorded
      <4> HIDE DEF D
      <4> QED BY <1>2, <3>1
    <3> QED BY <3>2 DEF ReportInv, ReportsComplete, WholeTo, Whole
  <2>2. CASE RecordDay(e)
    <3>1. exec[e].pc = "done" /\ exec[e].sp = Reports
      BY <2>2 DEF RecordDay
    <3>2. \A r \in 1..Reports : Written(e, r)
      BY <3>1, RefreshAssumption DEF Written
    <3> QED BY <3>1, <3>2 DEF ReportInv, WrittenWhole, WholeTo
  <2> QED BY <2>1, <2>2
<1>4. refreshed' = refreshed \/ (~exec[e].hand /\ refreshed' = exec[e].to + Day)
  BY <1>1, SucceedsType
<1>5. RefreshedWhole'
  <2>1. exec[e].to \in Int /\ Day \in Int
    BY RefreshAssumption DEF TypeInv, TypeOK, ExecStates
  <2>2. CASE refreshed' = refreshed
    BY <1>1, <2>2 DEF ReportInv, RefreshedWhole, WholeTo, Whole
  <2>3. CASE ~exec[e].hand /\ refreshed' = exec[e].to + Day
    <3>0. refreshed' - Day = exec[e].to
      BY <2>1, <2>3
    <3>1. DayOf[refreshed' - Day] = D
      BY <3>0 DEF RefreshDate
    <3>2. \A r \in 1..Reports, c \in Days : c <= D => TimesOf[c] \subseteq report[r][c]
      BY <1>3, <2>3 DEF WholeTo, Whole
    <3>3. report' = report
      BY <1>1
    <3> HIDE DEF D
    <3> QED BY <3>1, <3>2, <3>3 DEF RefreshedWhole, WholeTo, Whole
  <2> QED BY <1>4, <2>2, <2>3
<1>6. UnsavedWhole'
  <2>1. unsaved' = unsaved \/ (~exec[e].hand /\ unsaved' = unsaved \union {D})
    BY DEF SkipReports, RecordDay
  <2> QED BY <1>1, <1>3, <2>1 DEF ReportInv, UnsavedWhole, WholeTo, Whole
<1>7. \A x \in Executions : exec'[x] = IF x = e THEN Idle ELSE exec[x]
  BY <1>1 DEF Become, TypeInv, TypeOK
<1>8. WrittenWhole'
  <2> SUFFICES ASSUME NEW x \in Executions, exec'[x].pc \in {"sp", "done"}, ~exec'[x].hand,
                      NEW r \in 1..Reports, NEW d \in Days, Written(x, r)', d <= RefreshDate(x)'
               PROVE  Whole(r, d)'
    BY DEF WrittenWhole
  <2>1. exec'[x] = exec[x]
    BY <1>7, IdleType
  <2>2. Written(x, r) /\ d <= RefreshDate(x)
    BY <2>1 DEF Written, RefreshDate
  <2>3. Whole(r, d)
    BY <2>1, <2>2 DEF ReportInv, WrittenWhole
  <2> QED BY <1>1, <2>3 DEF Whole
<1>9. OnlyCopied' /\ ReportsComplete' /\ FirstReport'
  BY <1>1, <1>7, IdleType DEF ReportInv, OnlyCopied, ReportsComplete, FirstReport
<1> QED BY <1>5, <1>6, <1>8, <1>9 DEF ReportInv

LEMMA StillWhole ==
  ASSUME ReportInv, UNCHANGED <<base, report, recorded, exec, refreshed>>, unsaved' \subseteq unsaved
  PROVE  ReportInv'
BY DEF ReportInv, OnlyCopied, ReportsComplete, UnsavedWhole, RefreshedWhole, WrittenWhole,
       FirstReport, WholeTo, Whole, Written, RefreshDate

LEMMA RowWhole ==
  ASSUME TypeInv, ReportInv, NEW d \in Days, RowInserted(d) \/ RowLost(d)
  PROVE  ReportInv'
<1>1. CASE RowInserted(d)
  <2>1. d \in Int /\ recorded \in Int
    BY RefreshAssumption DEF TypeInv, TypeOK, Days, NoDay
  <2>2. recorded' \in {d, recorded}
    BY <1>1, <2>1, MaxOfTwo DEF RowInserted
  <2>3. /\ d \in unsaved /\ unsaved' \subseteq unsaved
        /\ UNCHANGED <<base, report, exec, refreshed>>
    BY <1>1 DEF RowInserted
  <2>4. ReportsComplete'
    BY <2>2, <2>3 DEF ReportInv, ReportsComplete, UnsavedWhole, WholeTo, Whole
  <2>5. OnlyCopied' /\ UnsavedWhole' /\ RefreshedWhole' /\ WrittenWhole' /\ FirstReport'
    BY <2>3 DEF ReportInv, OnlyCopied, UnsavedWhole, RefreshedWhole, WrittenWhole,
                FirstReport, WholeTo, Whole, Written, RefreshDate
  <2> QED BY <2>4, <2>5 DEF ReportInv
<1>2. CASE RowLost(d)
  BY <1>2, StillWhole DEF RowLost
<1> QED BY <1>1, <1>2

LEMMA NextWhole ==
  ASSUME Careful, RegularDays PROVE TypeInv /\ CopyInv /\ ReportInv /\ [Next]_vars => ReportInv'
<1> SUFFICES ASSUME TypeInv, CopyInv, ReportInv, [Next]_vars PROVE ReportInv'
  OBVIOUS
<1>1. CASE UNCHANGED vars
  BY <1>1, StillWhole DEF vars
<1>2. CASE SubmitWindow \/ MergeEvents \/ RefreshNotDue
  BY <1>2, StillWhole DEF SubmitWindow, MergeEvents, RefreshNotDue
<1>3. ASSUME NEW e \in Executions,
             \/ RefreshViews(e) \/ StartByHand(e) \/ CheckSkips(e) \/ CheckContinues(e)
             \/ RefreshBase(e) \/ SkipReports(e) \/ StartReports(e) \/ RefreshReport(e)
             \/ NextReport(e) \/ RecordDay(e) \/ ExecutionFails(e)
      PROVE  ReportInv'
  BY <1>3, MovesWhole, StartReportsWhole, RefreshWhole, EndWhole
<1>4. ASSUME NEW d \in Days, RowInserted(d) \/ RowLost(d) PROVE ReportInv'
  BY <1>4, RowWhole
<1> QED BY <1>1, <1>2, <1>3, <1>4 DEF Next

\* A day that the workflow has recorded, and every day before it, is whole in every report
\* (ReportsComplete): no day is recorded before it is over and loaded, none is jumped over,
\* and no run by hand takes anything back.
THEOREM RecordedDaysWhole ==
  ASSUME Careful, RegularDays PROVE Spec => []ReportsComplete
<1>1. Init => TypeInv /\ CopyInv /\ ReportInv
  BY InitTyped, InitCopied, InitWhole
<1>2. TypeInv /\ CopyInv /\ ReportInv /\ [Next]_vars => (TypeInv /\ CopyInv /\ ReportInv)'
  BY NextTyped, NextCopied, NextWhole
<1>3. TypeInv /\ CopyInv /\ ReportInv => ReportsComplete
  BY DEF ReportInv
<1> QED BY <1>1, <1>2, <1>3, PTL DEF Spec

=============================================================================
