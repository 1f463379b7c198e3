------------------------------ MODULE ViewRefresh ------------------------------
(***************************************************************************)
(* The refresh-materialized-views workflow.  A load ends with starting it: *)
(* it copies what was merged since the last copy to the base view of the   *)
(* dashboards and, when a day of the app's time zone is over, has a        *)
(* procedure write that day's rows of each report.  An operator may start  *)
(* it for a range of days.                                                 *)
(*                                                                         *)
(* Apps are refreshed one after the other and share nothing but failures:  *)
(* this is the story of one.  Events are told apart by their time only.    *)
(* Redshift and Step Functions are modelled as the code uses them.         *)
(***************************************************************************)
EXTENDS Integers, FiniteSetsExt

CONSTANTS
  Executions,    \* executions of the state machine at a time
  Reports,       \* number of procedures that write reports
  Day,           \* 24 hours
  LastDay,       \* bound: the last day
  DayStart,      \* the times at which days begin in the app's time zone
  First,         \* the time of the first event
  Lengths,       \* lengths of EMR windows
  ReportDays,    \* REFRESH_SP_DAYS
  Freshness,     \* DATA_REFRESHNESS_IN_HOUR
  MaxTime,       \* bound: time
  MaxFails,      \* bound: executions and statements that fail
  MaxByHand,     \* bound: executions asked for by an operator
  MaxGap,        \* the longest time without a refresh that succeeds
  LateLoads,     \* TRUE: a window may be submitted before the one before it is loaded
  CaughtErrors,  \* TRUE: a procedure may catch an error, and has done nothing then
  ShortRanges    \* TRUE: an operator asks for events that are not past Freshness

ASSUME RefreshAssumption ==
  /\ Reports \in Nat \ {0}
  /\ Day \in Nat \ {0}
  /\ First \in Nat /\ MaxTime \in Nat /\ Day <= First /\ First <= MaxTime
  /\ LastDay \in Nat
  /\ DayStart \in [0..LastDay -> Nat]
  /\ DayStart[0] = 0
  /\ \A c, d \in 0..LastDay : c < d => DayStart[c] < DayStart[d]
  /\ Lengths \subseteq Nat \ {0}
  /\ ReportDays \in Nat \ {0}
  /\ Freshness \in Nat /\ MaxGap \in Nat
  /\ MaxFails \in Nat /\ MaxByHand \in Nat
  /\ {LateLoads, CaughtErrors, ShortRanges} \subseteq BOOLEAN

VARIABLES
  latest,    \* end of the latest EMR window (job-latest.json), and the time of the clock
  load,      \* TRUE: the load-data workflow is merging
  created,   \* created_time of the events in event_v2; 0: not there
  base,      \* events in the base view
  report,    \* what each report has of each day
  recorded,  \* MAX(refresh_date) of what the workflow did, in refresh_mv_sp_status
  unsaved,   \* rows of that table that are being inserted
  exec,      \* executions
  fails, byHand, \* counters of the bounds
  refreshed  \* history: end of the windows of the last scheduled execution that succeeded

vars == <<latest, load, created, base, report, recorded, unsaved, exec, fails, byHand,
          refreshed>>

Times      == First..MaxTime - 1
Days       == 0..LastDay
NoDay      == -1
InDay(t, d) == DayStart[d] <= t /\ (d + 1 \in Days => t < DayStart[d + 1])
DayOf      == [t \in 0..MaxTime |-> CHOOSE d \in Days : InDay(t, d)]
TimesOf    == [d \in Days |-> {t \in Times : DayOf[t] = d}]
Loaded     == {t \in Times : created[t] # 0}
ExecStates == [pc : {"idle", "check", "base", "start", "sp", "done"}, hand : BOOLEAN,
               from : 0..MaxTime, to : 0..MaxTime, sp : 1..Reports]
Idle       == [pc |-> "idle", hand |-> FALSE, from |-> 0, to |-> 0, sp |-> 1]
NoRows     == [r \in 1..Reports |-> [d \in Days |-> {}]]

TypeOK ==
  /\ latest \in First..MaxTime
  /\ load \in BOOLEAN
  /\ created \in [Times -> Nat]
  /\ base \subseteq Loaded
  /\ report \in [1..Reports -> [Days -> SUBSET Times]]
  /\ recorded \in Days \union {NoDay}
  /\ unsaved \subseteq Days
  /\ exec \in [Executions -> ExecStates]
  /\ fails \in 0..MaxFails
  /\ byHand \in 0..MaxByHand
  /\ refreshed \in First..latest

Become(e, r) == exec' = [exec EXCEPT ![e] = r]

-----------------------------------------------------------------------------
(* Loads *)

Waiting == {t \in Times : t < latest /\ created[t] = 0}

\* The submitter records a window as the latest when it starts its job.
SubmitWindow ==
  /\ LateLoads \/ (~load /\ Waiting = {})
  /\ \E n \in Lengths :
       /\ latest + n <= MaxTime
       /\ latest + n <= refreshed + MaxGap
       /\ latest' = latest + n
  /\ UNCHANGED <<load, created, base, report, recorded, unsaved, exec, fails, byHand,
                 refreshed>>

\* A merge procedure gives all its events the second in which it is called; the
\* procedures are called one after the other, but not always in different seconds.
MergeEvents ==
  /\ \E T \in SUBSET Waiting \ {{}}, s \in {0, 1} :
       LET second == s + Max({1} \union {created[t] : t \in Times}) IN
       created' = [t \in Times |-> IF t \in T THEN second ELSE created[t]]
  /\ load' = TRUE
  /\ UNCHANGED <<latest, base, report, recorded, unsaved, exec, fails, byHand,
                 refreshed>>

LoadEnds ==
  /\ load
  /\ LateLoads \/ Waiting = {}
  /\ load' = FALSE

\* The workflow is started for the day before the end of the latest window.
RefreshViews(e) ==
  /\ LoadEnds
  /\ exec[e] = Idle
  /\ Become(e, [Idle EXCEPT !.pc = "check", !.to = latest - Day])
  /\ UNCHANGED <<latest, created, base, report, recorded, unsaved, fails, byHand, refreshed>>

\* The interval of refreshes is not over, or the lambda or the load before it fails.
RefreshNotDue ==
  /\ LoadEnds
  /\ UNCHANGED <<latest, created, base, report, recorded, unsaved, exec, fails, byHand,
                 refreshed>>

\* An operator starts the state machine with a range of times.
StartByHand(e) ==
  /\ exec[e] = Idle
  /\ byHand < MaxByHand
  /\ \E from, to \in First..latest :
       /\ from <= to
       /\ ShortRanges \/ from <= latest - Freshness
       /\ Become(e, [Idle EXCEPT !.pc = "check", !.hand = TRUE, !.from = from, !.to = to])
  /\ byHand' = byHand + 1
  /\ UNCHANGED <<latest, load, created, base, report, recorded, unsaved, fails, refreshed>>

-----------------------------------------------------------------------------
(* An execution *)

OthersRunning(e) == \E x \in Executions \ {e} : exec[x] # Idle

CheckSkips(e) ==
  /\ exec[e].pc = "check"
  /\ OthersRunning(e)
  /\ Become(e, Idle)
  /\ UNCHANGED <<latest, load, created, base, report, recorded, unsaved, fails, byHand,
                 refreshed>>

CheckContinues(e) ==
  /\ exec[e].pc = "check"
  /\ ~OthersRunning(e)
  /\ Become(e, [exec[e] EXCEPT !.pc = "base"])
  /\ UNCHANGED <<latest, load, created, base, report, recorded, unsaved, fails, byHand,
                 refreshed>>

\* The times that a refresh of the base view looks at.
Since(e) == IF exec[e].hand THEN exec[e].from ELSE latest - Freshness

\* The newest one of those times that the base view has.
Newest(since) == Max({0} \union {created[t] : t \in {u \in base : u >= since}})

\* Mutant: the events merged in the same second as that one are left out.
ToCopyLater(since) == {t \in Loaded : t >= since /\ created[t] > Newest(since)}

\* The events that it takes.
ToCopy(since) == {t \in Loaded : t >= since /\ created[t] >= Newest(since)}

RefreshBase(e) ==
  /\ exec[e].pc = "base"
  /\ \/ base' = base \union ToCopy(Since(e))
     \/ CaughtErrors /\ base' = base
  /\ Become(e, [exec[e] EXCEPT !.pc = "start"])
  /\ UNCHANGED <<latest, load, created, report, recorded, unsaved, fails, byHand, refreshed>>

RefreshDate(e) == DayOf[exec[e].to]

RefreshDays(e) == IF exec[e].hand THEN (exec[e].to - exec[e].from) \div Day + 1
                  ELSE ReportDays

Succeeds(e) ==
  /\ Become(e, Idle)
  /\ refreshed' = IF exec[e].hand THEN refreshed ELSE Max({refreshed, exec[e].to + Day})

\* A day that the workflow has reported is not reported again.
SkipReports(e) ==
  /\ exec[e].pc = "start"
  /\ ~exec[e].hand
  /\ recorded >= RefreshDate(e)
  /\ Succeeds(e)
  /\ UNCHANGED <<latest, load, created, base, report, recorded, unsaved, fails, byHand>>

StartReports(e) ==
  /\ exec[e].pc = "start"
  /\ exec[e].hand \/ recorded < RefreshDate(e)
  /\ Become(e, [exec[e] EXCEPT !.pc = "sp"])
  /\ UNCHANGED <<latest, load, created, base, report, recorded, unsaved, fails, byHand,
                 refreshed>>

\* A procedure writes the rows of each day anew.
RefreshReport(e) ==
  /\ exec[e].pc = "sp"
  /\ LET last == RefreshDate(e)
         span == last - RefreshDays(e) + 1..last
         sp   == exec[e].sp
     IN \/ report' = [report EXCEPT ![sp] =
                        [d \in Days |-> IF d \in span THEN base \intersect TimesOf[d] ELSE @[d]]]
        \/ CaughtErrors /\ report' = report
  /\ Become(e, [exec[e] EXCEPT !.pc = "done"])
  /\ UNCHANGED <<latest, load, created, base, recorded, unsaved, fails, byHand, refreshed>>

\* Mutant: it does not stop at the last one.
NextReportAlways(e) ==
  /\ exec[e].pc = "done"
  /\ Become(e, [exec[e] EXCEPT !.pc = "sp", !.sp = @ + 1])
  /\ UNCHANGED <<latest, load, created, base, report, recorded, unsaved, fails, byHand,
                 refreshed>>

\* The next report, in the order of the list.
NextReport(e) ==
  /\ exec[e].pc = "done"
  /\ exec[e].sp # Reports
  /\ Become(e, [exec[e] EXCEPT !.pc = "sp", !.sp = @ + 1])
  /\ UNCHANGED <<latest, load, created, base, report, recorded, unsaved, fails, byHand,
                 refreshed>>

\* Mutant: the day is recorded after any report.
RecordAnyReport(e) ==
  /\ exec[e].pc = "done"
  /\ unsaved' = IF exec[e].hand THEN unsaved ELSE unsaved \union {RefreshDate(e)}
  /\ Succeeds(e)
  /\ UNCHANGED <<latest, load, created, base, report, recorded, fails, byHand>>

\* After the last report the day is recorded, by a statement nobody waits for; what an
\* operator asked for is recorded under another trigger.
RecordDay(e) ==
  /\ exec[e].pc = "done"
  /\ exec[e].sp = Reports
  /\ unsaved' = IF exec[e].hand THEN unsaved ELSE unsaved \union {RefreshDate(e)}
  /\ Succeeds(e)
  /\ UNCHANGED <<latest, load, created, base, report, recorded, fails, byHand>>

RowInserted(d) ==
  /\ d \in unsaved
  /\ unsaved' = unsaved \ {d}
  /\ recorded' = Max({d, recorded})
  /\ UNCHANGED <<latest, load, created, base, report, exec, fails, byHand, refreshed>>

RowLost(d) ==
  /\ d \in unsaved
  /\ fails < MaxFails
  /\ fails' = fails + 1
  /\ unsaved' = unsaved \ {d}
  /\ UNCHANGED <<latest, load, created, base, report, recorded, exec, byHand, refreshed>>

\* A lambda or a statement fails, of this app or of one before it.
ExecutionFails(e) ==
  /\ exec[e] # Idle
  /\ fails < MaxFails
  /\ fails' = fails + 1
  /\ Become(e, Idle)
  /\ UNCHANGED <<latest, load, created, base, report, recorded, unsaved, byHand, refreshed>>

-----------------------------------------------------------------------------
Init ==
  /\ latest = First
  /\ load = FALSE
  /\ created = [t \in Times |-> 0]
  /\ base = {}
  /\ report = NoRows
  /\ recorded = NoDay
  /\ unsaved = {}
  /\ exec = [e \in Executions |-> Idle]
  /\ fails = 0
  /\ byHand = 0
  /\ refreshed = First

Next ==
  \/ SubmitWindow \/ MergeEvents \/ RefreshNotDue
  \/ \E e \in Executions :
       \/ RefreshViews(e) \/ StartByHand(e) \/ CheckSkips(e) \/ CheckContinues(e)
       \/ RefreshBase(e) \/ SkipReports(e) \/ StartReports(e) \/ RefreshReport(e)
       \/ NextReport(e) \/ RecordDay(e) \/ ExecutionFails(e)
  \/ \E d \in Days : RowInserted(d) \/ RowLost(d)

Spec == Init /\ [][Next]_vars

-----------------------------------------------------------------------------
(* What is to be shown *)

\* A day that the workflow has recorded, and every day before it, is whole in every
\* report: no day is recorded before it is over and loaded, none is jumped over, and
\* no run by hand takes anything back.
ReportsComplete ==
  \A r \in 1..Reports, d \in Days : d <= recorded => TimesOf[d] \subseteq report[r][d]

\* An event that was merged is in the base view, or the next refresh takes it:
\* neither the newest event that was copied nor the freshness has passed it.
NoEventPassed == Loaded \ base \subseteq ToCopy(latest - Freshness)

=============================================================================
