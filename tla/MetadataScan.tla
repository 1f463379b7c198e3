----------------------------- MODULE MetadataScan -----------------------------
(***************************************************************************)
(* The scan-metadata workflow.  After a load, at most once a day, or when  *)
(* an operator asks for it, a procedure in Redshift collects what a range  *)
(* of days has of each event and property, and a lambda merges that into   *)
(* DynamoDB: one item per id and month, of which the newest has the key    *)
(* "latest" instead of its month.  There is no transaction.                *)
(*                                                                         *)
(* Ids share nothing but the range of days: this is the story of one.      *)
(* Redshift, DynamoDB and Step Functions are modelled as the code uses     *)
(* them.                                                                   *)
(***************************************************************************)
EXTENDS Integers, FiniteSets

CONSTANTS
  Executions,    \* executions of the state machine at a time
  FirstDays,     \* first days of months
  MaxDay,        \* bound: days
  MaxFails,      \* bound: executions that fail
  MaxByHand,     \* bound: executions asked for by an operator
  FailsAgain,    \* TRUE: executions may fail also after one that failed half-way, before
                 \* its days are stored again
  Careless,      \* TRUE: an operator may ask while one is running or failed half-way
  Throttled,     \* TRUE: DynamoDB leaves items of a batch unprocessed
  Paged,         \* TRUE: the item of a month may be beyond the first page of its query
  EarlyEvents    \* TRUE: there are events of days after the latest EMR window

ASSUME ScanAssumption ==
  /\ IsFiniteSet(FirstDays) /\ FirstDays \subseteq Nat
  /\ MaxDay \in Nat
  /\ MaxFails \in Nat
  /\ MaxByHand \in Nat
  /\ FailsAgain \in BOOLEAN
  /\ Careless \in BOOLEAN
  /\ Throttled \in BOOLEAN
  /\ Paged \in BOOLEAN
  /\ EarlyEvents \in BOOLEAN

VARIABLES
  now,     \* today
  window,  \* day of the end of the latest EMR window, when a scan last depended on it
  found,   \* days in the metadata tables of the procedure; nobody reads them between executions
  table,   \* items of the id in DynamoDB, by key
  info,    \* workflow-job-info.json
  exec,    \* executions
  fails, byHand, \* counters of the bounds
  kept,    \* history: days with events that a scan has stored
  covered, \* history: days of the ranges of the scheduled scans that were stored
  torn     \* history: days of scans that failed while they were stored, not stored since

vars == <<now, window, found, table, info, exec, fails, byHand, kept, covered, torn>>

Days     == 0..MaxDay
Month    == [d \in Days |-> Cardinality({f \in FirstDays : f <= d})]
Months   == {Month[d] : d \in Days}
Latest   == -1
Keys     == Months \union {Latest}
NoMonth  == -2
Item     == [origin : Months, days : SUBSET Days]
NoItem   == [origin |-> NoMonth, days |-> {}]
NoInfo   == [end |-> 0, at |-> -1]
\* todo, old: months whose items are to be written, those of them that DynamoDB had;
\* items: days of the items in memory; newest: the month whose item is the latest.
Idle     == [pc |-> "idle", hand |-> FALSE, from |-> 0, to |-> 0, at |-> 0,
             todo |-> {}, old |-> {}, items |-> [m \in Months |-> {}], newest |-> NoMonth]

TypeOK ==
  /\ now \in Days
  /\ window \in 0..now
  /\ found \subseteq Days
  /\ table \in [Keys -> Item \union {NoItem}]
  /\ info \in [end : 0..window, at : -1..now]
  /\ exec \in [Executions ->
       [pc : {"idle", "check", "scan", "read", "merge", "write", "info"},
        hand : BOOLEAN, from : Days, to : Days, at : 0..now, todo : SUBSET Months,
        old : SUBSET Months, items : [Months -> SUBSET Days],
        newest : Months \union {NoMonth}]]
  /\ fails \in 0..MaxFails
  /\ byHand \in 0..MaxByHand
  /\ kept \subseteq Days
  /\ covered \subseteq Days
  /\ torn \subseteq Days

Become(e, r) == exec' = [exec EXCEPT ![e] = r]

-----------------------------------------------------------------------------
(* Start and range of a scan *)

Tick ==
  /\ now < MaxDay
  /\ now' = now + 1
  /\ UNCHANGED <<window, found, table, info, exec, fails, byHand, kept, covered, torn>>

\* The load-data workflow has ended.
StartAfterLoad(e) ==
  /\ exec[e] = Idle
  /\ Become(e, [Idle EXCEPT !.pc = "check"])
  /\ UNCHANGED <<now, window, found, table, info, fails, byHand, kept, covered, torn>>

\* An operator starts the state machine with dates.
StartByHand(e) ==
  /\ exec[e] = Idle
  /\ byHand < MaxByHand
  /\ Careless \/ (torn = {} /\ \A x \in Executions : exec[x] = Idle)
  /\ \E from, to \in Days :
       /\ from < to
       /\ Become(e, [Idle EXCEPT !.pc = "check", !.hand = TRUE, !.from = from, !.to = to])
  /\ byHand' = byHand + 1
  /\ UNCHANGED <<now, window, found, table, info, fails, kept, covered, torn>>

OthersRunning(e) == \E x \in Executions \ {e} : exec[x] # Idle

\* Skipped: another one is running, or the last one started less than a day ago.
CheckSkips(e) ==
  /\ exec[e].pc = "check"
  /\ OthersRunning(e) \/ (~exec[e].hand /\ info # NoInfo /\ now <= info.at + 1)
  /\ Become(e, Idle)
  /\ UNCHANGED <<now, window, found, table, info, fails, byHand, kept, covered, torn>>

\* From the end of the last scan to the day of the end of the latest EMR window, that
\* has moved on since.
CheckContinues(e) ==
  /\ exec[e].pc = "check"
  /\ ~exec[e].hand
  /\ ~OthersRunning(e)
  /\ info = NoInfo \/ now > info.at
  /\ window' \in window..now
  /\ Become(e, [exec[e] EXCEPT !.pc = "scan", !.from = info.end, !.to = window', !.at = now])
  /\ UNCHANGED <<now, found, table, info, fails, byHand, kept, covered, torn>>

\* Today at the latest.
CheckByHand(e) ==
  /\ exec[e].pc = "check"
  /\ exec[e].hand
  /\ ~OthersRunning(e)
  /\ Become(e, [exec[e] EXCEPT !.pc = "scan", !.to = IF @ < now THEN @ ELSE now])
  /\ UNCHANGED <<now, window, found, table, info, fails, byHand, kept, covered, torn>>

RangeOf(e) == {d \in Days : exec[e].from <= d /\ d < exec[e].to}

\* The procedure makes its tables anew, of the days of the range that have events now:
\* some came late, some are cleared, not those of a scan that is repeated at once.  What
\* is in Redshift comes from the EMR windows that there are; those of a scheduled scan
\* end after its range.
ScanMetadata(e) ==
  /\ exec[e].pc = "scan"
  /\ window' \in IF exec[e].hand THEN window..now ELSE {window}
  /\ \E ds \in SUBSET RangeOf(e) :
       /\ torn \intersect RangeOf(e) \subseteq ds
       /\ EarlyEvents \/ \A d \in ds : d <= window'
       /\ found' = ds
  /\ Become(e, [exec[e] EXCEPT !.pc = "read"])
  /\ UNCHANGED <<now, table, info, fails, byHand, kept, covered, torn>>

-----------------------------------------------------------------------------
(* The merge into DynamoDB *)

\* The key of the item that DynamoDB has of a month; of two, the month's own.
KeyOf(m) == IF table[m].origin = m THEN m ELSE Latest

\* The items of the months found are read: a query for each, of the items of the id, of
\* which only the first page is looked at.
ReadExisting(e) ==
  LET ms == {Month[d] : d \in found}
      there == {m \in ms : table[KeyOf(m)].origin = m}
  IN /\ exec[e].pc = "read"
     /\ \E old \in IF Paged THEN SUBSET there ELSE {there} :
          Become(e, [exec[e] EXCEPT !.pc = "merge", !.todo = ms, !.old = old,
            !.items = [m \in Months |-> IF m \in old THEN table[KeyOf(m)].days ELSE {}]])
     /\ UNCHANGED <<now, window, found, table, info, fails, byHand, kept, covered, torn>>

\* Mutant: the former latest item is not put under its month.
MergeNoPut(e, m) ==
  LET last == table[Latest].origin
  IN /\ exec[e].pc = "merge"
     /\ m \in exec[e].todo
     /\ m >= last \/ last \in exec[e].todo \/ \A x \in exec[e].todo : x < last
     /\ Become(e, [exec[e] EXCEPT !.pc = "write",
          !.items = [x \in Months |-> @[x] \union {d \in found : Month[d] = x}],
          !.newest = CHOOSE x \in exec[e].todo \union {last} :
                       \A y \in exec[e].todo \union {last} : y <= x])
     /\ UNCHANGED <<now, window, found, table, info, fails, byHand, kept, covered, torn>>

\* Mutant: once the latest item is known to be newer, it stays the latest.
MergeKeepsLatest(e, m) ==
  LET last == table[Latest].origin
  IN /\ exec[e].pc = "merge"
     /\ m \in exec[e].todo
     /\ m >= last \/ last \in exec[e].todo \/ \A x \in exec[e].todo : x < last
     /\ Become(e, [exec[e] EXCEPT !.pc = "write",
          !.items = [x \in Months |-> @[x] \union {d \in found : Month[d] = x}],
          !.newest = IF m < last THEN last
                     ELSE CHOOSE x \in exec[e].todo : \A y \in exec[e].todo : y <= x])
     /\ table' = IF m > last /\ last # NoMonth THEN [table EXCEPT ![last] = table[Latest]]
                 ELSE table
     /\ UNCHANGED <<now, window, found, info, fails, byHand, kept, covered, torn>>

\* The rows come in any order.  Those of month m are first: the latest item of DynamoDB
\* tells the newest month so far, and is put under its month if m is newer.  From then
\* on the newest month is known from the rows.
Merge(e, m) ==
  LET last == table[Latest].origin
  IN /\ exec[e].pc = "merge"
     /\ m \in exec[e].todo
     /\ m >= last \/ last \in exec[e].todo \/ \A x \in exec[e].todo : x < last
     /\ Become(e, [exec[e] EXCEPT !.pc = "write",
          !.items = [x \in Months |-> @[x] \union {d \in found : Month[d] = x}],
          !.newest = CHOOSE x \in exec[e].todo \union {last} :
                       \A y \in exec[e].todo \union {last} : y <= x])
     /\ table' = IF m > last /\ last # NoMonth THEN [table EXCEPT ![last] = table[Latest]]
                 ELSE table
     /\ UNCHANGED <<now, window, found, info, fails, byHand, kept, covered, torn>>

\* Rows older than the latest item are followed by newer ones, and none are of its month:
\* the latest item is not in memory to be given its month as its key, a TypeError.
MergeThrows(e) ==
  LET last == table[Latest].origin
  IN /\ exec[e].pc = "merge"
     /\ last \notin exec[e].todo
     /\ \E m, n \in exec[e].todo : m < last /\ last < n
     /\ Become(e, Idle)
     /\ found' = {}
     /\ UNCHANGED <<now, window, table, info, fails, byHand, kept, covered, torn>>

NoneFound(e) ==
  /\ exec[e].pc = "merge"
  /\ exec[e].todo = {}
  /\ Become(e, [exec[e] EXCEPT !.pc = "write"])
  /\ UNCHANGED <<now, window, found, table, info, fails, byHand, kept, covered, torn>>

\* A batch of items; those that DynamoDB had go first, or are in the same batch.  The
\* answer is not looked at: it names the items that DynamoDB did not process.
BatchWrite(e) ==
  LET Put(m) == IF m = exec[e].newest THEN Latest ELSE m
  IN /\ exec[e].pc = "write"
     /\ \E batch \in (SUBSET exec[e].todo) \ {{}} :
          /\ exec[e].old \intersect exec[e].todo \subseteq batch \/ batch \subseteq exec[e].old
          /\ \E done \in IF Throttled THEN SUBSET batch ELSE {batch} :
               table' = [k \in Keys |->
                 IF \E m \in done : Put(m) = k
                 THEN LET m == CHOOSE x \in done : Put(x) = k
                      IN [origin |-> m, days |-> exec[e].items[m]]
                 ELSE table[k]]
          /\ Become(e, [exec[e] EXCEPT !.todo = @ \ batch])
     /\ UNCHANGED <<now, window, found, info, fails, byHand, kept, covered, torn>>

StoreEnds(e) ==
  /\ exec[e].pc = "write"
  /\ exec[e].todo = {}
  /\ kept' = kept \union found
  /\ covered' = IF exec[e].hand THEN covered ELSE covered \union RangeOf(e)
  /\ torn' = torn \ found
  /\ Become(e, [Idle EXCEPT !.pc = "info", !.hand = exec[e].hand, !.to = exec[e].to,
                            !.at = exec[e].at])
  /\ found' = {}
  /\ UNCHANGED <<now, window, table, info, fails, byHand>>

-----------------------------------------------------------------------------
(* The record of the scan *)

\* Mutant: so does one asked for by an operator.
UpdateInfoAlways(e) ==
  /\ exec[e].pc = "info"
  /\ info' = [end |-> exec[e].to, at |-> exec[e].at]
  /\ Become(e, Idle)
  /\ UNCHANGED <<now, window, found, table, fails, byHand, kept, covered, torn>>

\* An execution asked for by an operator leaves the record alone.
UpdateInfo(e) ==
  /\ exec[e].pc = "info"
  /\ info' = IF exec[e].hand THEN info ELSE [end |-> exec[e].to, at |-> exec[e].at]
  /\ Become(e, Idle)
  /\ UNCHANGED <<now, window, found, table, fails, byHand, kept, covered, torn>>

\* Mutant: a store that failed does not end the execution.
ExecutionGoesOn(e) ==
  /\ exec[e] # Idle
  /\ FailsAgain \/ torn = {}
  /\ fails < MaxFails
  /\ fails' = fails + 1
  /\ torn' = IF exec[e].pc \in {"merge", "write"} THEN torn \union found ELSE torn
  /\ Become(e, IF exec[e].pc = "write"
               THEN [Idle EXCEPT !.pc = "info", !.hand = exec[e].hand, !.to = exec[e].to,
                                 !.at = exec[e].at]
               ELSE Idle)
  /\ found' = IF exec[e].pc = "check" THEN found ELSE {}
  /\ UNCHANGED <<now, window, table, info, byHand, kept, covered>>

\* A lambda or the procedure fails or runs into its time limit: what it has put
\* stays, and the execution ends.
ExecutionFails(e) ==
  /\ exec[e] # Idle
  /\ FailsAgain \/ torn = {}
  /\ fails < MaxFails
  /\ fails' = fails + 1
  /\ torn' = IF exec[e].pc \in {"merge", "write"} THEN torn \union found ELSE torn
  /\ Become(e, Idle)
  /\ found' = IF exec[e].pc = "check" THEN found ELSE {}
  /\ UNCHANGED <<now, window, table, info, byHand, kept, covered>>

-----------------------------------------------------------------------------
Init ==
  /\ now = 0
  /\ window = 0
  /\ found = {}
  /\ table = [k \in Keys |-> NoItem]
  /\ info = NoInfo
  /\ exec = [e \in Executions |-> Idle]
  /\ fails = 0
  /\ byHand = 0
  /\ kept = {}
  /\ covered = {}
  /\ torn = {}

Next ==
  \/ Tick
  \/ \E e \in Executions : \/ StartAfterLoad(e) \/ StartByHand(e) \/ CheckSkips(e) \/ CheckContinues(e)
                           \/ CheckByHand(e) \/ ScanMetadata(e) \/ ReadExisting(e)
                           \/ MergeThrows(e) \/ NoneFound(e) \/ BatchWrite(e) \/ StoreEnds(e)
                           \/ UpdateInfo(e) \/ ExecutionFails(e)
  \/ \E e \in Executions, m \in Months : Merge(e, m)

Spec == Init /\ [][Next]_vars

-----------------------------------------------------------------------------
(* Properties *)

\* A day that a scan has stored stays in the item of its month, wherever a later scan
\* moves that item and at whatever step it fails; an item being moved may be there
\* twice, never not at all (store-metadata-into-ddb.ts).  It is so when the scan after
\* one that failed half-way does not fail (FailsAgain), nobody asks for one in between,
\* and DynamoDB finds and writes all items: each of the constants that exclude
\* something, if TRUE, is enough to lose a day.
StoredDaysKept ==
  \A d \in kept : \E k \in Keys : table[k].origin = Month[d] /\ d \in table[k].days

\* The item that the console reads, the latest, is that of the newest month, and every
\* other one is under its month, once what a failed scan has left is stored again.
LatestIsNewest ==
  (torn = {} /\ \A e \in Executions : exec[e] = Idle) =>
    \A m \in Months : table[m] # NoItem => table[m].origin = m /\ m <= table[Latest].origin

\* No day before the recorded end is outside of the ranges of the scheduled scans that
\* were stored: one that fails is repeated from the same day, one asked for by an
\* operator moves nothing (update-workflow-info.ts).
DaysCovered == \A d \in Days : d < info.end => d \in covered
=============================================================================
