---------------------------- MODULE EmrJobWindows ----------------------------
(***************************************************************************)
(* The windows of the data processing jobs.  The ingestion server puts     *)
(* files under a key prefix of their day; a lambda run by a schedule       *)
(* submits an EMR job for the files modified since the end of the latest   *)
(* window and records the job in S3, under its id and as the latest; the   *)
(* job reads the files of its window by their modification time; another   *)
(* lambda handles the end of a job and reports one that failed.            *)
(*                                                                         *)
(* Time is in ticks.  EMR, Spark's choice of files by time and S3 are      *)
(* outside the repository; they are modelled as its code uses them.        *)
(***************************************************************************)
EXTENDS Integers

CONSTANTS
  Files,     \* files the ingestion server may write
  Sec,       \* ticks per second: S3 and Spark know seconds, the lambda more
  Day,       \* ticks per day
  Buffer,    \* dataBufferedSeconds
  PutTime,   \* an object is listed at most this long after its modification time
  LateKeys,  \* TRUE: a file may get the prefix of the day before its upload
  CallsFail, \* TRUE: the listener's calls of S3 and SQS may fail in all of its invocations
  MaxJobs,   \* bound: job runs
  MaxTime    \* bound on the clock

ASSUME WindowsAssumption ==
  /\ Sec \in Nat \ {0}
  /\ Day \in Nat \ {0}
  /\ Buffer \in Nat
  /\ PutTime \in Nat
  /\ PutTime < Buffer
  /\ {LateKeys, CallsFail} \subseteq BOOLEAN
  /\ MaxJobs \in Nat
  /\ MaxTime \in Nat

VARIABLES
  now,     \* the clock
  file,    \* objects under the source prefix
  call,    \* the run of the submitter (reservedConcurrentExecutions: 1)
  latest,  \* job-latest.json
  info,    \* the jobs with a job-<id>.json
  job,     \* EMR job runs
  news,    \* events of ended jobs, not handled
  queue,   \* jobs reported to the dead letter queue
  chain    \* history: jobs whose window became the latest

vars == <<now, file, call, latest, info, job, news, queue, chain>>

Jobs   == 1..MaxJobs
Time   == 0..MaxTime
None   == [from |-> 0, to |-> -1]
NoCall == [pc |-> "idle", from |-> 0, to |-> 0, job |-> 0, rerun |-> FALSE]
NoJob  == [state |-> "none", from |-> 0, to |-> 0, read |-> {}]

FloorSec(t) == (t \div Sec) * Sec
DayOf(t)    == t \div Day

\* The window a run without timestamps in its event starts and ends with.
WindowStart == IF latest = None THEN DayOf(now) * Day ELSE latest.to

\* Mutant: objects that are being written are not waited for.
WindowEndNow == now

WindowEnd == now - Buffer

There(f) == file[f].state = "there"

\* The objects that the submitter counts in a window.
Listed(from, to) ==
  {f \in Files : /\ There(f)
                 /\ file[f].day \in DayOf(from)..DayOf(to)
                 /\ file[f].at >= from /\ file[f].at < to}

\* Mutant: the start of the window is part of it.
InClosedWindow(from, to) ==
  {f \in Files : /\ There(f)
                 /\ file[f].day \in DayOf(from)..DayOf(to)
                 /\ file[f].at >= FloorSec(from) /\ file[f].at < FloorSec(to) + Sec}

\* The files that a job reads: after its start and up to the second of its end,
\* under the prefixes of the days from its start to its end.
InWindow(from, to) ==
  {f \in Files : /\ There(f)
                 /\ file[f].day \in DayOf(from)..DayOf(to)
                 /\ file[f].at > FloorSec(from) /\ file[f].at < FloorSec(to) + Sec}

TypeOK ==
  /\ now \in Time
  /\ file \in [Files -> [state : {"absent", "sending", "there"}, day : 0..DayOf(MaxTime), at : Time]]
  /\ call \in [pc : {"idle", "list", "job", "recorded"}, from : Time, to : Time,
               job : 0..MaxJobs, rerun : BOOLEAN]
  /\ latest \in [from : Time, to : Time] \union {None}
  /\ info \subseteq Jobs
  /\ job \in [Jobs -> [state : {"none", "submitted", "running", "SUCCESS", "FAILED"},
                       from : Time, to : Time, read : SUBSET Files]]
  /\ news \subseteq Jobs
  /\ queue \subseteq Jobs
  /\ chain \subseteq Jobs

-----------------------------------------------------------------------------
(* Files *)

\* The key, with its day, is made before the object is put.
UploadStarts(f) ==
  /\ file[f].state = "absent"
  /\ \E day \in {DayOf(now)} \union (IF LateKeys /\ now >= Day THEN {DayOf(now) - 1} ELSE {}) :
       file' = [file EXCEPT ![f] = [state |-> "sending", day |-> day, at |-> FloorSec(now)]]
  /\ UNCHANGED <<now, call, latest, info, job, news, queue, chain>>

UploadEnds(f) ==
  /\ file[f].state = "sending"
  /\ file' = [file EXCEPT ![f].state = "there"]
  /\ UNCHANGED <<now, call, latest, info, job, news, queue, chain>>

Tick ==
  /\ now < MaxTime
  /\ \A f \in Files : file[f].state = "sending" => now < file[f].at + PutTime
  /\ now' = now + 1
  /\ UNCHANGED <<file, call, latest, info, job, news, queue, chain>>

-----------------------------------------------------------------------------
(* The submitter *)

\* Mutant: no check that the start is before the end.
InvokeUnchecked ==
  /\ call.pc = "idle"
  /\ call' = [NoCall EXCEPT !.pc = "list", !.from = WindowStart, !.to = WindowEnd]
  /\ UNCHANGED <<now, file, latest, info, job, news, queue, chain>>

\* getJobTimestamps; the lambda fails when the start is after the end.
Invoke ==
  /\ call.pc = "idle"
  /\ WindowStart <= WindowEnd
  /\ call' = [NoCall EXCEPT !.pc = "list", !.from = WindowStart, !.to = WindowEnd]
  /\ UNCHANGED <<now, file, latest, info, job, news, queue, chain>>

\* An operator runs the window of a reported job again (reRunJob in the event).
InvokeRerun(j) ==
  /\ call.pc = "idle"
  /\ j \in queue
  /\ call' = [NoCall EXCEPT !.pc = "list", !.from = job[j].from, !.to = job[j].to,
                            !.rerun = TRUE]
  /\ UNCHANGED <<now, file, latest, info, job, news, queue, chain>>

NoFiles ==
  /\ call.pc = "list"
  /\ Listed(call.from, call.to) = {}
  /\ call' = NoCall
  /\ UNCHANGED <<now, file, latest, info, job, news, queue, chain>>

StartJobRun(j) ==
  /\ call.pc = "list"
  /\ Listed(call.from, call.to) # {}
  /\ job[j].state = "none"
  /\ \A i \in 1..(j - 1) : job[i].state # "none"
  /\ job' = [job EXCEPT ![j] = [state |-> "submitted", from |-> call.from, to |-> call.to,
                                read |-> {}]]
  /\ call' = [call EXCEPT !.pc = "job", !.job = j]
  /\ UNCHANGED <<now, file, latest, info, news, queue, chain>>

RecordJob ==
  /\ call.pc = "job"
  /\ info' = info \union {call.job}
  /\ call' = IF call.rerun THEN NoCall ELSE [call EXCEPT !.pc = "recorded"]
  /\ UNCHANGED <<now, file, latest, job, news, queue, chain>>

RecordLatest ==
  /\ call.pc = "recorded"
  /\ latest' = [from |-> call.from, to |-> call.to]
  /\ chain' = chain \union {call.job}
  /\ call' = NoCall
  /\ UNCHANGED <<now, file, info, job, news, queue>>

\* Any of its calls fails, or it runs into its time limit.  Lambda invokes it
\* again with the same event: for a scheduled event like the next Invoke.
InvocationFails ==
  /\ call.pc # "idle"
  /\ call' = NoCall
  /\ UNCHANGED <<now, file, latest, info, job, news, queue, chain>>

-----------------------------------------------------------------------------
(* Jobs and the listener to their ends *)

JobReads(j) ==
  /\ job[j].state = "submitted"
  /\ job' = [job EXCEPT ![j].state = "running",
                        ![j].read = InWindow(job[j].from, job[j].to)]
  /\ UNCHANGED <<now, file, call, latest, info, news, queue, chain>>

JobSucceeds(j) ==
  /\ job[j].state = "running"
  /\ job' = [job EXCEPT ![j].state = "SUCCESS"]
  /\ news' = news \union {j}
  /\ UNCHANGED <<now, file, call, latest, info, queue, chain>>

JobFails(j) ==
  /\ job[j].state \in {"submitted", "running"}
  /\ job' = [job EXCEPT ![j].state = "FAILED"]
  /\ news' = news \union {j}
  /\ UNCHANGED <<now, file, call, latest, info, queue, chain>>

\* The FAQ's way to run a failed job again: cloned in EMR, without any record.
CloneJob(i, j) ==
  /\ job[i].state = "FAILED"
  /\ job[j].state = "none"
  /\ \A k \in 1..(j - 1) : job[k].state # "none"
  /\ job' = [job EXCEPT ![j] = [job[i] EXCEPT !.state = "submitted", !.read = {}]]
  /\ UNCHANGED <<now, file, call, latest, info, news, queue, chain>>

\* Mutant: a job without a record is ignored.
HandleEndOnce(j) ==
  /\ j \in news
  /\ news' = news \ {j}
  /\ queue' = IF job[j].state = "FAILED" /\ j \in info THEN queue \union {j} ELSE queue
  /\ UNCHANGED <<now, file, call, latest, info, job, chain>>

\* The record of a job that failed goes to the queue.  Without a record there is
\* no message to send, the lambda fails and is invoked again.
HandleEnd(j) ==
  /\ j \in news
  /\ job[j].state = "FAILED" => j \in info
  /\ news' = news \ {j}
  /\ queue' = IF job[j].state = "FAILED" THEN queue \union {j} ELSE queue
  /\ UNCHANGED <<now, file, call, latest, info, job, chain>>

\* The lambda is invoked three times within minutes, longer than a run of the
\* submitter has left for the record; then the event is dropped, of a job without
\* a record or of one whose calls failed each time.
DropEnd(j) ==
  /\ j \in news
  /\ job[j].state = "FAILED"
  /\ IF j \in info THEN CallsFail ELSE call.job # j
  /\ news' = news \ {j}
  /\ UNCHANGED <<now, file, call, latest, info, job, queue, chain>>

-----------------------------------------------------------------------------
Init ==
  /\ now = 0
  /\ file = [f \in Files |-> [state |-> "absent", day |-> 0, at |-> 0]]
  /\ call = NoCall
  /\ latest = None
  /\ info = {}
  /\ job = [j \in Jobs |-> NoJob]
  /\ news = {}
  /\ queue = {}
  /\ chain = {}

Next ==
  \/ \E f \in Files : UploadStarts(f) \/ UploadEnds(f)
  \/ Tick
  \/ Invoke \/ NoFiles \/ RecordJob \/ RecordLatest \/ InvocationFails
  \/ \E j \in Jobs : InvokeRerun(j) \/ StartJobRun(j)
  \/ \E j \in Jobs : JobReads(j) \/ JobSucceeds(j) \/ JobFails(j)
  \/ \E i, j \in Jobs : CloneJob(i, j)
  \/ \E j \in Jobs : HandleEnd(j) \/ DropEnd(j)

Spec == Init /\ [][Next]_vars

-----------------------------------------------------------------------------
(* Properties *)

\* What a job has read or, when it has not read or has failed, what it or the
\* run of its window again would read.
Taken(j) == IF job[j].state \in {"running", "SUCCESS"} THEN job[j].read
            ELSE InWindow(job[j].from, job[j].to)

\* The chain of windows has passed this file.
Passed(f) == /\ There(f)
             /\ \E j \in chain : FloorSec(job[j].from) < file[f].at
             /\ file[f].at < FloorSec(latest.to) + Sec

\* A file that the chain of windows has passed is taken by a job with a record,
\* which is reported when it fails: a window that ends too late, a file listed
\* late, or a crash between the two records would leave the file behind.
NoFileSkipped == \A f \in Files : Passed(f) => \E j \in info : f \in Taken(j)

\* No file is read in two windows of the chain: the seconds of Spark and the
\* times of the submitter cut the files at the same places, whatever is run again.
NoFileTwice == \A i, j \in chain : i # j => job[i].read \intersect job[j].read = {}

\* As long as one of the listener's invocations can make its calls, a job with a
\* record that failed is reported, or its event will be handled, even if it failed
\* before its record was written.
FailuresReported ==
  ~CallsFail => \A j \in info : job[j].state = "FAILED" => j \in news \union queue
=============================================================================
