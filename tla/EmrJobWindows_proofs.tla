------------------------- MODULE EmrJobWindows_proofs -------------------------
(***************************************************************************)
(* Proofs about EmrJobWindows, for any files, jobs and lengths of seconds, *)
(* days and the buffer.                                                    *)
(***************************************************************************)
EXTENDS EmrJobWindows, TLAPS

-----------------------------------------------------------------------------
(* Seconds and days *)

LEMMA FloorSecFacts ==
  ASSUME NEW t \in Nat
  PROVE  /\ FloorSec(t) \in Nat
         /\ FloorSec(t) <= t
         /\ t < FloorSec(t) + Sec
BY WindowsAssumption DEF FloorSec

LEMMA ProductMono ==
  ASSUME NEW a \in Int, NEW b \in Int, a <= b, NEW c \in Nat
  PROVE  a * c <= b * c
OBVIOUS

LEMMA ProductNat ==
  ASSUME NEW a \in Nat, NEW b \in Nat
  PROVE  a * b \in Nat
OBVIOUS

LEMMA QuotientMono ==
  ASSUME NEW a \in Nat, NEW b \in Nat, a <= b, NEW c \in Nat \ {0}
  PROVE  /\ a \div c \in Nat
         /\ b \div c \in Nat
         /\ a \div c <= b \div c
OBVIOUS

LEMMA QuotientExact ==
  ASSUME NEW a \in Nat, NEW c \in Nat \ {0}
  PROVE  (a * c) \div c = a
OBVIOUS

LEMMA FloorSecMono ==
  ASSUME NEW a \in Nat, NEW b \in Nat, a <= b
  PROVE  FloorSec(a) <= FloorSec(b)
BY QuotientMono, ProductMono, WindowsAssumption DEF FloorSec

LEMMA FloorSecTwice == \A t \in Nat : FloorSec(FloorSec(t)) = FloorSec(t)
<1> SUFFICES ASSUME NEW t \in Nat PROVE FloorSec(FloorSec(t)) = FloorSec(t)
  OBVIOUS
<1>1. t \div Sec \in Nat
  BY QuotientMono, WindowsAssumption
<1> QED BY <1>1, QuotientExact, WindowsAssumption DEF FloorSec

\* Between two seconds there is nothing.
LEMMA NextSecond ==
  ASSUME NEW a \in Nat, NEW b \in Nat, FloorSec(a) < FloorSec(b)
  PROVE  FloorSec(a) + Sec <= FloorSec(b)
<1> DEFINE p == a \div Sec
           q == b \div Sec
<1>1. p \in Nat /\ q \in Nat
  BY QuotientMono, WindowsAssumption
<1>2. ~ q <= p
  BY <1>1, ProductMono, ProductNat, WindowsAssumption DEF FloorSec
<1>3. (p + 1) * Sec <= q * Sec
  BY <1>1, <1>2, ProductMono, WindowsAssumption
<1>4. (p + 1) * Sec = p * Sec + Sec
  BY <1>1, WindowsAssumption
<1> QED BY <1>3, <1>4 DEF FloorSec

LEMMA DayMono ==
  ASSUME NEW a \in Nat, NEW b \in Nat, a <= b
  PROVE  /\ DayOf(a) \in Nat
         /\ DayOf(b) \in Nat
         /\ DayOf(a) <= DayOf(b)
BY QuotientMono, WindowsAssumption DEF DayOf

LEMMA DayStarts ==
  ASSUME NEW t \in Nat
  PROVE  DayOf(t) * Day \in Nat /\ DayOf(t) * Day <= t /\ t < DayOf(t) * Day + Day
BY WindowsAssumption DEF DayOf

\* A second is on one day, when days are made of seconds.
LEMMA DayOfSecond ==
  ASSUME NEW n \in Nat, Day = n * Sec, NEW t \in Nat
  PROVE  DayOf(FloorSec(t)) = DayOf(t)
<1> DEFINE start == DayOf(t) * Day
<1>1. start \in Nat /\ start <= t
  BY DayStarts
<1>2. DayOf(t) \in Nat
  BY DayMono
<1>3. start = (DayOf(t) * n) * Sec
  BY <1>2, WindowsAssumption
<1>4. start \div Sec = DayOf(t) * n
  BY <1>2, <1>3, QuotientExact, ProductNat, WindowsAssumption
<1>5. FloorSec(start) = start
  BY <1>3, <1>4 DEF FloorSec
<1>6. start <= FloorSec(t)
  BY <1>1, <1>5, FloorSecMono
<1>7. DayOf(start) = DayOf(t)
  BY <1>2, QuotientExact, WindowsAssumption DEF DayOf
<1>8. FloorSec(t) \in Nat /\ FloorSec(t) <= t
  BY FloorSecFacts
<1>9. DayOf(start) <= DayOf(FloorSec(t)) /\ DayOf(FloorSec(t)) <= DayOf(t) /\ DayOf(FloorSec(t)) \in Nat
  BY <1>1, <1>6, <1>8, DayMono
<1> QED BY <1>2, <1>7, <1>9

-----------------------------------------------------------------------------
(* Types *)

CallType == [pc : {"idle", "list", "job", "recorded"}, from : Time, to : Time,
             job : 0..MaxJobs, rerun : BOOLEAN]
JobType  == [state : {"none", "submitted", "running", "SUCCESS", "FAILED"},
             from : Time, to : Time, read : SUBSET Files]
FileType == [state : {"absent", "sending", "there"}, day : 0..DayOf(MaxTime), at : Time]

LEMMA NoneTyped == NoCall \in CallType /\ NoJob \in JobType
BY WindowsAssumption DEF NoCall, NoJob, CallType, JobType, Time

\* A window that has an end after its start is in the time that there is.
LEMMA WindowType ==
  ASSUME TypeOK, WindowStart <= WindowEnd
  PROVE  /\ WindowStart \in Time
         /\ WindowEnd \in Time
         /\ WindowEnd + Buffer = now
<1>1. now \in Time /\ now \in Nat
  BY WindowsAssumption DEF TypeOK, Time
<1>2. WindowStart \in Nat
  <2>1. CASE latest = None
    BY <2>1, <1>1, DayStarts DEF WindowStart
  <2>2. CASE latest # None
    BY <2>2 DEF WindowStart, TypeOK, Time
  <2> QED BY <2>1, <2>2
<1> QED BY <1>1, <1>2, WindowsAssumption DEF WindowEnd, Time

LEMMA UploadType ==
  ASSUME TypeOK, NEW f \in Files, UploadStarts(f)
  PROVE  file' \in [Files -> FileType]
<1>1. now \in Time /\ now \in Nat /\ MaxTime \in Nat /\ now <= MaxTime
  BY WindowsAssumption DEF TypeOK, Time
<1>2. FloorSec(now) \in Time
  BY <1>1, FloorSecFacts DEF Time
<1>3. DayOf(now) \in 0..DayOf(MaxTime)
  BY <1>1, DayMono
<1>4. now >= Day => DayOf(now) >= 1
  BY <1>1, DayMono, QuotientExact, WindowsAssumption DEF DayOf
<1>5. PICK day \in {DayOf(now)} \union (IF LateKeys /\ now >= Day THEN {DayOf(now) - 1} ELSE {}) :
        file' = [file EXCEPT ![f] = [state |-> "sending", day |-> day, at |-> FloorSec(now)]]
  BY DEF UploadStarts
<1>6. day \in 0..DayOf(MaxTime)
  BY <1>1, <1>3, <1>4, DayMono
<1>7. [state |-> "sending", day |-> day, at |-> FloorSec(now)] \in FileType
  BY <1>2, <1>6 DEF FileType
<1>8. file \in [Files -> FileType]
  BY DEF TypeOK, FileType
<1> QED BY <1>5, <1>7, <1>8

LEMMA JobStepType ==
  ASSUME TypeOK, NEW i \in Jobs, NEW j \in Jobs,
         StartJobRun(j) \/ JobReads(j) \/ JobSucceeds(j) \/ JobFails(j) \/ CloneJob(i, j)
  PROVE  job' \in [Jobs -> JobType]
<1>1. job \in [Jobs -> JobType] /\ job[i] \in JobType /\ job[j] \in JobType
  BY DEF TypeOK, JobType
<1>2. CASE StartJobRun(j)
  <2>1. [state |-> "submitted", from |-> call.from, to |-> call.to, read |-> {}] \in JobType
    BY DEF TypeOK, JobType
  <2> QED BY <1>1, <1>2, <2>1 DEF StartJobRun
<1>3. CASE JobReads(j)
  <2>1. [job[j] EXCEPT !.state = "running", !.read = InWindow(job[j].from, job[j].to)] \in JobType
    BY <1>1 DEF JobType, InWindow
  <2> QED BY <1>1, <1>3, <2>1 DEF JobReads
<1>4. CASE JobSucceeds(j)
  <2>1. [job[j] EXCEPT !.state = "SUCCESS"] \in JobType
    BY <1>1 DEF JobType
  <2> QED BY <1>1, <1>4, <2>1 DEF JobSucceeds
<1>5. CASE JobFails(j)
  <2>1. [job[j] EXCEPT !.state = "FAILED"] \in JobType
    BY <1>1 DEF JobType
  <2> QED BY <1>1, <1>5, <2>1 DEF JobFails
<1>6. CASE CloneJob(i, j)
  <2>1. [job[i] EXCEPT !.state = "submitted", !.read = {}] \in JobType
    BY <1>1 DEF JobType
  <2> QED BY <1>1, <1>6, <2>1 DEF CloneJob
<1> QED BY <1>2, <1>3, <1>4, <1>5, <1>6

\* A run that has started a job names it.
CallNamesJob == call.pc \in {"job", "recorded"} => call.job \in Jobs

TypeInv == TypeOK /\ CallNamesJob

LEMMA TypeInvariance == Spec => []TypeInv
<1> USE DEF Jobs, TypeInv, CallNamesJob
<1>1. Init => TypeInv
  <2> SUFFICES ASSUME Init PROVE TypeInv
    OBVIOUS
  <2>1. 0 \in Time /\ 0 \in 0..DayOf(MaxTime)
    BY WindowsAssumption, DayMono DEF Time
  <2> QED BY <2>1, NoneTyped DEF Init, TypeOK, CallType, JobType, NoCall
<1>2. TypeInv /\ [Next]_vars => TypeInv'
  <2> SUFFICES ASSUME TypeInv, [Next]_vars PROVE TypeInv'
    OBVIOUS
  <2>1. CASE UNCHANGED vars
    BY <2>1 DEF vars, TypeOK
  <2>2. ASSUME NEW f \in Files, UploadStarts(f) PROVE TypeInv'
    BY <2>2, UploadType DEF UploadStarts, TypeOK, FileType
  <2>3. ASSUME NEW f \in Files, UploadEnds(f) PROVE TypeInv'
    BY <2>3, SMTT(30) DEF UploadEnds, TypeOK
  <2>4. CASE Tick
    BY <2>4, WindowsAssumption, SMTT(30) DEF Tick, TypeOK, Time
  <2>5. CASE Invoke
    BY <2>5, WindowType, NoneTyped DEF Invoke, TypeOK, CallType
  <2>6. ASSUME NEW j \in Jobs, InvokeRerun(j) PROVE TypeInv'
    BY <2>6, NoneTyped DEF InvokeRerun, TypeOK, CallType
  <2>7. CASE NoFiles
    BY <2>7, NoneTyped DEF NoFiles, TypeOK, CallType, NoCall
  <2>8. ASSUME NEW j \in Jobs, StartJobRun(j) PROVE TypeInv'
    <3>1. job' \in [Jobs -> JobType]
      BY <2>8, JobStepType
    <3>2. call' = [call EXCEPT !.pc = "job", !.job = j] /\ call \in CallType
      BY <2>8 DEF StartJobRun, TypeOK, CallType
    <3>3. call' \in CallType /\ call'.job = j
      <4>1. j \in 0..MaxJobs
        BY WindowsAssumption
      <4>2. call' = [pc |-> "job", from |-> call.from, to |-> call.to, job |-> j, rerun |-> call.rerun]
        BY <3>2 DEF CallType
      <4> QED BY <3>2, <4>1, <4>2 DEF CallType
    <3> QED BY <2>8, <3>1, <3>3 DEF StartJobRun, TypeOK, JobType, CallType
  <2>9. CASE RecordJob
    BY <2>9, NoneTyped DEF RecordJob, TypeOK, CallType, NoCall
  <2>10. CASE RecordLatest
    BY <2>10, NoneTyped DEF RecordLatest, TypeOK, CallType, NoCall
  <2>11. CASE InvocationFails
    BY <2>11, NoneTyped DEF InvocationFails, TypeOK, CallType, NoCall
  <2>12. ASSUME NEW j \in Jobs, JobReads(j) PROVE TypeInv'
    BY <2>12, JobStepType DEF JobReads, TypeOK, JobType
  <2>13. ASSUME NEW j \in Jobs, JobSucceeds(j) \/ JobFails(j) PROVE TypeInv'
    BY <2>13, JobStepType DEF JobSucceeds, JobFails, TypeOK, JobType
  <2>14. ASSUME NEW i \in Jobs, NEW j \in Jobs, CloneJob(i, j) PROVE TypeInv'
    BY <2>14, JobStepType DEF CloneJob, TypeOK, JobType
  <2>15. ASSUME NEW j \in Jobs, HandleEnd(j) \/ DropEnd(j) PROVE TypeInv'
    BY <2>15 DEF HandleEnd, DropEnd, TypeOK
  <2> QED BY <2>1, <2>2, <2>3, <2>4, <2>5, <2>6, <2>7, <2>8, <2>9, <2>10, <2>11, <2>12,
             <2>13, <2>14, <2>15 DEF Next
<1> QED BY <1>1, <1>2, PTL DEF Spec

\* The state keeps its types: a job that is recorded has been started.
THEOREM WindowsTypeCorrect == Spec => []TypeOK
BY TypeInvariance, PTL DEF TypeInv

-----------------------------------------------------------------------------
(* Jobs, and the reports of those that failed *)

\* A step of a job leaves its window alone.
LEMMA JobStepKeeps ==
  ASSUME TypeInv, NEW j \in Jobs, JobReads(j) \/ JobSucceeds(j) \/ JobFails(j), NEW k \in Jobs
  PROVE  /\ job'[k].state = "none" <=> job[k].state = "none"
         /\ job'[k].from = job[k].from /\ job'[k].to = job[k].to
<1>1. job \in [Jobs -> JobType]
  BY DEF TypeInv, TypeOK, JobType
<1>2. CASE k # j
  BY <1>1, <1>2 DEF JobReads, JobSucceeds, JobFails
<1>3. CASE k = j
  BY <1>1, <1>3 DEF JobReads, JobSucceeds, JobFails, JobType
<1> QED BY <1>2, <1>3

\* A job that was started keeps its window.
LEMMA WindowsKept ==
  ASSUME TypeInv, [Next]_vars, NEW k \in Jobs, job[k].state # "none"
  PROVE  job'[k].state # "none" /\ job'[k].from = job[k].from /\ job'[k].to = job[k].to
<1>1. job \in [Jobs -> JobType]
  BY DEF TypeInv, TypeOK, JobType
<1>2. CASE UNCHANGED job
  BY <1>2
<1>3. ASSUME NEW j \in Jobs, StartJobRun(j)
      PROVE  job'[k] = job[k]
  BY <1>1, <1>3 DEF StartJobRun
<1>4. ASSUME NEW i \in Jobs, NEW j \in Jobs, CloneJob(i, j)
      PROVE  job'[k] = job[k]
  BY <1>1, <1>4 DEF CloneJob
<1>5. \/ UNCHANGED job
      \/ \E j \in Jobs : StartJobRun(j) \/ JobReads(j) \/ JobSucceeds(j) \/ JobFails(j)
      \/ \E i, j \in Jobs : CloneJob(i, j)
  BY DEF Next, vars, UploadStarts, UploadEnds, Tick, Invoke, NoFiles, RecordJob,
         RecordLatest, InvocationFails, InvokeRerun, HandleEnd, DropEnd
<1> QED BY <1>2, <1>3, <1>4, <1>5, JobStepKeeps

\* How a run of the submitter begins.
LEMMA RunBegins ==
  /\ Invoke => call' = [pc |-> "list", from |-> WindowStart, to |-> WindowEnd, job |-> 0,
                        rerun |-> FALSE]
  /\ \A j \in Jobs : InvokeRerun(j) =>
       call' = [pc |-> "list", from |-> job[j].from, to |-> job[j].to, job |-> 0, rerun |-> TRUE]
<1>1. NoCall \in CallType /\ NoCall.job = 0 /\ NoCall.rerun = FALSE
  BY NoneTyped DEF NoCall
<1>2. Invoke => call' = [pc |-> "list", from |-> WindowStart, to |-> WindowEnd, job |-> 0,
                         rerun |-> FALSE]
  BY <1>1 DEF Invoke, CallType
<1>3. ASSUME NEW j \in Jobs, InvokeRerun(j)
      PROVE  call' = [pc |-> "list", from |-> job[j].from, to |-> job[j].to, job |-> 0,
                      rerun |-> TRUE]
  BY <1>1, <1>3 DEF InvokeRerun, CallType
<1> QED BY <1>2, <1>3

\* What is recorded, told of or reported was started; a run knows the job it started.
StartedInv ==
  /\ \A j \in info \union queue \union news : job[j].state # "none"
  /\ chain \subseteq info
  /\ call.pc \in {"job", "recorded"} =>
       /\ job[call.job].state # "none"
       /\ job[call.job].from = call.from
       /\ job[call.job].to = call.to
  /\ call.pc = "job" => call.job \notin info
  /\ call.pc = "recorded" => call.job \in info \ chain /\ ~call.rerun

LEMMA StartedStep ==
  ASSUME TypeInv, StartedInv, [Next]_vars PROVE StartedInv'
<1>1. /\ info \subseteq Jobs /\ queue \subseteq Jobs /\ news \subseteq Jobs
      /\ call \in CallType /\ job \in [Jobs -> JobType]
      /\ call.pc \in {"job", "recorded"} => call.job \in Jobs
  BY DEF TypeInv, TypeOK, CallNamesJob, CallType, JobType
<1>2. CASE UNCHANGED <<info, queue, news, chain, call>>
  BY <1>1, <1>2, WindowsKept DEF StartedInv
<1>3. CASE Invoke \/ NoFiles \/ InvocationFails \/ \E j \in Jobs : InvokeRerun(j)
  <2>1. call'.pc \notin {"job", "recorded"}
    BY <1>3, RunBegins DEF NoFiles, InvocationFails, NoCall
  <2>2. UNCHANGED <<info, queue, news, chain, job>>
    BY <1>3 DEF Invoke, NoFiles, InvocationFails, InvokeRerun
  <2> QED BY <2>1, <2>2 DEF StartedInv
<1>4. ASSUME NEW j \in Jobs, StartJobRun(j) PROVE StartedInv'
  <2>1. job[j].state = "none" /\ call'.job = j /\ call'.pc = "job"
    BY <1>1, <1>4 DEF StartJobRun, CallType
  <2>2. job'[j].state # "none" /\ job'[j].from = call'.from /\ job'[j].to = call'.to
    BY <1>1, <1>4 DEF StartJobRun, CallType
  <2> QED BY <1>1, <1>4, <2>1, <2>2, WindowsKept DEF StartedInv, StartJobRun
<1>5. CASE RecordJob
  BY <1>1, <1>5 DEF StartedInv, RecordJob, NoCall, CallType
<1>6. CASE RecordLatest
  BY <1>1, <1>6 DEF StartedInv, RecordLatest, NoCall
<1>7. ASSUME NEW j \in Jobs, JobSucceeds(j) \/ JobFails(j) PROVE StartedInv'
  BY <1>1, <1>7, WindowsKept DEF StartedInv, JobSucceeds, JobFails
<1>8. ASSUME NEW j \in Jobs, HandleEnd(j) \/ DropEnd(j) PROVE StartedInv'
  BY <1>1, <1>8 DEF StartedInv, HandleEnd, DropEnd
<1>9. \/ UNCHANGED <<info, queue, news, chain, call>>
      \/ Invoke \/ NoFiles \/ InvocationFails \/ RecordJob \/ RecordLatest
      \/ \E j \in Jobs : \/ InvokeRerun(j) \/ StartJobRun(j) \/ JobSucceeds(j) \/ JobFails(j)
                         \/ HandleEnd(j) \/ DropEnd(j)
  BY DEF Next, vars, UploadStarts, UploadEnds, Tick, JobReads, CloneJob
<1> QED BY <1>2, <1>3, <1>4, <1>5, <1>6, <1>7, <1>8, <1>9

LEMMA StartedInvariance == Spec => []StartedInv
<1>1. Init => StartedInv
  BY DEF Init, StartedInv, NoCall
<1>2. TypeInv /\ StartedInv /\ [Next]_vars => StartedInv'
  BY StartedStep
<1> QED BY <1>1, <1>2, TypeInvariance, PTL DEF Spec

\* The end of a job that failed before its record was written is not handled
\* before it is.
ReportInv ==
  /\ FailuresReported
  /\ call.pc = "job" /\ job[call.job].state = "FAILED" => call.job \in news

LEMMA ReportStep ==
  ASSUME TypeInv, StartedInv, ReportInv, [Next]_vars PROVE ReportInv'
<1>1. /\ info \subseteq Jobs /\ call \in CallType /\ job \in [Jobs -> JobType]
      /\ call.pc \in {"job", "recorded"} => call.job \in Jobs
  BY DEF TypeInv, TypeOK, CallNamesJob, CallType, JobType
<1>2. CASE UNCHANGED <<info, queue, news, job, call>>
  BY <1>2 DEF ReportInv, FailuresReported
<1>3. CASE Invoke \/ NoFiles \/ InvocationFails \/ RecordLatest \/ \E j \in Jobs : InvokeRerun(j)
  <2>1. call'.pc \notin {"job", "recorded"}
    BY <1>3, RunBegins DEF NoFiles, InvocationFails, RecordLatest, NoCall
  <2>2. UNCHANGED <<info, queue, news, job>>
    BY <1>3 DEF Invoke, NoFiles, InvocationFails, RecordLatest, InvokeRerun
  <2> QED BY <2>1, <2>2 DEF ReportInv, FailuresReported
<1>4. ASSUME NEW j \in Jobs, StartJobRun(j) PROVE ReportInv'
  <2>1. j \notin info
    BY <1>4 DEF StartJobRun, StartedInv
  <2>2. call'.job = j /\ job'[j].state = "submitted"
    BY <1>1, <1>4 DEF StartJobRun, CallType
  <2> QED BY <1>1, <1>4, <2>1, <2>2 DEF ReportInv, FailuresReported, StartJobRun
<1>5. CASE RecordJob
  BY <1>1, <1>5 DEF ReportInv, FailuresReported, RecordJob, NoCall, CallType
<1>6. ASSUME NEW j \in Jobs, JobReads(j) \/ JobSucceeds(j) PROVE ReportInv'
  <2>1. job'[j].state # "FAILED"
    BY <1>1, <1>6 DEF JobReads, JobSucceeds, JobType
  <2> QED BY <1>1, <1>6, <2>1 DEF ReportInv, FailuresReported, JobReads, JobSucceeds
<1>7. ASSUME NEW j \in Jobs, JobFails(j) PROVE ReportInv'
  BY <1>1, <1>7 DEF ReportInv, FailuresReported, JobFails
<1>8. ASSUME NEW i \in Jobs, NEW j \in Jobs, CloneJob(i, j) PROVE ReportInv'
  <2>1. job'[j].state = "submitted"
    BY <1>1, <1>8 DEF CloneJob, JobType
  <2> QED BY <1>1, <1>8, <2>1 DEF ReportInv, FailuresReported, CloneJob
<1>9. ASSUME NEW j \in Jobs, HandleEnd(j) \/ DropEnd(j) PROVE ReportInv'
  <2>1. CASE HandleEnd(j)
    BY <1>1, <2>1 DEF ReportInv, FailuresReported, StartedInv, HandleEnd
  <2>2. CASE DropEnd(j)
    BY <1>1, <2>2 DEF ReportInv, FailuresReported, StartedInv, DropEnd
  <2> QED BY <1>9, <2>1, <2>2
<1>10. \/ UNCHANGED <<info, queue, news, job, call>>
       \/ Invoke \/ NoFiles \/ InvocationFails \/ RecordJob \/ RecordLatest
       \/ \E j \in Jobs : \/ InvokeRerun(j) \/ StartJobRun(j) \/ JobReads(j) \/ JobSucceeds(j)
                          \/ JobFails(j) \/ HandleEnd(j) \/ DropEnd(j)
       \/ \E i, j \in Jobs : CloneJob(i, j)
  BY DEF Next, vars, UploadStarts, UploadEnds, Tick
<1> QED BY <1>2, <1>3, <1>4, <1>5, <1>6, <1>7, <1>8, <1>9, <1>10

\* When one of the listener's invocations can make its calls, a job with a record that
\* failed is reported, or its event will be handled: the listener gives up on no job
\* whose record is still to come.
THEOREM NoFailureUnreported == Spec => []FailuresReported
<1>1. Init => ReportInv
  BY DEF Init, ReportInv, FailuresReported, NoCall
<1>2. TypeInv /\ StartedInv /\ ReportInv /\ [Next]_vars => ReportInv'
  BY ReportStep
<1> QED BY <1>1, <1>2, TypeInvariance, StartedInvariance, PTL DEF Spec, ReportInv

-----------------------------------------------------------------------------
(* The chain of windows *)

\* Windows end before the buffer, one after the other; a run without timestamps
\* takes the chain up where it ends.
ChainInv ==
  /\ \A j \in Jobs : job[j].state # "none" =>
       job[j].from <= job[j].to /\ job[j].to + Buffer <= now
  /\ call.pc # "idle" => call.from <= call.to /\ call.to + Buffer <= now
  /\ call.pc # "idle" /\ ~call.rerun /\ latest # None => call.from = latest.to
  /\ latest = None <=> chain = {}
  /\ \A j \in chain : job[j].to <= latest.to
  /\ \A i, j \in chain : i # j => job[i].to <= job[j].from \/ job[j].to <= job[i].from

LEMMA ChainStep ==
  ASSUME TypeInv, StartedInv, ChainInv, [Next]_vars PROVE ChainInv'
<1>1. /\ chain \subseteq info /\ info \subseteq Jobs /\ queue \subseteq Jobs
      /\ call \in CallType /\ job \in [Jobs -> JobType]
      /\ now \in Nat /\ Buffer \in Nat
      /\ call.pc \in {"job", "recorded"} => call.job \in Jobs
  BY WindowsAssumption
     DEF TypeInv, TypeOK, CallNamesJob, CallType, JobType, StartedInv, Time
<1>2. \A j \in chain : job[j].state # "none"
  BY DEF StartedInv
<1>3. \A j \in Jobs : job[j].from \in Nat /\ job[j].to \in Nat
  BY <1>1 DEF JobType, Time
<1>4. call.from \in Nat /\ call.to \in Nat /\ latest.from \in Int /\ latest.to \in Int
  BY <1>1 DEF CallType, Time, TypeInv, TypeOK, None
<1>5. CASE UNCHANGED <<now, call, latest, job, chain>>
  BY <1>5 DEF ChainInv
<1>6. CASE Tick
  BY <1>6, <1>1, <1>3, <1>4 DEF ChainInv, Tick
<1>7. CASE Invoke
  <2>1. WindowStart <= WindowEnd /\ WindowEnd + Buffer = now
    BY <1>7, WindowType DEF Invoke, TypeInv
  <2>2. latest # None => WindowStart = latest.to
    BY DEF WindowStart
  <2>3. call'.from = WindowStart /\ call'.to = WindowEnd
    BY <1>7, RunBegins
  <2> QED BY <1>7, <1>1, <2>1, <2>2, <2>3 DEF ChainInv, Invoke
<1>8. ASSUME NEW j \in Jobs, InvokeRerun(j) PROVE ChainInv'
  <2>1. job[j].state # "none"
    BY <1>8 DEF InvokeRerun, StartedInv
  <2>2. call'.from = job[j].from /\ call'.to = job[j].to /\ call'.rerun
    BY <1>8, RunBegins
  <2> QED BY <1>8, <2>1, <2>2 DEF ChainInv, InvokeRerun
<1>9. CASE NoFiles \/ InvocationFails
  BY <1>9 DEF ChainInv, NoFiles, InvocationFails, NoCall
<1>10. ASSUME NEW j \in Jobs, StartJobRun(j) PROVE ChainInv'
  <2>1. job'[j].from = call.from /\ job'[j].to = call.to
    BY <1>1, <1>10 DEF StartJobRun
  <2>2. \A k \in Jobs \ {j} : job'[k] = job[k]
    BY <1>1, <1>10 DEF StartJobRun
  <2>3. j \notin chain
    BY <1>2, <1>10 DEF StartJobRun
  <2>4. call.pc # "idle" /\ call'.from = call.from /\ call'.to = call.to /\ call'.rerun = call.rerun
    BY <1>1, <1>10 DEF StartJobRun, CallType
  <2>5. UNCHANGED <<now, latest, chain>>
    BY <1>10 DEF StartJobRun
  <2> QED BY <1>1, <2>1, <2>2, <2>3, <2>4, <2>5 DEF ChainInv
<1>11. CASE RecordJob
  <2>1. call'.pc = "idle" \/ (/\ call'.from = call.from /\ call'.to = call.to
                               /\ call'.rerun = call.rerun /\ call.pc # "idle")
    BY <1>1, <1>11 DEF RecordJob, CallType, NoCall
  <2> QED BY <1>11, <2>1 DEF ChainInv, RecordJob
<1>12. CASE RecordLatest
  <2>1. /\ call.job \in Jobs /\ job[call.job].from = call.from /\ job[call.job].to = call.to
        /\ call.job \notin chain /\ ~call.rerun /\ call.from <= call.to
    BY <1>1, <1>12 DEF RecordLatest, StartedInv, ChainInv
  <2>2. \A j \in chain : job[j].to <= call.from
    BY <1>12, <2>1 DEF RecordLatest, ChainInv
  <2>3. latest' # None /\ latest'.to = call.to /\ call'.pc = "idle" /\ chain' # {}
    BY <1>4, <1>12, <2>1 DEF RecordLatest, None, NoCall
  <2> QED BY <1>1, <1>3, <1>4, <1>12, <2>1, <2>2, <2>3 DEF ChainInv, RecordLatest
<1>13. ASSUME NEW j \in Jobs, JobReads(j) \/ JobSucceeds(j) \/ JobFails(j) PROVE ChainInv'
  <2>1. UNCHANGED <<now, call, latest, chain>>
    BY <1>13 DEF JobReads, JobSucceeds, JobFails
  <2> QED BY <1>1, <1>13, <2>1, JobStepKeeps DEF ChainInv
<1>14. ASSUME NEW i \in Jobs, NEW j \in Jobs, CloneJob(i, j) PROVE ChainInv'
  <2>1. /\ job[i].state # "none" /\ job'[j].from = job[i].from /\ job'[j].to = job[i].to
        /\ j \notin chain
    BY <1>1, <1>2, <1>14 DEF CloneJob, JobType
  <2>2. \A k \in Jobs \ {j} : job'[k] = job[k]
    BY <1>1, <1>14 DEF CloneJob
  <2>3. UNCHANGED <<now, call, latest, chain>>
    BY <1>14 DEF CloneJob
  <2> QED BY <1>1, <2>1, <2>2, <2>3 DEF ChainInv
<1>15. \/ UNCHANGED <<now, call, latest, job, chain>>
       \/ Tick \/ Invoke \/ NoFiles \/ InvocationFails \/ RecordJob \/ RecordLatest
       \/ \E j \in Jobs : InvokeRerun(j) \/ StartJobRun(j)
       \/ \E j \in Jobs : JobReads(j) \/ JobSucceeds(j) \/ JobFails(j)
       \/ \E i, j \in Jobs : CloneJob(i, j)
  BY DEF Next, vars, UploadStarts, UploadEnds, HandleEnd, DropEnd
<1> QED BY <1>5, <1>6, <1>7, <1>8, <1>9, <1>10, <1>11, <1>12, <1>13, <1>14, <1>15

LEMMA ChainInvariance == Spec => []ChainInv
<1>1. Init => ChainInv
  BY DEF Init, ChainInv, NoCall, NoJob
<1>2. TypeInv /\ StartedInv /\ ChainInv /\ [Next]_vars => ChainInv'
  BY ChainStep
<1> QED BY <1>1, <1>2, TypeInvariance, StartedInvariance, PTL DEF Spec

\* A window has the files of its seconds; a job reads no others.
Within(t, j)    == /\ FloorSec(job[j].from) < t
                   /\ t < FloorSec(job[j].to) + Sec
InSeconds(f, j) == Within(file[f].at, j)

ReadInv ==
  /\ \A f \in Files : file[f].state # "absent" => file[f].at = FloorSec(file[f].at)
  /\ \A j \in Jobs : \A f \in job[j].read : There(f) /\ InSeconds(f, j)

LEMMA ReadStep ==
  ASSUME TypeInv, ReadInv, [Next]_vars PROVE ReadInv'
<1> USE DEF ReadInv, There, InSeconds, Within
<1>1. /\ job \in [Jobs -> JobType] /\ file \in [Files -> FileType]
      /\ now \in Nat
  BY WindowsAssumption DEF TypeInv, TypeOK, JobType, FileType, Time
<1>2. \A j \in Jobs : job[j].read \subseteq Files
  BY <1>1 DEF JobType
<1>3. CASE UNCHANGED <<file, job>>
  BY <1>3
<1>4. ASSUME NEW f \in Files, UploadStarts(f) PROVE ReadInv'
  <2>1. file'[f].at = FloorSec(now) /\ file[f].state = "absent" /\ UNCHANGED job
    BY <1>1, <1>4 DEF UploadStarts
  <2>2. \A g \in Files \ {f} : file'[g] = file[g]
    BY <1>1, <1>4 DEF UploadStarts
  <2> QED BY <1>1, <1>2, <2>1, <2>2, FloorSecTwice
<1>5. ASSUME NEW f \in Files, UploadEnds(f) PROVE ReadInv'
  <2>1. \A g \in Files : /\ file'[g].at = file[g].at
                         /\ file'[g].state = "absent" <=> file[g].state = "absent"
                         /\ file[g].state = "there" => file'[g].state = "there"
    BY <1>1, <1>5 DEF UploadEnds, FileType
  <2> QED BY <1>2, <1>5, <2>1 DEF UploadEnds
<1>6. ASSUME NEW j \in Jobs, StartJobRun(j) PROVE ReadInv'
  BY <1>1, <1>6 DEF StartJobRun
<1>7. ASSUME NEW j \in Jobs, JobReads(j) PROVE ReadInv'
  <2>1. /\ job'[j].read = InWindow(job[j].from, job[j].to)
        /\ job'[j].from = job[j].from /\ job'[j].to = job[j].to /\ UNCHANGED file
    BY <1>1, <1>7 DEF JobReads, JobType
  <2>2. \A k \in Jobs \ {j} : job'[k] = job[k]
    BY <1>1, <1>7 DEF JobReads
  <2> QED BY <2>1, <2>2 DEF InWindow
<1>8. ASSUME NEW j \in Jobs, JobSucceeds(j) \/ JobFails(j) PROVE ReadInv'
  <2>1. \A k \in Jobs : /\ job'[k].read = job[k].read
                        /\ job'[k].from = job[k].from /\ job'[k].to = job[k].to
    BY <1>1, <1>8 DEF JobSucceeds, JobFails, JobType
  <2> QED BY <1>8, <2>1 DEF JobSucceeds, JobFails
<1>9. ASSUME NEW i \in Jobs, NEW j \in Jobs, CloneJob(i, j) PROVE ReadInv'
  <2>1. job'[j].read = {} /\ UNCHANGED file
    BY <1>1, <1>9 DEF CloneJob, JobType
  <2>2. \A k \in Jobs \ {j} : job'[k] = job[k]
    BY <1>1, <1>9 DEF CloneJob
  <2> QED BY <2>1, <2>2
<1>10. \/ UNCHANGED <<file, job>>
       \/ \E f \in Files : UploadStarts(f) \/ UploadEnds(f)
       \/ \E j \in Jobs : StartJobRun(j) \/ JobReads(j) \/ JobSucceeds(j) \/ JobFails(j)
       \/ \E i, j \in Jobs : CloneJob(i, j)
  BY DEF Next, vars, Tick, Invoke, NoFiles, RecordJob, RecordLatest, InvocationFails,
         InvokeRerun, HandleEnd, DropEnd
<1> QED BY <1>3, <1>4, <1>5, <1>6, <1>7, <1>8, <1>9, <1>10

LEMMA ReadInvariance == Spec => []ReadInv
<1>1. Init => ReadInv
  BY DEF Init, ReadInv, NoJob
<1>2. TypeInv /\ ReadInv /\ [Next]_vars => ReadInv'
  BY ReadStep
<1> QED BY <1>1, <1>2, TypeInvariance, PTL DEF Spec

\* A file is in the seconds of one of two windows that follow each other.
LEMMA OneWindow ==
  ASSUME TypeInv, ReadInv, NEW f \in Files, file[f].state # "absent",
         NEW i \in Jobs, NEW j \in Jobs, job[i].to <= job[j].from,
         InSeconds(f, i)
  PROVE  ~InSeconds(f, j)
<1>1. file[f].at \in Nat /\ job[i].to \in Nat /\ job[j].from \in Nat
  BY WindowsAssumption DEF TypeInv, TypeOK, Time
<1>2. file[f].at = FloorSec(file[f].at)
  BY DEF ReadInv
<1>3. FloorSec(job[i].to) <= FloorSec(job[j].from)
  BY <1>1, FloorSecMono
<1>4. FloorSec(job[j].from) < file[f].at => FloorSec(job[j].from) + Sec <= file[f].at
  BY <1>1, <1>2, NextSecond
<1> QED BY <1>1, <1>3, <1>4, FloorSecFacts, WindowsAssumption DEF InSeconds, Within

\* No file is read in two windows of the chain, whatever the seconds in which the
\* windows end, and whatever is run again.
THEOREM FilesReadOnce == Spec => []NoFileTwice
<1>1. TypeInv /\ StartedInv /\ ChainInv /\ ReadInv => NoFileTwice
  <2> SUFFICES ASSUME TypeInv, StartedInv, ChainInv, ReadInv,
                      NEW i \in chain, NEW j \in chain, i # j,
                      NEW f \in job[i].read \intersect job[j].read
               PROVE  FALSE
    BY DEF NoFileTwice
  <2>1. i \in Jobs /\ j \in Jobs /\ job[i].read \subseteq Files
    BY DEF TypeInv, TypeOK
  <2>2. There(f) /\ InSeconds(f, i) /\ InSeconds(f, j) /\ f \in Files
    BY <2>1 DEF ReadInv
  <2>3. job[i].to <= job[j].from \/ job[j].to <= job[i].from
    BY DEF ChainInv
  <2> QED BY <2>1, <2>2, <2>3, OneWindow DEF There
<1> QED BY <1>1, TypeInvariance, StartedInvariance, ChainInvariance, ReadInvariance, PTL

-----------------------------------------------------------------------------
(* No gap between the windows *)

\* A time between the first start and the end of the chain is in a window of it.
CoverInv ==
  \A t \in Nat :
    (\E j \in chain : FloorSec(job[j].from) < t) /\ t < FloorSec(latest.to) + Sec =>
      \E i \in chain : Within(t, i)

LEMMA CoverStep ==
  ASSUME TypeInv, StartedInv, ChainInv, CoverInv, [Next]_vars PROVE CoverInv'
<1>1. chain \subseteq Jobs /\ \A j \in chain : job[j].state # "none"
  BY DEF TypeInv, TypeOK, StartedInv
<1>2. \A j \in chain : job'[j].from = job[j].from /\ job'[j].to = job[j].to
  BY <1>1, WindowsKept
<1>3. CASE UNCHANGED <<chain, latest>>
  BY <1>2, <1>3 DEF CoverInv, Within
<1>4. CASE RecordLatest
  <2> DEFINE c == call.job
  <2>1. /\ chain' = chain \union {c} /\ latest'.to = call.to /\ UNCHANGED job
        /\ call.pc = "recorded"
    BY <1>4 DEF RecordLatest
  <2>2. job[c].from = call.from /\ job[c].to = call.to /\ ~call.rerun
    BY <2>1 DEF StartedInv
  <2>3. chain # {} => call.from = latest.to
    BY <2>1, <2>2 DEF ChainInv
  <2>4. FloorSec(call.from) \in Int /\ FloorSec(call.to) \in Int
    BY FloorSecFacts DEF TypeInv, TypeOK, Time
  <2> SUFFICES ASSUME NEW t \in Nat, NEW j \in chain',
                      FloorSec(job[j].from) < t, t < FloorSec(call.to) + Sec
               PROVE  \E i \in chain' : Within(t, i)
    BY <2>1 DEF CoverInv, Within
  <2>5. CASE FloorSec(call.from) < t
    BY <2>1, <2>2, <2>5 DEF Within
  <2>6. CASE ~(FloorSec(call.from) < t)
    <3>1. j \in chain /\ call.from = latest.to
      BY <2>1, <2>2, <2>3, <2>6
    <3>2. t < FloorSec(latest.to) + Sec
      BY <2>4, <2>6, <3>1, WindowsAssumption
    <3>3. PICK i \in chain : Within(t, i)
      BY <3>1, <3>2 DEF CoverInv
    <3> QED BY <2>1, <3>3
  <2> QED BY <2>5, <2>6
<1>5. UNCHANGED <<chain, latest>> \/ RecordLatest
  BY DEF Next, vars, UploadStarts, UploadEnds, Tick, Invoke, NoFiles, RecordJob,
         InvocationFails, InvokeRerun, StartJobRun, JobReads, JobSucceeds, JobFails, CloneJob,
         HandleEnd, DropEnd
<1> QED BY <1>3, <1>4, <1>5

LEMMA CoverInvariance == Spec => []CoverInv
<1>1. Init => CoverInv
  BY DEF Init, CoverInv
<1>2. TypeInv /\ StartedInv /\ ChainInv /\ CoverInv /\ [Next]_vars => CoverInv'
  BY CoverStep
<1> QED BY <1>1, <1>2, TypeInvariance, StartedInvariance, ChainInvariance, PTL DEF Spec

-----------------------------------------------------------------------------
(* A job finds the files of its window: they have the prefix of the day of  *)
(* their modification, and they are listed before the window is submitted.   *)

PlaceInv ==
  /\ \A f \in Files : file[f].state # "absent" => file[f].day = DayOf(file[f].at)
  /\ \A f \in Files : file[f].state = "sending" => now < file[f].at + Buffer
  /\ \A j \in Jobs : job[j].state \in {"running", "SUCCESS"} =>
       \A f \in Files : There(f) /\ InSeconds(f, j) => f \in job[j].read

LEMMA FoundUnderItsDay ==
  ASSUME TypeInv, ReadInv, PlaceInv, NEW j \in Jobs, NEW f \in Files, There(f), InSeconds(f, j)
  PROVE  f \in InWindow(job[j].from, job[j].to)
<1>1. job[j].from \in Nat /\ job[j].to \in Nat /\ file[f].at \in Nat
  BY WindowsAssumption DEF TypeInv, TypeOK, Time
<1>2. file[f].at = FloorSec(file[f].at) /\ file[f].day = DayOf(file[f].at)
  BY DEF ReadInv, PlaceInv, There
<1>3. FloorSec(job[j].from) + Sec <= file[f].at
  BY <1>1, <1>2, NextSecond DEF InSeconds, Within
<1>4. job[j].from <= file[f].at
  BY <1>1, <1>3, FloorSecFacts, WindowsAssumption
<1>5. ~(FloorSec(job[j].to) < FloorSec(file[f].at))
  BY <1>1, <1>2, NextSecond, FloorSecFacts, WindowsAssumption DEF InSeconds, Within
<1>6. file[f].at <= job[j].to
  BY <1>1, <1>2, <1>5, FloorSecFacts
<1>7. DayOf(file[f].at) \in DayOf(job[j].from)..DayOf(job[j].to)
  BY <1>1, <1>4, <1>6, DayMono
<1> QED BY <1>2, <1>7 DEF InWindow, InSeconds, Within

LEMMA PlaceStep ==
  ASSUME ~LateKeys, Sec <= Buffer, NEW n \in Nat, Day = n * Sec,
         TypeInv, ReadInv, ChainInv, PlaceInv, [Next]_vars
  PROVE  PlaceInv'
<1>1. /\ job \in [Jobs -> JobType] /\ file \in [Files -> FileType] /\ now \in Nat
      /\ Buffer \in Nat /\ PutTime \in Nat /\ PutTime < Buffer
  BY WindowsAssumption DEF TypeInv, TypeOK, JobType, FileType, Time
<1>2. \A f \in Files : file[f].at \in Nat
  BY <1>1 DEF FileType, Time
<1>3. CASE UNCHANGED <<file, job, now>>
  BY <1>3 DEF PlaceInv, There, InSeconds, Within
<1>4. ASSUME NEW f \in Files, UploadStarts(f) PROVE PlaceInv'
  <2>1. /\ file'[f].at = FloorSec(now) /\ file'[f].day = DayOf(now)
        /\ file'[f].state = "sending" /\ UNCHANGED <<job, now>>
    BY <1>1, <1>4 DEF UploadStarts
  <2>2. \A g \in Files \ {f} : file'[g] = file[g]
    BY <1>1, <1>4 DEF UploadStarts
  <2>3. DayOf(FloorSec(now)) = DayOf(now)
    BY <1>1, DayOfSecond
  <2>4. now < FloorSec(now) + Buffer
    BY <1>1, FloorSecFacts, WindowsAssumption
  <2>5. PlaceInv!1'
    BY <2>1, <2>2, <2>3 DEF PlaceInv
  <2>6. PlaceInv!2'
    BY <2>1, <2>2, <2>4 DEF PlaceInv
  <2>7. PlaceInv!3'
    BY <2>1, <2>2 DEF PlaceInv, There, InSeconds, Within
  <2> QED BY <2>5, <2>6, <2>7 DEF PlaceInv
<1>5. ASSUME NEW f \in Files, UploadEnds(f) PROVE PlaceInv'
  <2>1. /\ file'[f].at = file[f].at /\ file'[f].day = file[f].day
        /\ file[f].state = "sending" /\ file'[f].state = "there" /\ UNCHANGED <<job, now>>
    BY <1>1, <1>5 DEF UploadEnds, FileType
  <2>2. \A g \in Files \ {f} : file'[g] = file[g]
    BY <1>1, <1>5 DEF UploadEnds
  <2>3. ASSUME NEW j \in Jobs, job[j].state \in {"running", "SUCCESS"}, InSeconds(f, j)
        PROVE  FALSE
    <3>1. job[j].from \in Nat /\ job[j].to \in Nat /\ file[f].at = FloorSec(file[f].at)
      BY <1>1, <2>1 DEF JobType, Time, ReadInv
    <3>2. ~(FloorSec(job[j].to) < FloorSec(file[f].at))
      BY <1>2, <2>3, <3>1, NextSecond, FloorSecFacts, WindowsAssumption DEF InSeconds, Within
    <3>3. file[f].at <= job[j].to
      BY <1>2, <3>1, <3>2, FloorSecFacts
    <3>4. job[j].to + Buffer <= now /\ now < file[f].at + Buffer
      BY <2>1, <2>3 DEF ChainInv, PlaceInv
    <3> QED BY <1>1, <1>2, <3>1, <3>3, <3>4
  <2>4. PlaceInv!1' /\ PlaceInv!2'
    BY <2>1, <2>2 DEF PlaceInv
  <2>5. PlaceInv!3'
    BY <2>1, <2>2, <2>3 DEF PlaceInv, There, InSeconds, Within
  <2> QED BY <2>4, <2>5 DEF PlaceInv
<1>6. CASE Tick
  <2>1. \A f \in Files : file[f].state = "sending" => now + 1 < file[f].at + Buffer
    BY <1>1, <1>2, <1>6 DEF Tick
  <2> QED BY <1>6, <2>1 DEF PlaceInv, Tick, There, InSeconds, Within
<1>7. ASSUME NEW j \in Jobs, StartJobRun(j) PROVE PlaceInv'
  <2>1. job'[j].state = "submitted" /\ UNCHANGED <<file, now>>
    BY <1>1, <1>7 DEF StartJobRun
  <2>2. \A k \in Jobs \ {j} : job'[k] = job[k]
    BY <1>1, <1>7 DEF StartJobRun
  <2> QED BY <2>1, <2>2 DEF PlaceInv, There, InSeconds, Within
<1>8. ASSUME NEW j \in Jobs, JobReads(j) PROVE PlaceInv'
  <2>1. /\ job'[j].read = InWindow(job[j].from, job[j].to)
        /\ job'[j].from = job[j].from /\ job'[j].to = job[j].to /\ UNCHANGED <<file, now>>
    BY <1>1, <1>8 DEF JobReads, JobType
  <2>2. \A k \in Jobs \ {j} : job'[k] = job[k]
    BY <1>1, <1>8 DEF JobReads
  <2>3. \A f \in Files : There(f) /\ InSeconds(f, j) => f \in job'[j].read
    BY <2>1, FoundUnderItsDay
  <2> QED BY <2>1, <2>2, <2>3 DEF PlaceInv, There, InSeconds, Within
<1>9. ASSUME NEW j \in Jobs, JobSucceeds(j) PROVE PlaceInv'
  <2>1. /\ job'[j].read = job[j].read /\ job[j].state = "running"
        /\ job'[j].from = job[j].from /\ job'[j].to = job[j].to /\ UNCHANGED <<file, now>>
    BY <1>1, <1>9 DEF JobSucceeds, JobType
  <2>2. \A k \in Jobs \ {j} : job'[k] = job[k]
    BY <1>1, <1>9 DEF JobSucceeds
  <2> QED BY <2>1, <2>2 DEF PlaceInv, There, InSeconds, Within
<1>10. ASSUME NEW j \in Jobs, JobFails(j) PROVE PlaceInv'
  <2>1. job'[j].state = "FAILED" /\ UNCHANGED <<file, now>>
    BY <1>1, <1>10 DEF JobFails, JobType
  <2>2. \A k \in Jobs \ {j} : job'[k] = job[k]
    BY <1>1, <1>10 DEF JobFails
  <2> QED BY <2>1, <2>2 DEF PlaceInv, There, InSeconds, Within
<1>11. ASSUME NEW i \in Jobs, NEW j \in Jobs, CloneJob(i, j) PROVE PlaceInv'
  <2>1. job'[j].state = "submitted" /\ UNCHANGED <<file, now>>
    BY <1>1, <1>11 DEF CloneJob, JobType
  <2>2. \A k \in Jobs \ {j} : job'[k] = job[k]
    BY <1>1, <1>11 DEF CloneJob
  <2> QED BY <2>1, <2>2 DEF PlaceInv, There, InSeconds, Within
<1>12. \/ UNCHANGED <<file, job, now>>
       \/ Tick
       \/ \E f \in Files : UploadStarts(f) \/ UploadEnds(f)
       \/ \E j \in Jobs : StartJobRun(j) \/ JobReads(j) \/ JobSucceeds(j) \/ JobFails(j)
       \/ \E i, j \in Jobs : CloneJob(i, j)
  BY DEF Next, vars, Invoke, NoFiles, RecordJob, RecordLatest, InvocationFails,
         InvokeRerun, HandleEnd, DropEnd
<1> QED BY <1>3, <1>4, <1>5, <1>6, <1>7, <1>8, <1>9, <1>10, <1>11, <1>12

\* A file that the chain of windows has passed is taken by a job with a record, when
\* the key of a file has the day of its upload, a day is made of whole seconds and
\* the buffer is a second or more.
THEOREM NoFileLeftBehind ==
  ASSUME ~LateKeys, Sec <= Buffer, NEW n \in Nat, Day = n * Sec
  PROVE  Spec => []NoFileSkipped
<1>1. Init => PlaceInv
  BY DEF Init, PlaceInv, NoJob
<1>2. TypeInv /\ ReadInv /\ ChainInv /\ PlaceInv /\ [Next]_vars => PlaceInv'
  BY PlaceStep
<1>3. TypeInv /\ StartedInv /\ ChainInv /\ ReadInv /\ CoverInv /\ PlaceInv => NoFileSkipped
  <2> SUFFICES ASSUME TypeInv, StartedInv, ChainInv, ReadInv, CoverInv, PlaceInv,
                      NEW f \in Files, Passed(f)
               PROVE  \E j \in info : f \in Taken(j)
    BY DEF NoFileSkipped
  <2>1. file[f].at \in Nat
    BY WindowsAssumption DEF TypeInv, TypeOK, Time
  <2>2. PICK i \in chain : Within(file[f].at, i)
    BY <2>1 DEF CoverInv, Passed
  <2>3. i \in info /\ i \in Jobs
    BY DEF StartedInv, TypeInv, TypeOK
  <2>4. There(f) /\ InSeconds(f, i)
    BY <2>2 DEF Passed, InSeconds
  <2>5. f \in Taken(i)
    BY <2>3, <2>4, FoundUnderItsDay DEF PlaceInv, Taken
  <2> QED BY <2>3, <2>5
<1> QED BY <1>1, <1>2, <1>3, TypeInvariance, StartedInvariance, ChainInvariance, ReadInvariance,
           CoverInvariance, PTL DEF Spec

=============================================================================
