---------------------------- MODULE JobQueueProofs ----------------------------
(***************************************************************************)
(* What a job row says is true of the record behind it, for any number of  *)
(* jobs and of deaths of the worker.                                       *)
(***************************************************************************)
EXTENDS JobQueue, FiniteSetTheorems, TLAPS

(* The job of a busy worker runs, or was cancelled under it; what the      *)
(* worker is about to write into its row is true already.                  *)
WorkInv ==
  /\ pc \in Busy => status[job] \in {"running", "cancelled"}
  /\ pc = "claim" => status[job] \in {"queued", "cancelled"}
  /\ pc = "close" => HasRecord(job) /\ results[job] > 0
  /\ pc = "finish" /\ HasRecord(job) => related[job] = "done" /\ results[job] > 0
  /\ pc = "stop" => HasRecord(job)

(* A job makes a result at most once for every life of the worker: what    *)
(* can run again has none from this one.                                   *)
Made(j) == j = job /\ pc \in {"close", "finish"}
Making(j) == j = job /\ pc \in {"claim", "start", "work", "save"}
AttemptInv ==
  \A j \in Jobs :
    /\ results[j] <= crashes + 1
    /\ (status[j] \in Pending /\ ~Made(j)) \/ Making(j) => results[j] <= crashes

IInv == TypeOK /\ RunningIsOwned /\ OutcomeAgrees /\ WorkInv /\ AttemptInv

LEMMA JobsAreNumbered ==
  ASSUME TypeOK
  PROVE  \E n \in 0 .. MaxJobs :
           Jobs = 1 .. n /\ Cardinality(Jobs) = n /\ kind \in [1 .. n -> {"backtest", "train", "sync"}]
<1>1. PICK n \in 0 .. MaxJobs : kind \in [1 .. n -> {"backtest", "train", "sync"}]
  BY DEF TypeOK
<1>2. Jobs = 1 .. n /\ n \in Nat
  BY <1>1, BoundsAssumption DEF Jobs
<1>3. Cardinality(Jobs) = n
  BY <1>2, FS_Interval
<1>4. QED
  BY <1>1, <1>2, <1>3

LEMMA NoJobIsNoJob == ASSUME TypeOK PROVE NoJob \notin Jobs
BY JobsAreNumbered DEF NoJob

LEMMA InitIInv == Init => IInv
<1> SUFFICES ASSUME Init PROVE IInv
  OBVIOUS
<1>1. Jobs = {} /\ kind \in [1 .. 0 -> {"backtest", "train", "sync"}] /\ 0 \in 0 .. MaxJobs
  BY BoundsAssumption DEF Init, Jobs
<1>2. TypeOK
  BY <1>1, BoundsAssumption DEF Init, TypeOK, NoRequest, NoJob, Busy
<1>3. RunningIsOwned /\ OutcomeAgrees /\ WorkInv /\ AttemptInv
  BY <1>1 DEF Init, RunningIsOwned, OutcomeAgrees, WorkInv, AttemptInv, Busy
<1>4. QED
  BY <1>2, <1>3 DEF IInv

(* The steps of the worker that leave the rows alone.                      *)
LEMMA MovesKeepIInv ==
  ASSUME IInv,
         ClaimRead \/ Work \/ WorkCancelled \/ WorkFails \/ SaveNothing \/ Crash \/ Restart
  PROVE  IInv'
<1> USE DEF IInv
<1>1. Jobs' = Jobs /\ NoJob \notin Jobs
  BY NoJobIsNoJob DEF Jobs, tableVars, ClaimRead, Work, WorkCancelled, WorkFails, SaveNothing, Crash, Restart
<1>2. TypeOK'
  <2>1. UNCHANGED <<kind, status, cancel, related, results, request>>
    BY DEF tableVars, ClaimRead, Work, WorkCancelled, WorkFails, SaveNothing,
       Crash, Restart
  <2>2. /\ pc' \in {"boot", "idle", "claim", "down"} \cup Busy
        /\ job' \in Jobs \cup {NoJob}
        /\ pc' \in Busy \cup {"claim"} <=> job' # NoJob
    BY <1>1 DEF TypeOK, Busy, First, Queued, ClaimRead, Work, WorkCancelled, WorkFails, SaveNothing,
       Crash, Restart
  <2>3. crashes' \in 0 .. MaxCrashes /\ crashes <= crashes'
    BY BoundsAssumption DEF TypeOK, ClaimRead, Work, WorkCancelled, WorkFails, SaveNothing,
       Crash, Restart
  <2>4. QED
    BY <1>1, <2>1, <2>2, <2>3 DEF TypeOK
<1>3. RunningIsOwned'
  BY <1>1 DEF TypeOK, RunningIsOwned, tableVars, Busy, First, Queued, ClaimRead, Work, WorkCancelled,
     WorkFails, SaveNothing, Crash, Restart
<1>4. OutcomeAgrees'
  BY <1>1 DEF OutcomeAgrees, HasRecord, tableVars, ClaimRead, Work, WorkCancelled,
     WorkFails, SaveNothing, Crash, Restart
<1>5. WorkInv'
  BY <1>1 DEF TypeOK, WorkInv, HasRecord, tableVars, Busy, First, Queued, ClaimRead, Work, WorkCancelled,
     WorkFails, SaveNothing, Crash, Restart
<1>6. AttemptInv'
  BY <1>1, BoundsAssumption DEF TypeOK, AttemptInv, Made, Making, tableVars, Busy, Pending, First, Queued, ClaimRead, Work,
     WorkCancelled, WorkFails, SaveNothing, Crash, Restart
<1>7. QED
  BY <1>2, <1>3, <1>4, <1>5, <1>6

(* The steps of the worker that write rows.                                *)
LEMMA WritesKeepIInv ==
  ASSUME IInv,
         \/ Recover \/ DropCancelled \/ ClaimWrite \/ Begin \/ SaveResult \/ SaveVersion
         \/ CloseTraining \/ Finish \/ StopJob \/ FailJob
  PROVE  IInv'
<1> USE DEF IInv
<1>1. Jobs' = Jobs /\ NoJob \notin Jobs
  BY NoJobIsNoJob DEF Jobs, tableVars, Recover, DropCancelled, ClaimWrite, Begin, SaveResult, SaveVersion,
     CloseTraining, Finish, StopJob, FailJob
<1>2. TypeOK'
  <2>1. UNCHANGED <<kind, cancel, request, crashes>>
    BY DEF tableVars, Recover, DropCancelled, ClaimWrite, Begin, SaveResult,
       SaveVersion, CloseTraining, Finish, StopJob, FailJob
  <2>2. /\ pc' \in {"boot", "idle", "claim", "down"} \cup Busy
        /\ job' \in Jobs \cup {NoJob}
        /\ pc' \in Busy \cup {"claim"} <=> job' # NoJob
    BY <1>1 DEF TypeOK, Busy, Idle, workerVars, Recover, DropCancelled, ClaimWrite, Begin, SaveResult,
       SaveVersion, CloseTraining, Finish, StopJob, FailJob
  <2>3. status' \in [Jobs -> Pending \cup Terminal]
    BY DEF TypeOK, Pending, Terminal, Recovered, Recover, DropCancelled, ClaimWrite, Begin, SaveResult,
       SaveVersion, CloseTraining, Finish, StopJob, FailJob
  <2>4. related' \in [Jobs -> {"none"} \cup Pending \cup Terminal]
    BY DEF TypeOK, Pending, Terminal, Marked, Recover, DropCancelled, ClaimWrite, Begin, SaveResult,
       SaveVersion, CloseTraining, Finish, StopJob, FailJob
  <2>5. /\ results' \in [Jobs -> 0 .. MaxCrashes + 1]
        /\ \A j \in Jobs : kind[j] = "backtest" => results'[j] <= 1
    <3>1. CASE SaveResult \/ SaveVersion
      <4>1. job \in Jobs /\ results[job] \in 0 .. crashes
        BY <3>1 DEF TypeOK, AttemptInv, Making, Busy, SaveResult, SaveVersion
      <4>2. \/ results' = results
            \/ /\ kind[job] = "backtest" => results[job] = 0
               /\ results' = [results EXCEPT ![job] = results[job] + 1]
        <5>1. CASE SaveResult
          BY <5>1, Zenon DEF FirstResult, SaveResult
        <5>2. CASE SaveVersion
          BY <5>2 DEF SaveVersion
        <5>3. QED
          BY <3>1, <5>1, <5>2
      <4>3. QED
        BY <4>1, <4>2, BoundsAssumption DEF TypeOK
    <3>2. CASE UNCHANGED results
      BY <3>2 DEF TypeOK
    <3>3. QED
      BY <3>1, <3>2 DEF workerVars, Recover, DropCancelled, ClaimWrite, Begin, CloseTraining, Finish, StopJob,
         FailJob
  <2>6. QED
    BY <1>1, <2>1, <2>2, <2>3, <2>4, <2>5 DEF TypeOK
<1>3. RunningIsOwned'
  <2>1. CASE Recover
    BY <1>1, <2>1 DEF TypeOK, tableVars, workerVars, RunningIsOwned, Busy, Recovered, Recover
  <2>2. CASE DropCancelled
    BY <1>1, <2>2 DEF TypeOK, tableVars, workerVars, RunningIsOwned, Busy, First, Queued,
       DropCancelled
  <2>3. CASE ClaimWrite
    BY <1>1, <2>3 DEF TypeOK, tableVars, workerVars, RunningIsOwned, Busy, ClaimWrite
  <2>4. CASE Begin
    BY <1>1, <2>4 DEF TypeOK, tableVars, workerVars, RunningIsOwned, Busy, HasRecord, Begin
  <2>5. CASE SaveResult
    BY <1>1, <2>5 DEF TypeOK, tableVars, workerVars, RunningIsOwned, Busy, FirstResult,
       HasRecord, SaveResult
  <2>6. CASE SaveVersion
    BY <1>1, <2>6 DEF TypeOK, tableVars, workerVars, RunningIsOwned, Busy, HasRecord, SaveVersion
  <2>7. CASE CloseTraining
    BY <1>1, <2>7 DEF TypeOK, tableVars, workerVars, RunningIsOwned, Busy, HasRecord, CloseTraining
  <2>8. CASE Finish
    BY <1>1, <2>8 DEF TypeOK, tableVars, workerVars, RunningIsOwned, Busy, Idle, Finish
  <2>9. CASE StopJob
    BY <1>1, <2>9 DEF TypeOK, tableVars, workerVars, RunningIsOwned, Busy, Idle, Marked,
       HasRecord, StopJob
  <2>10. CASE FailJob
    BY <1>1, <2>10 DEF TypeOK, tableVars, workerVars, RunningIsOwned, Busy, Idle, Marked,
       HasRecord, FailJob
  <2>11. QED
    BY <2>1, <2>2, <2>3, <2>4, <2>5, <2>6, <2>7, <2>8, <2>9, <2>10
<1>4. OutcomeAgrees'
  <2>1. CASE Recover
    BY <1>1, <2>1 DEF TypeOK, tableVars, workerVars, OutcomeAgrees, WorkInv, Busy, Pending,
       HasRecord, Recovered, Recover
  <2>2. CASE DropCancelled
    BY <1>1, <2>2 DEF TypeOK, tableVars, workerVars, OutcomeAgrees, WorkInv, Busy, Pending,
       HasRecord, First, Queued, DropCancelled
  <2>3. CASE ClaimWrite
    BY <1>1, <2>3 DEF TypeOK, tableVars, workerVars, OutcomeAgrees, WorkInv, Busy, Pending,
       HasRecord, ClaimWrite
  <2>4. CASE Begin
    BY <1>1, <2>4 DEF TypeOK, tableVars, workerVars, OutcomeAgrees, WorkInv, Busy, Pending,
       HasRecord, Begin
  <2>5. CASE SaveResult
    BY <1>1, <2>5 DEF TypeOK, tableVars, workerVars, OutcomeAgrees, WorkInv, Busy, Pending,
       HasRecord, FirstResult, SaveResult
  <2>6. CASE SaveVersion
    BY <1>1, <2>6 DEF TypeOK, tableVars, workerVars, OutcomeAgrees, WorkInv, Busy, Pending,
       HasRecord, SaveVersion
  <2>7. CASE CloseTraining
    BY <1>1, <2>7 DEF TypeOK, tableVars, workerVars, OutcomeAgrees, WorkInv, Busy, Pending,
       HasRecord, CloseTraining
  <2>8. CASE Finish
    BY <1>1, <2>8 DEF TypeOK, tableVars, workerVars, OutcomeAgrees, WorkInv, Busy, Pending,
       HasRecord, Idle, Finish
  <2>9. CASE StopJob
    BY <1>1, <2>9 DEF TypeOK, tableVars, workerVars, OutcomeAgrees, WorkInv, Busy, Pending,
       HasRecord, Idle, Marked, StopJob
  <2>10. CASE FailJob
    BY <1>1, <2>10 DEF TypeOK, tableVars, workerVars, OutcomeAgrees, WorkInv, Busy, Pending,
       HasRecord, Idle, Marked, FailJob
  <2>11. QED
    BY <2>1, <2>2, <2>3, <2>4, <2>5, <2>6, <2>7, <2>8, <2>9, <2>10
<1>5. WorkInv'
  <2>1. CASE Recover
    BY <1>1, <2>1 DEF TypeOK, tableVars, workerVars, WorkInv, RunningIsOwned, Busy, HasRecord,
       Recovered, Recover
  <2>2. CASE DropCancelled
    BY <1>1, <2>2 DEF TypeOK, tableVars, workerVars, WorkInv, RunningIsOwned, Busy, HasRecord,
       First, Queued, DropCancelled
  <2>3. CASE ClaimWrite
    BY <1>1, <2>3 DEF TypeOK, tableVars, workerVars, WorkInv, RunningIsOwned, Busy, HasRecord,
       ClaimWrite
  <2>4. CASE Begin
    BY <1>1, <2>4 DEF TypeOK, tableVars, workerVars, WorkInv, RunningIsOwned, Busy, HasRecord, Begin
  <2>5. CASE SaveResult
    BY <1>1, <2>5 DEF TypeOK, tableVars, workerVars, WorkInv, RunningIsOwned, Busy, HasRecord,
       FirstResult, SaveResult
  <2>6. CASE SaveVersion
    BY <1>1, <2>6 DEF TypeOK, tableVars, workerVars, WorkInv, RunningIsOwned, Busy, HasRecord,
       SaveVersion
  <2>7. CASE CloseTraining
    BY <1>1, <2>7 DEF TypeOK, tableVars, workerVars, WorkInv, RunningIsOwned, Busy, HasRecord,
       CloseTraining
  <2>8. CASE Finish
    BY <1>1, <2>8 DEF TypeOK, tableVars, workerVars, WorkInv, RunningIsOwned, Busy, HasRecord,
       Idle, Finish
  <2>9. CASE StopJob
    BY <1>1, <2>9 DEF TypeOK, tableVars, workerVars, WorkInv, RunningIsOwned, Busy, HasRecord,
       Idle, Marked, StopJob
  <2>10. CASE FailJob
    BY <1>1, <2>10 DEF TypeOK, tableVars, workerVars, WorkInv, RunningIsOwned, Busy, HasRecord,
       Idle, Marked, FailJob
  <2>11. QED
    BY <2>1, <2>2, <2>3, <2>4, <2>5, <2>6, <2>7, <2>8, <2>9, <2>10
<1>6. AttemptInv'
  <2>1. CASE Recover
    BY <1>1, <2>1, BoundsAssumption DEF TypeOK, tableVars, workerVars, AttemptInv, WorkInv,
       RunningIsOwned, Made, Making, Busy, Pending, Recovered, Recover
  <2>2. CASE DropCancelled
    BY <1>1, <2>2, BoundsAssumption DEF TypeOK, tableVars, workerVars, AttemptInv, WorkInv,
       RunningIsOwned, Made, Making, Busy, Pending, First, Queued, DropCancelled
  <2>3. CASE ClaimWrite
    BY <1>1, <2>3, BoundsAssumption DEF TypeOK, tableVars, workerVars, AttemptInv, WorkInv,
       RunningIsOwned, Made, Making, Busy, Pending, ClaimWrite
  <2>4. CASE Begin
    BY <1>1, <2>4, BoundsAssumption DEF TypeOK, tableVars, workerVars, AttemptInv, WorkInv,
       RunningIsOwned, Made, Making, Busy, Pending, HasRecord, Begin
  <2>5. CASE SaveResult
    BY <1>1, <2>5, BoundsAssumption DEF TypeOK, tableVars, workerVars, AttemptInv, WorkInv,
       RunningIsOwned, Made, Making, Busy, Pending, FirstResult, HasRecord, SaveResult
  <2>6. CASE SaveVersion
    BY <1>1, <2>6, BoundsAssumption DEF TypeOK, tableVars, workerVars, AttemptInv, WorkInv,
       RunningIsOwned, Made, Making, Busy, Pending, HasRecord, SaveVersion
  <2>7. CASE CloseTraining
    BY <1>1, <2>7, BoundsAssumption DEF TypeOK, tableVars, workerVars, AttemptInv, WorkInv,
       RunningIsOwned, Made, Making, Busy, Pending, HasRecord, CloseTraining
  <2>8. CASE Finish
    BY <1>1, <2>8, BoundsAssumption DEF TypeOK, tableVars, workerVars, AttemptInv, WorkInv,
       RunningIsOwned, Made, Making, Busy, Pending, Idle, Finish
  <2>9. CASE StopJob
    BY <1>1, <2>9, BoundsAssumption DEF TypeOK, tableVars, workerVars, AttemptInv, WorkInv,
       RunningIsOwned, Made, Making, Busy, Pending, Idle, Marked, HasRecord, StopJob
  <2>10. CASE FailJob
    BY <1>1, <2>10, BoundsAssumption DEF TypeOK, tableVars, workerVars, AttemptInv, WorkInv,
       RunningIsOwned, Made, Making, Busy, Pending, Idle, Marked, HasRecord, FailJob
  <2>11. QED
    BY <2>1, <2>2, <2>3, <2>4, <2>5, <2>6, <2>7, <2>8, <2>9, <2>10
<1>7. QED
  BY <1>2, <1>3, <1>4, <1>5, <1>6

(* A row that is added is queued and has made nothing.                     *)
LEMMA EnqueueKeepsIInv ==
  ASSUME IInv, NEW k \in {"backtest", "train", "sync"}, Enqueue(k)
  PROVE  IInv'
<1> USE DEF IInv
<1>1. PICK n \in 0 .. MaxJobs :
        Jobs = 1 .. n /\ Cardinality(Jobs) = n /\ kind \in [1 .. n -> {"backtest", "train", "sync"}]
  BY JobsAreNumbered
<1>2. n + 1 \in 0 .. MaxJobs /\ n \in Nat
  BY <1>1, BoundsAssumption DEF Enqueue
<1>3. /\ kind' = [j \in 1 .. (n + 1) |-> IF j \in Jobs THEN kind[j] ELSE k]
      /\ status' = [j \in 1 .. (n + 1) |-> IF j \in Jobs THEN status[j] ELSE "queued"]
      /\ cancel' = [j \in 1 .. (n + 1) |-> IF j \in Jobs THEN cancel[j] ELSE FALSE]
      /\ related' = [j \in 1 .. (n + 1) |-> IF j \in Jobs THEN related[j]
                                            ELSE IF k = "sync" THEN "none" ELSE "queued"]
      /\ results' = [j \in 1 .. (n + 1) |-> IF j \in Jobs THEN results[j] ELSE 0]
      /\ UNCHANGED <<pc, job, request, crashes>>
  BY <1>1 DEF Enqueue, Extend, workerVars
<1>4. Jobs' = 1 .. (n + 1) /\ Jobs \subseteq Jobs' /\ NoJob \notin Jobs' /\ Jobs' = Jobs \cup {n + 1}
      /\ n + 1 \notin Jobs
  BY <1>1, <1>2, <1>3 DEF Jobs, NoJob
<1>5. TypeOK'
  <2>1. kind' \in [1 .. (n + 1) -> {"backtest", "train", "sync"}]
    BY <1>1, <1>3
  <2>2. /\ status' \in [Jobs' -> Pending \cup Terminal]
        /\ cancel' \in [Jobs' -> BOOLEAN]
        /\ related' \in [Jobs' -> {"none"} \cup Pending \cup Terminal]
    BY <1>3, <1>4 DEF TypeOK, Pending
  <2>3. /\ results' \in [Jobs' -> 0 .. MaxCrashes + 1]
        /\ \A j \in Jobs' : kind'[j] = "backtest" => results'[j] <= 1
    BY <1>3, <1>4, BoundsAssumption DEF TypeOK
  <2>4. QED
    BY <1>2, <1>3, <1>4, <2>1, <2>2, <2>3 DEF TypeOK
<1>6. job \in Jobs => job \in Jobs' /\ kind'[job] = kind[job] /\ status'[job] = status[job]
                      /\ related'[job] = related[job] /\ results'[job] = results[job]
  BY <1>3, <1>4
<1>7. RunningIsOwned'
  BY <1>3, <1>4 DEF RunningIsOwned
<1>8. OutcomeAgrees'
  BY <1>3, <1>4 DEF OutcomeAgrees, HasRecord, Pending
<1>9. WorkInv'
  BY <1>3, <1>6 DEF TypeOK, WorkInv, HasRecord, Busy
<1>10. AttemptInv'
  BY <1>3, <1>4, BoundsAssumption DEF TypeOK, AttemptInv, Made, Making, Busy, Pending, NoJob
<1>11. QED
  BY <1>5, <1>7, <1>8, <1>9, <1>10

LEMMA CancelKeepsIInv ==
  ASSUME IInv, (\E j \in Jobs : CancelRead(j)) \/ CancelWrite
  PROVE  IInv'
<1> USE DEF IInv
<1>1. Jobs' = Jobs /\ UNCHANGED <<kind, related, results, pc, job, crashes>>
  BY DEF Jobs, tableVars, workerVars, CancelRead, CancelWrite
<1>2. \/ status' = status
      \/ status' = [status EXCEPT ![request.job] = "cancelled"]
  BY DEF CancelRead, CancelWrite
<1>3. TypeOK'
  <2>1. cancel' \in [Jobs -> BOOLEAN] /\ request' \in [job : Jobs \cup {NoJob}, queued : BOOLEAN]
    <3>1. CASE \E j \in Jobs : CancelRead(j)
      BY <3>1 DEF TypeOK, tableVars, CancelRead
    <3>2. CASE CancelWrite
      BY <3>2 DEF TypeOK, NoRequest, CancelWrite
    <3>3. QED
      BY <3>1, <3>2
  <2>2. status' \in [Jobs -> Pending \cup Terminal]
    BY <1>2 DEF TypeOK, Terminal
  <2>3. QED
    BY <1>1, <2>1, <2>2 DEF TypeOK
<1>4. \A j \in Jobs : status'[j] = status[j] \/ status'[j] = "cancelled"
  BY <1>2 DEF TypeOK
<1>5. RunningIsOwned'
  BY <1>1, <1>4 DEF RunningIsOwned
<1>6. OutcomeAgrees'
  BY <1>1, <1>4 DEF OutcomeAgrees, HasRecord
<1>7. WorkInv'
  BY <1>1, <1>4 DEF TypeOK, WorkInv, HasRecord, Busy
<1>8. AttemptInv'
  BY <1>1, <1>4 DEF AttemptInv, Made, Making, Pending
<1>9. QED
  BY <1>3, <1>5, <1>6, <1>7, <1>8

LEMMA NextKeepsIInv == IInv /\ [Next]_vars => IInv'
<1> SUFFICES ASSUME IInv, [Next]_vars PROVE IInv'
  OBVIOUS
<1>1. CASE WorkerStep \/ Crash \/ Restart
  BY <1>1, MovesKeepIInv, WritesKeepIInv DEF WorkerStep
<1>2. CASE RequestStep
  BY <1>2, EnqueueKeepsIInv, CancelKeepsIInv, KindsAssumption DEF RequestStep, Create, PlanTraining
<1>3. CASE UNCHANGED vars
  <2>1. UNCHANGED <<kind, status, cancel, related, results, pc, job, request, crashes>>
    BY <1>3 DEF vars, tableVars, workerVars
  <2>2. QED
    BY <2>1 DEF IInv, TypeOK, RunningIsOwned, OutcomeAgrees, WorkInv, AttemptInv, Jobs, HasRecord, Made, Making
<1>4. QED
  BY <1>1, <1>2, <1>3 DEF Next

LEMMA Invariant == Spec => []IInv
BY InitIInv, NextKeepsIInv, PTL DEF Spec

(* Type correctness; that a session gets one result although its job can   *)
(* run again after a death (the unique column), and a training at most one *)
(* version for each life of the worker, are part of it.                    *)
THEOREM TypeCorrect == Spec => []TypeOK
<1>1. IInv => TypeOK
  BY DEF IInv
<1>2. QED
  BY Invariant, <1>1, PTL

(* A row says running only of the job the worker is at: recover puts back  *)
(* what a death left running before claim selects again.                   *)
THEOREM NoJobLeftRunning == Spec => []RunningIsOwned
<1>1. IInv => RunningIsOwned
  BY DEF IInv
<1>2. QED
  BY Invariant, <1>1, PTL

(* A job that is done has its result and a finished record, a job in error *)
(* has told its record so, whatever died or was cancelled on the way       *)
(* (services.JobRunner, worker.run_jobs, cancel_job).                      *)
THEOREM OutcomesAreTrue == Spec => []OutcomeAgrees
<1>1. IInv => OutcomeAgrees
  BY DEF IInv
<1>2. QED
  BY Invariant, <1>1, PTL
=============================================================================
