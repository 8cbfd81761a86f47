------------------------------- MODULE JobQueue -------------------------------
(***************************************************************************)
(* The background job queue of quantlab: rows of the jobs table, the       *)
(* record each row works for (a backtest session, a training job), the one *)
(* worker that claims and runs them (services.JobRunner, worker.run_jobs), *)
(* and the requests that add and cancel them (api/app.py, ml/plan.py).     *)
(*                                                                         *)
(* One step is one database transaction.  The two transactions that read a *)
(* row and then write it while the other process may do the same (claim    *)
(* and cancel) are two steps each: under READ COMMITTED the later write    *)
(* wins.                                                                   *)
(***************************************************************************)
EXTENDS Integers, FiniteSets

CONSTANTS
  Kinds,      \* kinds of job the owner asks for
  MaxJobs,    \* bound: rows of the jobs table
  MaxCrashes  \* bound: deaths of the worker

ASSUME KindsAssumption == Kinds \subseteq {"backtest", "train", "sync"}
ASSUME BoundsAssumption == MaxJobs \in Nat /\ MaxCrashes \in Nat

VARIABLES
  kind,       \* Job.kind by job id, for the rows that exist
  status,     \* Job.status
  cancel,     \* Job.cancel_requested
  related,    \* status of the BacktestSession or TrainingJob of the job
  results,    \* number of BacktestResult or ModelVersion rows the job made
  pc,         \* where the worker is
  job,        \* the job it has claimed
  request,    \* the cancel request being served
  crashes     \* deaths so far

tableVars == <<kind, cancel>>
workerVars == <<pc, job>>
vars == <<kind, status, cancel, related, results, pc, job, request, crashes>>

Ids == 1 .. MaxJobs
NoJob == 0
Jobs == DOMAIN kind
Terminal == {"done", "error", "cancelled"}
Pending == {"queued", "running"}
HasRecord(j) == kind[j] # "sync"
NoRequest == [job |-> NoJob, queued |-> FALSE]

(* The worker has a job of its own from claim's commit to its last one. *)
Busy == {"start", "work", "save", "close", "finish", "stop", "fail"}

TypeOK ==
  /\ \E n \in 0 .. MaxJobs : kind \in [1 .. n -> {"backtest", "train", "sync"}]
  /\ status \in [Jobs -> Pending \cup Terminal]
  /\ cancel \in [Jobs -> BOOLEAN]
  /\ related \in [Jobs -> {"none"} \cup Pending \cup Terminal]
  /\ results \in [Jobs -> 0 .. MaxCrashes + 1]
  /\ \A j \in Jobs : kind[j] = "backtest" => results[j] <= 1
  /\ pc \in {"boot", "idle", "claim", "down"} \cup Busy
  /\ job \in Jobs \cup {NoJob}
  /\ pc \in Busy \cup {"claim"} <=> job # NoJob
  /\ request \in [job : Jobs \cup {NoJob}, queued : BOOLEAN]
  /\ crashes \in 0 .. MaxCrashes

Init ==
  /\ kind = << >> /\ status = << >> /\ cancel = << >> /\ related = << >> /\ results = << >>
  /\ pc = "boot" /\ job = NoJob
  /\ request = NoRequest
  /\ crashes = 0

-----------------------------------------------------------------------------
(* The worker. *)

(* recover: the first transaction of run_jobs.  Slip: it is not called. *)
LeavesRunning == status
Recovered == [j \in Jobs |-> IF status[j] = "running" THEN "queued" ELSE status[j]]

Recover ==
  /\ pc = "boot"
  /\ status' = Recovered
  /\ pc' = "idle"
  /\ UNCHANGED <<tableVars, related, results, job, request, crashes>>

(* What claim selects. *)
Queued == {j \in Jobs : status[j] = "queued"}
First(j) == j \in Queued /\ \A i \in Queued : j <= i

(* claim finds a job whose cancellation was asked for. *)
DropCancelled ==
  /\ pc = "idle"
  /\ \E j \in Jobs : First(j) /\ cancel[j] /\ status' = [status EXCEPT ![j] = "cancelled"]
  /\ UNCHANGED <<tableVars, related, results, workerVars, request, crashes>>

ClaimRead ==
  /\ pc = "idle"
  /\ \E j \in Jobs : First(j) /\ ~cancel[j] /\ job' = j
  /\ pc' = "claim"
  /\ UNCHANGED <<tableVars, status, related, results, request, crashes>>

ClaimWrite ==
  /\ pc = "claim"
  /\ status' = [status EXCEPT ![job] = "running"]
  /\ pc' = "start"
  /\ UNCHANGED <<tableVars, related, results, job, request, crashes>>

(* The first transaction of _do_backtest and _do_train. *)
Begin ==
  /\ pc = "start"
  /\ related' = IF HasRecord(job) THEN [related EXCEPT ![job] = "running"] ELSE related
  /\ pc' = "work"
  /\ UNCHANGED <<tableVars, status, results, job, request, crashes>>

(* The last look of _progress at cancel_requested; _do_sync never looks.   *)
Work ==
  /\ pc = "work" /\ (HasRecord(job) => ~cancel[job])
  /\ pc' = "save"
  /\ UNCHANGED <<tableVars, status, related, results, job, request, crashes>>

WorkCancelled ==
  /\ pc = "work" /\ HasRecord(job) /\ cancel[job]
  /\ pc' = "stop"
  /\ UNCHANGED <<tableVars, status, related, results, job, request, crashes>>

WorkFails ==
  /\ pc = "work"
  /\ pc' = "fail"
  /\ UNCHANGED <<tableVars, status, related, results, job, request, crashes>>

(* BacktestResult.session_id is unique.  Slip: it is not. *)
AnyResult == TRUE
FirstResult == results[job] = 0

(* The last transaction of _do_backtest: one result for a session, or the  *)
(* unique column raises and the whole transaction is undone.               *)
SaveResult ==
  /\ pc = "save" /\ kind[job] = "backtest"
  /\ IF FirstResult
     THEN /\ results' = [results EXCEPT ![job] = @ + 1]
          /\ related' = [related EXCEPT ![job] = "done"]
          /\ pc' = "finish"
     ELSE pc' = "fail" /\ UNCHANGED <<results, related>>
  /\ UNCHANGED <<tableVars, status, job, request, crashes>>

(* train_version commits the model version, _do_train its training job. *)
SaveVersion ==
  /\ pc = "save" /\ kind[job] = "train"
  /\ results' = [results EXCEPT ![job] = @ + 1]
  /\ pc' = "close"
  /\ UNCHANGED <<tableVars, status, related, job, request, crashes>>

CloseTraining ==
  /\ pc = "close"
  /\ related' = [related EXCEPT ![job] = "done"]
  /\ pc' = "finish"
  /\ UNCHANGED <<tableVars, status, results, job, request, crashes>>

SaveNothing ==
  /\ pc = "save" /\ ~HasRecord(job)
  /\ pc' = "finish"
  /\ UNCHANGED <<tableVars, status, related, results, job, request, crashes>>

Idle == pc' = "idle" /\ job' = NoJob

(* The status of a job whose work returned.  Slip: done before the work.   *)
DoneAtOnce ==
  /\ pc \in {"work", "finish"}
  /\ status' = [status EXCEPT ![job] = "done"]
  /\ Idle
  /\ UNCHANGED <<tableVars, related, results, request, crashes>>
Finish ==
  /\ pc = "finish"
  /\ status' = [status EXCEPT ![job] = "done"]
  /\ Idle
  /\ UNCHANGED <<tableVars, related, results, request, crashes>>

(* The transaction of the except clauses, _mark_related included.          *)
(* Slip: the record is forgotten.                                          *)
Unmarked(end) == related
Marked(end) == IF HasRecord(job) THEN [related EXCEPT ![job] = end] ELSE related

StopJob ==
  /\ pc = "stop"
  /\ status' = [status EXCEPT ![job] = "cancelled"]
  /\ related' = Marked("cancelled")
  /\ Idle
  /\ UNCHANGED <<tableVars, results, request, crashes>>

FailJob ==
  /\ pc = "fail"
  /\ status' = [status EXCEPT ![job] = "error"]
  /\ related' = Marked("error")
  /\ Idle
  /\ UNCHANGED <<tableVars, results, request, crashes>>

(* The worker dies between two transactions; compose starts it again. *)
Crash ==
  /\ pc # "down" /\ crashes < MaxCrashes
  /\ crashes' = crashes + 1
  /\ pc' = "down" /\ job' = NoJob
  /\ UNCHANGED <<tableVars, status, related, results, request>>

Restart ==
  /\ pc = "down"
  /\ pc' = "boot"
  /\ UNCHANGED <<tableVars, status, related, results, job, request, crashes>>

-----------------------------------------------------------------------------
(* The requests. *)

Extend(f, v) == [j \in 1 .. (Cardinality(Jobs) + 1) |-> IF j \in Jobs THEN f[j] ELSE v]

(* enqueue, in one transaction with the record the job is for. *)
Enqueue(k) ==
  /\ Cardinality(Jobs) < MaxJobs
  /\ kind' = Extend(kind, k)
  /\ status' = Extend(status, "queued")
  /\ cancel' = Extend(cancel, FALSE)
  /\ related' = Extend(related, IF k = "sync" THEN "none" ELSE "queued")
  /\ results' = Extend(results, 0)
  /\ UNCHANGED <<workerVars, request, crashes>>

(* create_backtest, train, sync. *)
Create(k) == Enqueue(k)

(* The training jobs that are not finished, as the trainer counts them. *)
PendingTraining == {j \in Jobs : kind[j] = "train" /\ related[j] \in Pending}

(* enqueue_training for one algorithm, pair and timeframe: missing work    *)
(* only.                                                                   *)
PlanTraining ==
  /\ "train" \in Kinds
  /\ PendingTraining = {}
  /\ Enqueue("train")

(* cancel_job: the row is read, then cancel_requested and perhaps the      *)
(* status are written.                                                     *)
CancelRead(j) ==
  /\ request = NoRequest
  /\ request' = [job |-> j, queued |-> status[j] = "queued"]
  /\ UNCHANGED <<tableVars, status, related, results, workerVars, crashes>>

CancelWrite ==
  /\ request # NoRequest
  /\ cancel' = [cancel EXCEPT ![request.job] = TRUE]
  /\ status' = IF request.queued THEN [status EXCEPT ![request.job] = "cancelled"] ELSE status
  /\ request' = NoRequest
  /\ UNCHANGED <<kind, related, results, workerVars, crashes>>

-----------------------------------------------------------------------------
WorkerStep ==
  \/ Recover \/ DropCancelled \/ ClaimRead \/ ClaimWrite
  \/ Begin \/ Work \/ WorkCancelled \/ WorkFails
  \/ SaveResult \/ SaveVersion \/ CloseTraining \/ SaveNothing
  \/ Finish \/ StopJob \/ FailJob

RequestStep ==
  \/ (\E k \in Kinds : Create(k)) \/ PlanTraining
  \/ (\E j \in Jobs : CancelRead(j)) \/ CancelWrite

Next == WorkerStep \/ Crash \/ Restart \/ RequestStep

Spec == Init /\ [][Next]_vars

(* The worker loop goes on and compose restarts it; a request that was     *)
(* taken is served.  Nothing is assumed of the owner.                      *)
Fairness == WF_vars(WorkerStep) /\ WF_vars(Restart) /\ WF_vars(CancelWrite)
FairSpec == Spec /\ Fairness

-----------------------------------------------------------------------------
(* What a job row says of its outcome is true of the record behind it: a   *)
(* job that is done has its result, a job that failed has told its session *)
(* so, through crashes, second runs and cancellations that come late.  The *)
(* record is at work only while its job can still run or was cancelled.    *)
OutcomeAgrees ==
  \A j \in Jobs : HasRecord(j) =>
    /\ status[j] = "done" => related[j] = "done" /\ results[j] > 0
    /\ status[j] = "error" => related[j] = "error"
    /\ related[j] \in Pending => status[j] \in Pending \cup {"cancelled"}

(* A row says running only of the job the worker is really at, once it is  *)
(* up again: no job is left behind by a crash, no two run.                 *)
RunningIsOwned ==
  pc \notin {"down", "boot"} => \A j \in Jobs : status[j] = "running" => j = job /\ pc \in Busy

(* Every job that was queued ends, whatever was cancelled and however the  *)
(* worker died: recover puts it back and claim takes the oldest first.     *)
JobsEnd == \A j \in Ids : (j \in Jobs) ~> (j \in Jobs /\ status[j] \in Terminal)
=============================================================================
