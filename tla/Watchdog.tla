------------------------------- MODULE Watchdog -------------------------------
(***************************************************************************)
(* The watchdog (watchdog.py) inside the notify worker (worker.run_notify):*)
(* it looks for silent workers and a full disk, adds notifications and     *)
(* remembers in SystemSetting "watchdog" what it has reported.  Composed   *)
(* with the outbox that delivers what it adds.                             *)
(***************************************************************************)
EXTENDS Outbox

CONSTANTS
  Silence,     \* SILENCE: seconds a worker may be silent, by worker
  Repeat,      \* REPEAT_SECONDS
  MaxTime,     \* bound: ticks of the clock
  MaxDisk      \* bound: times the disk fills or is cleared

Watched == DOMAIN Silence
ASSUME ProblemsAssumption == Problems = Watched \cup {"disk"}
ASSUME WatchBounds == Repeat \in Nat /\ MaxTime \in Nat /\ MaxDisk \in Nat

VARIABLES
  time,      \* time.time()
  beat,      \* ComponentHeartbeat.at
  full,      \* the disk is past DISK_LIMIT_PCT
  swings,    \* times the disk filled or was cleared
  seen,      \* SystemSetting "watchdog": time of the last report by problem
  alerted,   \* time of the last alert about a problem
  absent     \* the problem was gone at a check since then

watchVars == <<time, beat, full, swings, seen, alerted, absent>>
vars == <<outboxVars, watchVars>>

Never == -1

WatchTypeOK ==
  /\ time \in 0 .. MaxTime /\ swings \in 0 .. MaxDisk
  /\ beat \in [Watched -> 0 .. MaxTime] /\ full \in BOOLEAN
  /\ seen \in [Problems -> {Never} \cup 0 .. MaxTime]
  /\ alerted \in [Problems -> {Never} \cup 0 .. MaxTime]
  /\ absent \in [Problems -> BOOLEAN]

Init ==
  /\ OutboxInit
  /\ time = 0 /\ beat = [w \in Watched |-> 0]
  /\ full = FALSE /\ swings = 0
  /\ seen = [k \in Problems |-> Never]
  /\ alerted = [k \in Problems |-> Never]
  /\ absent = [k \in Problems |-> TRUE]

-----------------------------------------------------------------------------
(* find_problems.                                                          *)
Found ==
  {w \in Watched : time - beat[w] > Silence[w]} \cup {k \in {"disk"} : full}

(* What is reported now.  Slip: what was reported before waits for ever.   *)
DueOnce == {k \in Found : seen[k] = Never}
Due == {k \in Found : seen[k] = Never \/ time - seen[k] >= Repeat}

(* Of the problems in it, the new value of the setting keeps the earlier   *)
(* reports and takes the new ones.  Slip: it is the new ones only.         *)
OnlyNew == [k \in Problems |-> IF k \in Due THEN time ELSE Never]
Kept == [k \in Problems |->
          IF k \in Due THEN time ELSE IF k \in Found THEN seen[k] ELSE Never]

Recovered == {k \in Problems : seen[k] # Never /\ k \notin Found}

(* check: one transaction.                                                 *)
Check ==
  /\ at = "check"
  /\ rows' = rows \o (IF Due # {} THEN <<Row("system", FALSE, Due, time)>> ELSE <<>>)
                  \o (IF Recovered # {} THEN <<Row("system", FALSE, {}, time)>> ELSE <<>>)
  /\ seen' = Kept
  /\ alerted' = [k \in Problems |-> IF k \in Due THEN time ELSE alerted[k]]
  /\ absent' = [k \in Problems |-> (absent[k] /\ k \notin Due) \/ k \notin Found]
  /\ at' = "read"
  /\ UNCHANGED <<muted, batch, marks, told, skipped, posts, turns>>
  /\ UNCHANGED <<time, beat, full, swings>>

-----------------------------------------------------------------------------
Passes ==
  /\ time < MaxTime
  /\ time' = time + 1
  /\ UNCHANGED <<outboxVars, beat, full, swings, seen, alerted, absent>>

Beat(w) ==
  /\ beat[w] # time
  /\ beat' = [beat EXCEPT ![w] = time]
  /\ UNCHANGED <<outboxVars, time, full, swings, seen, alerted, absent>>

DiskSwings ==
  /\ swings < MaxDisk
  /\ swings' = swings + 1 /\ full' = ~full
  /\ UNCHANGED <<outboxVars, time, beat, seen, alerted, absent>>

Next ==
  \/ OutboxNext /\ UNCHANGED watchVars
  \/ Check \/ Passes \/ DiskSwings
  \/ \E w \in Watched : Beat(w)

(* run_notify loops for ever; Telegram does not fail every time.           *)
Fairness ==
  /\ WF_vars(Check)
  /\ WF_vars(Dispatch /\ UNCHANGED watchVars)
  /\ SF_vars(Send /\ marks' # marks /\ UNCHANGED watchVars)

Spec == Init /\ [][Next]_vars
FairSpec == Spec /\ Fairness

-----------------------------------------------------------------------------
(* What is marked was told or unwanted, in the order of the ids.           *)
DeliveryInv == OutboxTypeOK /\ WatchTypeOK /\ SentMeansTold /\ InOrder

(* "Sends new problems, repeats unresolved ones rarely" (watchdog.py:52):  *)
(* a problem that no check has found gone is not reported again within     *)
(* REPEAT_SECONDS, whatever else comes and goes meanwhile.                 *)
NotTooOften ==
  [][\A k \in Problems :
       Len(rows') > Len(rows) /\ (\E i \in DOMAIN rows' \ Ids : k \in rows'[i].about) =>
         absent[k] \/ alerted[k] = Never \/ time - alerted[k] >= Repeat]_vars

(* "Tells the owner when the unattended system stops doing its job"        *)
(* (watchdog.py:1): a problem that stays is reported, the report is sent,  *)
(* and a problem that is still there after REPEAT_SECONDS is sent again.   *)
ProblemTold ==
  \A k \in Problems :
    time = MaxTime /\ k \in Found ~>
      \/ k \notin Found
      \/ \E i \in Ids : /\ k \in rows[i].about
                        /\ rows[i].time > MaxTime - Repeat
                        /\ Settled(i)

(* Whatever dies or fails meanwhile, the worker always gets back to a      *)
(* moment when no message waits that it could deliver.                     *)
EverythingSettles == []<>(\A i \in Ids : Settled(i))
=============================================================================
