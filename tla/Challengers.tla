------------------------------ MODULE Challengers ------------------------------
(***************************************************************************)
(* The virtual sessions that new models are tried in (quantlab/analysis.py *)
(* start_challengers, run_challengers, called by worker.run_trainer) with  *)
(* what the owner does to sessions meanwhile (paper/engine.py set_status), *)
(* for the models and sessions of one algorithm and timeframe.  What is to *)
(* be stopped is only in the memory of the trainer.                        *)
(***************************************************************************)
EXTENDS Integers, Sequences, FiniteSets, FiniteSetsExt

CONSTANTS
  ChallengersKept, \* CHALLENGERS_KEPT
  MaxModels,    \* bound: model versions
  MaxSessions,  \* bound: paper sessions
  MaxRestarts   \* bound: deaths of the trainer

ASSUME KeptAssumption == ChallengersKept \in Nat \ {0}
ASSUME ChallengerBounds == MaxModels \in Nat /\ MaxSessions \in Nat /\ MaxRestarts \in Nat

VARIABLES
  models,    \* ModelVersion rows
  upto,      \* SystemSetting "challengers": the last version considered
  sessions,  \* PaperSession rows of the strategy; model 0: an evaluation owns it
  toStop,    \* to_stop of the review under way
  whole,     \* nothing kept the last review from stopping all of it
  restarts   \* deaths of the trainer

challengerVars == <<models, upto, sessions, toStop, whole, restarts>>

Ids == DOMAIN sessions
ActiveOf(ss) == {i \in DOMAIN ss : ss[i].active}

ChallengerTypeOK ==
  /\ models \in 0 .. MaxModels /\ upto \in 0 .. models
  /\ \A i \in Ids : sessions[i].model \in 0 .. models /\ sessions[i].active \in BOOLEAN
  /\ Len(sessions) <= MaxSessions
  /\ toStop \subseteq Ids
  /\ whole \in BOOLEAN /\ restarts \in 0 .. MaxRestarts

ChallengerInit ==
  /\ models = 0 /\ upto = 0 /\ sessions = <<>>
  /\ toStop = {} /\ whole = TRUE /\ restarts = 0

-----------------------------------------------------------------------------
(* The worker commits a trained model.                                     *)
Train ==
  /\ models < MaxModels /\ models' = models + 1
  /\ UNCHANGED <<upto, sessions, toStop, whole, restarts>>

(* same[CHALLENGERS_KEPT:], newest first.  Slip: only the one that the new *)
(* session replaces.                                                       *)
Beyond(ss) == {i \in ActiveOf(ss) : Cardinality({j \in ActiveOf(ss) : j > i}) >= ChallengersKept}
OnlyOne(ss) == IF Beyond(ss) = {} THEN {} ELSE {Max(Beyond(ss))}
Surplus(ss) == Beyond(ss)

(* start_challengers: one transaction for the session of the best of the   *)
(* new models (none may do), the list and the mark.  Slip: the mark is     *)
(* not written.                                                            *)
Unmarked == upto
Mark == models

Begun(best) ==
  LET ss == IF best = 0 THEN sessions ELSE Append(sessions, [model |-> best, active |-> TRUE])
  IN /\ sessions' = ss
     /\ toStop' = IF best = 0 THEN {} ELSE Surplus(ss)
     /\ whole' = (whole \/ best # 0)

StartChallengers ==
  /\ toStop = {} /\ upto < models
  /\ \E best \in {0} \cup (upto + 1 .. models) :
       /\ best # 0 => Len(sessions) < MaxSessions
       /\ Begun(best)
  /\ upto' = Mark
  /\ UNCHANGED <<models, restarts>>

(* run_challengers, newest first: set_status refuses a session that is     *)
(* stopped already, and closing a position may fail; then the rest is not  *)
(* stopped (_guard).                                                       *)
StopNext ==
  /\ toStop # {}
  /\ LET i == Max(toStop) IN
     \/ /\ sessions[i].active
        /\ sessions' = [sessions EXCEPT ![i].active = FALSE]
        /\ toStop' = toStop \ {i} /\ UNCHANGED whole
     \/ toStop' = {} /\ whole' = FALSE /\ UNCHANGED sessions
  /\ UNCHANGED <<models, upto, restarts>>

-----------------------------------------------------------------------------
(* start_run inserts a session of the promoted model.                      *)
StartEvaluated ==
  /\ Len(sessions) < MaxSessions
  /\ sessions' = Append(sessions, [model |-> 0, active |-> TRUE])
  /\ whole' = FALSE
  /\ UNCHANGED <<models, upto, toStop, restarts>>

(* set_status "stop" and "reset" of the owner; a session of an evaluation  *)
(* is not reset.                                                           *)
OwnerStops(i) ==
  /\ sessions[i].active
  /\ sessions' = [sessions EXCEPT ![i].active = FALSE]
  /\ UNCHANGED <<models, upto, toStop, whole, restarts>>

OwnerResets(i) ==
  /\ sessions[i].model # 0 /\ ~sessions[i].active
  /\ sessions' = [sessions EXCEPT ![i].active = TRUE]
  /\ whole' = FALSE
  /\ UNCHANGED <<models, upto, toStop, restarts>>

TrainerRestarts ==
  /\ restarts < MaxRestarts /\ restarts' = restarts + 1
  /\ toStop' = {} /\ whole' = (whole /\ toStop = {})
  /\ UNCHANGED <<models, upto, sessions>>

ChallengerNext ==
  \/ Train \/ StartChallengers \/ StopNext \/ StartEvaluated \/ TrainerRestarts
  \/ \E i \in Ids : OwnerStops(i) \/ OwnerResets(i)

ChallengerSpec == ChallengerInit /\ [][ChallengerNext]_challengerVars

-----------------------------------------------------------------------------
(* A review that could stop all it listed leaves at most CHALLENGERS_KEPT  *)
(* sessions active, those that an earlier one had to leave behind          *)
(* included: its list is made from the table (start_challengers).          *)
Trimmed == whole /\ toStop = {} => Cardinality(ActiveOf(sessions)) <= ChallengersKept

(* No model is tried twice, though a review can be cut off anywhere.       *)
TriedOnce == \A i, j \in Ids : sessions[i].model = sessions[j].model /\ sessions[i].model # 0 => i = j

(* What a review stops is older than the session it has just begun, so the *)
(* newest model in trial is never lost to it (same[CHALLENGERS_KEPT:]).    *)
NewestStays == \A i \in toStop : \E j \in Ids : j > i /\ sessions[j].model # 0

(* What a review, however it was cut off, leaves behind.                   *)
ChallengerInv == ChallengerTypeOK /\ Trimmed /\ TriedOnce /\ NewestStays
=============================================================================
