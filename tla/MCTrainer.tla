------------------------------ MODULE MCTrainer ------------------------------
(* The two halves of the trainer's loop, which share no row they both      *)
(* read and write, checked in one run: each behaviour moves the one chosen *)
(* by its first state.                                                     *)
EXTENDS Evaluation, Challengers

VARIABLE part

MCInit == part \in {"evaluation", "challengers"} /\ EvalInit /\ ChallengerInit
MCNext ==
  /\ UNCHANGED part
  /\ \/ part = "evaluation" /\ EvalNext /\ UNCHANGED challengerVars
     \/ part = "challengers" /\ ChallengerNext /\ UNCHANGED evalVars
MCSpec ==
  /\ MCInit /\ [][MCNext]_<<part, evalVars, challengerVars>>
  /\ part = "evaluation" => EvalFairness
=============================================================================
