------------------------------ MODULE MCJobQueue ------------------------------
(* Instances of JobQueue for TLC. *)
EXTENDS JobQueue

EveryKind == {"backtest", "train", "sync"}
=============================================================================
