---------------------------- MODULE MCPaperEngine ----------------------------
(* Instances of PaperEngine for TLC. *)
EXTENDS PaperEngine, TLC

TickerSymmetry == Permutations(Tickers)
=============================================================================
