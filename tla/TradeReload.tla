----------------------------- MODULE TradeReload ------------------------------
(***************************************************************************)
(* TradeOrders with an owner who reloads the trade from the exchange       *)
(* (_rpc_reload_trade_from_exchange).  The handler takes no _exit_lock:    *)
(* it asks for the orders and writes what it was told between any two      *)
(* steps of the thread that holds the lock.  That the answer is applied    *)
(* order by order, each with its own commit, is one step here.             *)
(***************************************************************************)
EXTENDS TradeOrders

VARIABLE reading    \* what fetch_orders answered the owner's thread

reloadVars == <<vars, reading>>

ReloadInit == Init /\ reading = <<>>

(* handle_onexchange_order up to its call of the exchange ...              *)
Fetch ==
  /\ reading = <<>> /\ db.life \in {"open", "closed"}
  /\ reading' = Seen(Since)
  /\ UNCHANGED vars

(* ... and after it, when the orders may have moved on.  If the trade was  *)
(* deleted meanwhile, the error ends there.                                *)
Apply ==
  /\ reading # <<>> /\ reading' = <<>>
  /\ IF db.life \in {"open", "closed"} THEN OnExchange(reading) ELSE UNCHANGED <<exch, db>>
  /\ UNCHANGED <<doing, lost, crashes>>

(* A reload that wrote the row of an order just sent, or deleted its       *)
(* trade, was first: the commit of the thread that sent it breaks the      *)
(* UniqueConstraint, or finds no trade, which nothing catches, and the bot *)
(* dies.                                                                   *)
Clash ==
  /\ doing.at = "sent" /\ (doing.id \in Recorded \/ db.life = "dropped")
  /\ doing' = [Idle EXCEPT !.at = "startup"]
  /\ reading' = <<>>
  /\ UNCHANGED <<exch, db, lost, crashes>>

ReloadNext ==
  \/ Next /\ reading' = IF crashes' = crashes THEN reading ELSE <<>>
  \/ Fetch \/ Apply \/ Clash
ReloadSpec == ReloadInit /\ [][ReloadNext]_reloadVars

-----------------------------------------------------------------------------
(* "When recalculating a trade, only coming out to 0 can force a close"    *)
(* (persistence/trade_model.py): a trade whose orders were read again is   *)
(* closed only if its orders sold what they bought.                        *)
OnlyZeroCloses == db.life = "closed" /\ lost = {} => Held = 0
=============================================================================
