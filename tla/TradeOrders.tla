----------------------------- MODULE TradeOrders -----------------------------
(***************************************************************************)
(* One trade of the freqtrade bot (freqtrade/freqtradebot.py with          *)
(* persistence/trade_model.py) from its entry to its end, spot and long:   *)
(* the main loop and the RPC handlers that share _exit_lock with it, the   *)
(* database rows of the trade and its orders, and the exchange, which      *)
(* fills and cancels orders between any two of its answers.  A step is     *)
(* what a handler does around one call of the exchange; the bot can die    *)
(* between an order being placed and its row being committed.  The one     *)
(* handler that does not take the lock is in TradeReload.  Position        *)
(* adjustment is off; the exchange keeps every order it accepted and can   *)
(* be asked for it; a handler whose call fails for the network ends there  *)
(* and is a step not taken.                                                *)
(***************************************************************************)
EXTENDS Integers, Sequences, FiniteSets, FiniteSetsExt, Functions

CONSTANTS
  Size,              \* units of the base currency a new trade buys
  StopOnExchange,    \* order_types["stoploss_on_exchange"]
  ExitTimeouts,      \* unfilledtimeout.exit_timeout_count
  MaxOrders,         \* bound: orders at the exchange
  MaxCrashes         \* bound: deaths of the bot

ASSUME SizeAssumption == Size \in Nat \ {0}
(* One unit is never within the 2 % of what a trade holds in which the     *)
(* wallet's amount is taken for the trade's (dust).                        *)
ASSUME DustAssumption == Size <= 50
ASSUME BoundsAssumption == MaxOrders \in Nat /\ MaxCrashes \in Nat

VARIABLES
  exch,     \* the exchange's orders, by id
  db,       \* Trade (life, amount) and the view of each Order row (book)
  doing,    \* where the thread that holds _exit_lock is
  lost,     \* orders whose row was not committed when they were placed
  crashes   \* deaths so far

vars == <<exch, db, doing, lost, crashes>>

Sides == {"entry", "exit", "stop"}
Views == [status : {"open", "closed", "canceled"}, filled : 0 .. Size]
View(i) == [status |-> exch[i].status, filled |-> exch[i].filled]

Unsent == [status |-> "open", filled |-> 0]
Idle == [at |-> "idle", id |-> 0, amount |-> 0, answer |-> Unsent]
Recorded == DOMAIN db.book
OpenRows(side) == {i \in Recorded : db.book[i].status = "open" /\ exch[i].side \in side}
EntriesOnly == OpenRows({"entry"})           \* slip: open exits are not seen
OpenOrders == OpenRows({"entry", "exit"})    \* Trade.open_orders
OpenStops == OpenRows({"stop"})              \* Trade.open_sl_orders

TypeOK ==
  /\ \A i \in DOMAIN exch :
       /\ exch[i].side \in Sides /\ exch[i].amount \in 1 .. Size
       /\ View(i) \in Views /\ exch[i].filled <= exch[i].amount
       /\ exch[i].status = "closed" <=> exch[i].filled = exch[i].amount
  /\ db.life \in {"none", "open", "closed", "dropped", "unreplaced", "deleted"}
  /\ db.amount \in 0 .. Size
  /\ Recorded \cup lost \subseteq DOMAIN exch
  /\ \A i \in Recorded : db.book[i] \in Views
  /\ doing.at \in {"idle", "startup", "empty", "again", "trail", "urgent", "limit", "place", "market", "sent"}
  /\ doing.id \in 0 .. Len(exch) /\ doing.amount \in 0 .. Size
  /\ crashes \in 0 .. MaxCrashes

Init ==
  /\ exch = <<>>
  /\ db = [life |-> "none", amount |-> 0, book |-> <<>>]
  /\ doing = Idle
  /\ lost = {} /\ crashes = 0

-----------------------------------------------------------------------------
(* The exchange.                                                           *)

Filled(rows) == [i \in DOMAIN rows |-> rows[i].filled]
Total(S) == SumFunctionOnSet(Filled(exch), S)
On(side) == {i \in DOMAIN exch : exch[i].side \in side}
Held == Total(On({"entry"})) - Total(On({"exit", "stop"}))
Left(i) == exch[i].amount - exch[i].filled
OpenAt(side) == {i \in On(side) : exch[i].status = "open"}
Free == Held - SumFunctionOnSet([i \in DOMAIN exch |-> Left(i)], OpenAt({"exit", "stop"}))

Room == Len(exch) < MaxOrders - 1    \* one order is left for a last exit

Fill(i) ==
  /\ exch[i].status = "open"
  /\ \E n \in 1 .. Left(i) :
       exch' = [exch EXCEPT ![i].filled = @ + n,
                            ![i].status = IF n = Left(i) THEN "closed" ELSE "open"]
  /\ UNCHANGED <<db, doing, lost, crashes>>

(* The exchange or its owner cancels.                                      *)
Withdraw(i) ==
  /\ exch[i].status = "open" /\ Room
  /\ exch' = [exch EXCEPT ![i].status = "canceled"]
  /\ UNCHANGED <<db, doing, lost, crashes>>

(* What create_order can answer: the order rests, is filled, or what could *)
(* not be filled at once is canceled.                                      *)
Answers(side, a, market) ==
  IF market THEN {[status |-> "closed", filled |-> a]}
  ELSE {[status |-> "open", filled |-> 0]}
       \cup (IF side = "stop" THEN {} ELSE {[status |-> "closed", filled |-> a]})
       \cup (IF side = "entry" THEN [status : {"canceled"}, filled : 1 .. a - 1] ELSE {})

Create(side, a, market) ==
  /\ Len(exch) < MaxOrders
  /\ \E v \in Answers(side, a, market) :
       /\ exch' = Append(exch, [side |-> side, amount |-> a, status |-> v.status, filled |-> v.filled])
       /\ doing' = [at |-> "sent", id |-> Len(exch) + 1, amount |-> 0, answer |-> v]
  /\ lost' = lost \cup {Len(exch) + 1}

-----------------------------------------------------------------------------
(* What an answer about an order does to the rows (update_trade_state).    *)

(* recalc_trade_from_orders: orders that are no longer open count.  An     *)
(* amount that does not come out positive is not written.  Slip: only      *)
(* orders that filled completely count.                                    *)
NetOf(book, ended) ==
  LET done(sides) == {i \in DOMAIN book : book[i].status \in ended /\ exch[i].side \in sides}
      sum(S) == SumFunctionOnSet(Filled(book), S)
  IN sum(done({"entry"})) - sum(done({"exit", "stop"}))
NetOfClosed(book) == NetOf(book, {"closed"})
Net(book) == NetOf(book, {"closed", "canceled"})
Recalculated(d, book) == IF Net(book) > 0 THEN Net(book) ELSE d.amount

(* update_trade: an exit that sold what the trade holds closes it.  Slip:  *)
(* every executed exit does.                                               *)
ClosesAlways(d, v, again) == TRUE
Closes(d, v, again) == v.filled = d.amount \/ (~again /\ v.filled > d.amount)

Updated(d, i, v, again) ==
  LET book == [j \in DOMAIN d.book \cup {i} |-> IF j = i THEN v ELSE d.book[j]]
      kept == [d EXCEPT !.book = book]
  IN IF v.status = "open" \/ v.filled = 0 THEN kept
     ELSE IF exch[i].side = "entry"
     THEN [kept EXCEPT !.amount = Recalculated([d EXCEPT !.amount = v.filled], book)]
     ELSE IF Closes(d, v, again) THEN [kept EXCEPT !.life = "closed"]
     ELSE [kept EXCEPT !.amount = Recalculated(d, book)]

(* The same for what was answered of several orders, in their order.       *)
AllUpdated(d, said, again) ==
  LET upTo[n \in 0 .. Len(exch)] ==
        IF n = 0 THEN d
        ELSE IF n \in DOMAIN said THEN Updated(upTo[n - 1], n, said[n], again) ELSE upTo[n - 1]
  IN upTo[Len(exch)]
Seen(S) == [i \in S |-> View(i)]

Entered == {i \in Recorded : exch[i].side = "entry" /\ db.book[i].status # "open"
                             /\ db.book[i].filled > 0}    \* nr_of_successful_entries
Dropped == [db EXCEPT !.life = "dropped", !.book = <<>>]  \* Trade.delete
Unreplaced == [Dropped EXCEPT !.life = "unreplaced"]      \* the same, by replace_order_failed

-----------------------------------------------------------------------------
(* manage_open_orders and handle_stoploss_on_exchange ask for an order.    *)
(* One that was canceled unfilled is committed as such before it is        *)
(* handled.  Slip: stops are not asked for.                                *)
Asked(i, rows) ==
  /\ doing = Idle /\ db.life = "open" /\ i \in rows /\ View(i) # db.book[i]
  /\ db' = Updated(db, i, View(i), FALSE)
  /\ doing' = IF /\ exch[i].side = "entry"
                 /\ View(i) = [status |-> "canceled", filled |-> 0]
              THEN [Idle EXCEPT !.at = "empty", !.id = i] ELSE Idle
  /\ UNCHANGED <<exch, lost, crashes>>
PollNoStops(i) == Asked(i, OpenOrders)
Poll(i) == Asked(i, OpenOrders \cup OpenStops)

(* handle_cancel_enter of an order that was canceled without a fill.       *)
(* Slip: the trade stays.                                                  *)
NeverDrop(i) == FALSE
DropsTrade(i) == OpenOrders \ {i} = {} /\ Entered = {}

HandleEmpty ==
  /\ doing.at = "empty"
  /\ db' = IF DropsTrade(doing.id) THEN Dropped ELSE db
  /\ doing' = Idle
  /\ UNCHANGED <<exch, lost, crashes>>

(* cancel_order_with_result: the order is canceled, or its end is read, or *)
(* it is still open in the answer.                                         *)
CancelAt(i, done) ==
  exch' = IF exch[i].status = "open" /\ done THEN [exch EXCEPT ![i].status = "canceled"] ELSE exch

(* What the answer says.                                                   *)
Answer(i, done) ==
  IF exch[i].status = "open" /\ done THEN [status |-> "canceled", filled |-> exch[i].filled]
  ELSE View(i)

(* Slip: what was bought before the cancellation is not looked at.         *)
DropsFilled(i, v, replacing) ==
  IF v.status = "open" THEN db
  ELSE IF DropsTrade(i) /\ ~replacing THEN Dropped ELSE Updated(db, i, v, FALSE)
EntryCanceled(i, v, replacing) ==
  IF v.status = "open" THEN db
  ELSE IF v.filled = 0 /\ DropsTrade(i) /\ ~replacing THEN Dropped ELSE Updated(db, i, v, FALSE)

CanceledExits(book) == {i \in DOMAIN book : exch[i].side = "exit" /\ book[i].status = "canceled"}

(* handle_cancel_order of an exit, and how much of it is then left to sell.*)
ExitCanceled(i, done) == CancelAt(i, done) /\ db' = Updated(db, i, Answer(i, done), FALSE)
Remaining(i, done) == exch[i].amount - Answer(i, done).filled

(* handle_cancel_order for the timeout of manage_open_orders and for       *)
(* _rpc_cancel_open_order (and the first half of a forced exit): an exit   *)
(* that was canceled often enough is followed by one at the market.        *)
Cancel(i, done) ==
  /\ doing = Idle /\ db.life = "open" /\ i \in OpenOrders /\ Room
  /\ IF exch[i].side = "entry"
     THEN CancelAt(i, done) /\ db' = EntryCanceled(i, Answer(i, done), FALSE) /\ doing' = Idle
     ELSE /\ ExitCanceled(i, done)
          /\ doing' = IF ExitTimeouts > 0 /\ Cardinality(CanceledExits(db'.book)) >= ExitTimeouts
                      THEN [Idle EXCEPT !.at = "urgent", !.amount = Remaining(i, done)]
                      ELSE Idle
  /\ UNCHANGED <<lost, crashes>>

(* replace_order of an exit whose strategy adjusts its price: what is left *)
(* of it is sold by another limit order, and when nothing is, the whole    *)
(* trade.  A trade with an exit has bought, so replace_order_failed would  *)
(* leave it alone.                                                         *)
ReplaceExit(i, done) ==
  /\ doing = Idle /\ db.life = "open" /\ i \in OpenRows({"exit"}) /\ Room
  /\ ExitCanceled(i, done)
  /\ doing' = [Idle EXCEPT !.at = "limit", !.amount = Remaining(i, done)]
  /\ UNCHANGED <<lost, crashes>>

-----------------------------------------------------------------------------
(* execute_trade_exit.                                                     *)

(* cancel_stoploss_on_exchange: the stops in S are canceled, as far as     *)
(* they have sold nothing yet; the others are still open in the answer.    *)
(* One that is not open at the exchange any more cannot be canceled, its   *)
(* row stays, and the handler goes on.                                     *)
LiveStops == {i \in OpenStops : exch[i].status = "open"}
StopAnswers(S) == [i \in LiveStops |-> Answer(i, i \in S)]
StopsCanceled(S) ==
  /\ exch' = [i \in DOMAIN exch |-> IF i \in S THEN [exch[i] EXCEPT !.status = "canceled"] ELSE exch[i]]
  /\ db' = AllUpdated(db, StopAnswers(S), FALSE)

(* The stops go, then the wallet must hold the amount.  No amount stands   *)
(* for the whole trade.                                                    *)
Exit(S, sub, at) ==
  /\ Len(exch) < MaxOrders
  /\ StopsCanceled(S)
  /\ LET a == IF sub = 0 THEN db'.amount ELSE sub
     IN doing' = IF Held >= a THEN [Idle EXCEPT !.at = at, !.amount = a] ELSE Idle
  /\ UNCHANGED <<lost, crashes>>

(* handle_trade, and a forced exit of a whole trade.                       *)
ExitSignal(S) == doing = Idle /\ db.life = "open" /\ db.amount > 0 /\ Exit(S, 0, "place")

(* _rpc_force_exit of a part, its orders canceled.                         *)
ForcePart(S) ==
  /\ doing = Idle /\ db.life = "open" /\ OpenOrders = {} /\ Room
  /\ \E a \in 1 .. db.amount - 1 : Exit(S, a, "place")

(* The exit that follows a canceled one (emergency_exit,                   *)
(* handle_replace_order).                                                  *)
NextExit(S) ==
  \/ doing.at = "urgent" /\ Exit(S, doing.amount, "market")
  \/ doing.at = "limit" /\ Exit(S, doing.amount, "place")

(* handle_similar_open_order: an order of the same price and amount stays, *)
(* any other is canceled first, and if that fails there is no exit.        *)
Similar(i, done) ==
  /\ doing.at \in {"place", "market"} /\ i \in OpenOrders
  /\ \/ UNCHANGED <<exch, db>> /\ doing' = Idle
     \/ /\ CancelAt(i, done)
        /\ db' = IF exch[i].side = "entry" THEN EntryCanceled(i, Answer(i, done), TRUE)
                 ELSE Updated(db, i, Answer(i, done), FALSE)
        /\ doing' = IF \E j \in DOMAIN db'.book : exch[j].side # "stop" /\ db'.book[j].status = "open"
                    THEN Idle ELSE doing
  /\ UNCHANGED <<lost, crashes>>

(* An order is for what is free.  If too little is, the rows of the stops  *)
(* are brought up to date (handle_insufficient_funds).                     *)
Refused ==
  /\ db' = AllUpdated(db, Seen(OpenStops), FALSE)
  /\ doing' = Idle
  /\ UNCHANGED <<exch, lost>>

PlaceExit ==
  /\ doing.at \in {"place", "market"} /\ OpenOrders = {}
  /\ IF Free >= doing.amount
     THEN Create("exit", doing.amount, doing.at = "market") /\ UNCHANGED db
     ELSE Refused
  /\ UNCHANGED crashes

-----------------------------------------------------------------------------
(* create_trade with execute_entry, for a pair without an open trade.      *)
Enter ==
  /\ doing = Idle /\ db.life = "none" /\ Room
  /\ Create("entry", Size, FALSE)
  /\ UNCHANGED <<db, crashes>>

(* create_stoploss_order, when the trade has no stop and no open order, or *)
(* right after trailing has canceled the last one, whatever that one does. *)
(* A stop the exchange calls invalid ends the trade.                       *)
StopDue ==
  \/ doing = Idle /\ db.life = "open" /\ db.amount > 0 /\ OpenOrders = {} /\ OpenStops = {}
  \/ doing.at = "trail"
PlaceStop ==
  /\ StopOnExchange /\ StopDue /\ Room
  /\ \/ Free >= db.amount /\ Create("stop", db.amount, FALSE) /\ UNCHANGED db
     \/ Free < db.amount /\ Refused
     \/ doing' = [Idle EXCEPT !.at = "urgent"] /\ UNCHANGED <<exch, db, lost>>
  /\ UNCHANGED crashes

(* handle_trailing_stoploss_on_exchange: the next stop follows.            *)
TrailStop(S) ==
  /\ doing = Idle /\ db.life = "open" /\ LiveStops # {} /\ Room
  /\ StopsCanceled(S)
  /\ doing' = IF db'.life = "open" THEN [Idle EXCEPT !.at = "trail"] ELSE Idle
  /\ UNCHANGED <<lost, crashes>>

(* replace_order of an entry whose strategy adjusts its price: only if the *)
(* order was canceled without a fill is there a new one.  If that fails,   *)
(* or the cancellation does, a trade that has bought nothing goes          *)
(* (replace_order_failed), whatever its order does.                        *)
Replace(i, done) ==
  /\ doing = Idle /\ db.life = "open" /\ i \in OpenRows({"entry"}) /\ Room
  /\ exch[i].status = "open"
  /\ CancelAt(i, done)
  /\ LET v == Answer(i, done)
         kept == EntryCanceled(i, v, TRUE)
         empty == v = [status |-> "canceled", filled |-> 0]
     IN /\ db' = IF v.status = "open" /\ Entered = {} THEN Unreplaced ELSE kept
        /\ doing' = IF empty THEN [Idle EXCEPT !.at = "again", !.amount = exch[i].amount] ELSE Idle
  /\ UNCHANGED <<lost, crashes>>

ReplaceWith ==
  /\ doing.at = "again"
  /\ \/ Create("entry", doing.amount, FALSE) /\ UNCHANGED db
     \/ db' = Unreplaced /\ doing' = Idle /\ UNCHANGED <<exch, lost>>
  /\ UNCHANGED crashes

(* The row of a new order is committed with what the answer said; it needs *)
(* its trade and must be the only one of this order (UniqueConstraint).    *)
Record ==
  /\ doing.at = "sent" /\ doing.id \notin Recorded /\ db.life # "dropped"
  /\ db' = Updated([db EXCEPT !.life = IF @ = "none" THEN "open" ELSE @],
                   doing.id, doing.answer, FALSE)
  /\ lost' = lost \ {doing.id}
  /\ doing' = Idle
  /\ UNCHANGED <<exch, crashes>>

-----------------------------------------------------------------------------
(* handle_onexchange_order: all orders of the pair since the trade began   *)
(* are read again; unknown ones get a row, by their side only, so that a   *)
(* stop becomes a plain exit.  Then, if the wallet has too little, a trade *)
(* of which every entry was canceled unfilled is deleted; if the amount    *)
(* changed, the stops are canceled.                                        *)
Since == {i \in DOMAIN exch : i >= Min(Recorded)}
NothingBought(d) ==
  /\ Held < d.amount \/ (Held = 0 /\ d.amount = 0)
  /\ \A i \in DOMAIN d.book : exch[i].side = "entry" /\ d.book[i] = [status |-> "canceled", filled |-> 0]
Reread(read, said) ==
  LET stops == IF read.life = "open" /\ read.amount = db.amount THEN {} ELSE LiveStops
  IN \E S \in SUBSET stops :
       /\ exch' = [i \in DOMAIN exch |->
                   CASE i \in S -> [exch[i] EXCEPT !.status = "canceled"]
                     [] i \in DOMAIN said \ Recorded /\ exch[i].side = "stop" -> [exch[i] EXCEPT !.side = "exit"]
                     [] OTHER -> exch[i]]
       /\ db' = AllUpdated(read, [i \in stops |-> Answer(i, i \in S)], FALSE)
OnExchange(said) ==
  \E read \in {AllUpdated(db, said, TRUE)} :
    IF read.life = "open" /\ NothingBought(read)
    THEN db' = [read EXCEPT !.life = "dropped", !.book = <<>>] /\ UNCHANGED exch
    ELSE Reread(read, said)

(* exit_positions: the wallet has too little for the exit.                 *)
Recover ==
  /\ doing = Idle /\ db.life = "open" /\ db.amount > 0
  /\ OpenOrders = {} /\ OpenStops = {} /\ Held < db.amount
  /\ OnExchange(Seen(Since))
  /\ UNCHANGED <<doing, lost, crashes>>

(* _rpc_delete: cancellations may fail, the rows go.                       *)
Delete ==
  /\ doing = Idle /\ db.life = "open"
  /\ \E S \in SUBSET (OpenOrders \cup OpenStops) :
       exch' = [i \in DOMAIN exch |->
         IF i \in S /\ exch[i].status = "open" THEN [exch[i] EXCEPT !.status = "canceled"] ELSE exch[i]]
  /\ db' = [db EXCEPT !.life = "deleted", !.book = <<>>]
  /\ UNCHANGED <<doing, lost, crashes>>

Crash ==
  /\ crashes < MaxCrashes
  /\ crashes' = crashes + 1
  /\ doing' = [Idle EXCEPT !.at = "startup"]
  /\ UNCHANGED <<exch, db, lost>>

(* startup_update_open_orders: what cannot be asked stays as it is.  That  *)
(* an order ended without a fill is written and not acted on.              *)
Startup ==
  /\ doing.at = "startup"
  /\ \E S \in SUBSET (OpenOrders \cup OpenStops) : db' = AllUpdated(db, Seen(S), FALSE)
  /\ doing' = Idle
  /\ UNCHANGED <<exch, lost, crashes>>

-----------------------------------------------------------------------------
Step(i) ==
  \/ Poll(i)
  \/ \E done \in BOOLEAN : Cancel(i, done) \/ ReplaceExit(i, done) \/ Replace(i, done) \/ Similar(i, done)
Next ==
  \/ \E i \in DOMAIN exch : Fill(i) \/ Withdraw(i) \/ Step(i)
  \/ \E S \in SUBSET LiveStops : ExitSignal(S) \/ ForcePart(S) \/ NextExit(S) \/ TrailStop(S)
  \/ HandleEmpty \/ PlaceExit \/ Enter \/ ReplaceWith \/ PlaceStop \/ Record \/ Recover \/ Delete
  \/ Crash \/ Startup

Spec == Init /\ [][Next]_vars

(* The loop goes on, orders that sell find a buyer, stops are canceled     *)
(* when that is asked for again and again, and the strategy wants out.     *)
Fairness ==
  /\ WF_vars(HandleEmpty \/ NextExit({}) \/ PlaceExit \/ ReplaceWith \/ Record \/ Startup)
  /\ WF_vars(doing.at = "trail" /\ PlaceStop)
  /\ WF_vars(\E i \in OpenAt({"exit"}) : Fill(i))
  /\ SF_vars(\E i \in DOMAIN exch : Poll(i))
  /\ WF_vars(\E i \in DOMAIN exch, done \in BOOLEAN : Similar(i, done))
  /\ SF_vars(Recover) /\ SF_vars(ExitSignal(LiveStops))
FairSpec == Spec /\ Fairness

-----------------------------------------------------------------------------
Current == \A i \in Recorded : db.book[i] = View(i)

(* With every row up to date, no order lost and no open order filled in    *)
(* part, the trade holds exactly what its orders bought and did not sell   *)
(* (recalc_trade_from_orders), after any mix of partial fills,             *)
(* cancellations, stops and restarts.                                      *)
InPart == {i \in Recorded : db.book[i].status = "open" /\ db.book[i].filled > 0}
AmountAgrees ==
  db.life = "open" /\ lost = {} /\ Current /\ InPart = {} /\ Held > 0 => db.amount = Held

(* A trade that the bot closed (update_trade) or forgot because it bought  *)
(* nothing (handle_cancel_enter) leaves nothing behind: no coins, and no   *)
(* order at the exchange that could sell or buy more.  replace_order_failed*)
(* keeps no such promise.                                                  *)
EndedIsFlat ==
  db.life \in {"closed", "dropped"} /\ lost = {} /\ doing = Idle =>
    Held = 0 /\ OpenAt(Sides) = {}

(* No two orders of the bot that sell stand at the exchange together, even *)
(* when a stop that was canceled for an exit is still there: as long as no *)
(* entry was lost, the exchange has no coins for the second.               *)
OneSeller == lost \cap On({"entry"}) = {} => Cardinality(OpenAt({"exit", "stop"}) \ lost) <= 1

(* Without a restart an open trade always has something: coins, an open    *)
(* order, or a step of the bot under way.                                  *)
NotStranded ==
  db.life = "open" /\ doing = Idle /\ crashes = 0 => db.amount > 0 \/ OpenOrders # {}

(* A position the strategy wants to leave is left, whatever was canceled,  *)
(* refused, filled at the wrong moment or lost in a crash on the way; only *)
(* a stop that a crash made unknown can hold the coins for good.           *)
UnknownStop == \E i \in lost \ Recorded : exch[i].side = "stop" /\ exch[i].status = "open"
Unwinds == db.life = "open" /\ db.amount > 0 ~> db.life # "open" \/ UnknownStop

(* Of the trade and the exchange together: it buys once and sells what it  *)
(* bought, and its row ends when that is done, as TradeLife says, for as   *)
(* long as the bot does not die between placing an order and writing it.   *)
EachKnown == lost = IF doing.at = "sent" THEN {doing.id} ELSE {}
Life == INSTANCE TradeLife WITH
  life <- db.life, bought <- Total(On({"entry"})), sold <- Total(On({"exit", "stop"})),
  working <- OpenAt(Sides) # {}, known <- EachKnown
TradeSpec == Life!Spec
=============================================================================
