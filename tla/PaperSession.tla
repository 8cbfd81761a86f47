----------------------------- MODULE PaperSession -----------------------------
(***************************************************************************)
(* What a paper session promises: one closed candle after another, each    *)
(* once and in order, in one step that moves the balance, the trades and   *)
(* the signal together.  Who applies a candle, how often it dies trying,   *)
(* and what the owner asked for meanwhile is left out.                     *)
(***************************************************************************)
EXTENDS SimCore

CONSTANTS Candles, Capital

VARIABLES
  last,    \* the newest candle applied
  usdt,    \* free balance
  trades,  \* positions by the candle of their signal
  signal   \* what is to be executed at the next open

NoTrade == [state |-> "none", entry |-> 0, paid |-> 0, got |-> 0]
OpenTrades == {i \in Candles : trades[i].state = "open"}
OpenTrade == IF OpenTrades = {} THEN 0 ELSE CHOOSE i \in OpenTrades : TRUE

(* The trade rows after the fills of candle i. *)
Booked(rows, x, i) ==
  [j \in Candles |->
     LET row == IF j = x.bought
                THEN [state |-> "open", entry |-> i, paid |-> x.paid, got |-> 0] ELSE rows[j]
     IN  IF j = x.sold THEN [row EXCEPT !.state = "closed", !.got = x.got] ELSE row]

Init ==
  /\ last = 0
  /\ usdt = Capital
  /\ trades = [i \in Candles |-> NoTrade]
  /\ signal = NoSignal

Apply(i) ==
  /\ i > last
  /\ last' = i
  /\ \E allow \in BOOLEAN : \E end \in OnCandle(State(usdt, OpenTrade), signal, i, allow) :
       /\ end.state.bought # 0 => trades[end.state.bought] = NoTrade
       /\ usdt' = end.state.usdt
       /\ signal' = end.signal
       /\ trades' = Booked(trades, end.state, i)

Next == \E i \in Candles : Apply(i)

Spec == Init /\ [][Next]_<<last, usdt, trades, signal>>
=============================================================================
