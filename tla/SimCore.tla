-------------------------------- MODULE SimCore --------------------------------
(***************************************************************************)
(* Candle-by-candle spot simulation shared by the backtester and the paper *)
(* engine (backtest/core.py).  Candles are numbered from 1; the exchange's *)
(* step size is one unit of the asset and a position takes at most one, so *)
(* an order is below the exchange minimum exactly when the balance does    *)
(* not pay for a unit.  Fees and slippage are part of the prices, so       *)
(* the rounding of a quantity against its fee (_buy) does not arise.       *)
(***************************************************************************)
EXTENDS Integers

CONSTANT Prices  \* prices of one unit, after slippage and fee

ASSUME PricesAssumption == Prices \subseteq Nat \ {0}

(* SimState with the fills of one candle: `open` is the signal candle of   *)
(* the open position (0: none), `paid` what it cost; `bought` and `sold`   *)
(* are the signal candles of the positions opened and closed, `got` what   *)
(* the sale brought.                                                       *)
State(usdt, open) == [usdt |-> usdt, open |-> open, paid |-> 0, bought |-> 0, sold |-> 0, got |-> 0]

NoSignal == [side |-> "none", at |-> 0]

(* _buy: a unit at price p. *)
Buy(x, at, p) == [x EXCEPT !.usdt = @ - p, !.open = at, !.paid = p, !.bought = at]

(* _sell: the position at price p. *)
Sell(x, p) == [x EXCEPT !.usdt = @ + p, !.open = 0, !.sold = x.open, !.got = p]

(* The signal of the last candle at this candle's open.  Slips: the        *)
(* balance, the open position are not looked at.                           *)
EntersUnfunded(x, signal, allow) ==
  IF signal.side = "enter" /\ x.open = 0 /\ allow
  THEN {Buy(x, signal.at, p) : p \in Prices}
  ELSE IF signal.side = "exit" /\ x.open # 0 THEN {Sell(x, p) : p \in Prices}
  ELSE {x}
EntersAgain(x, signal, allow) ==
  {IF p <= x.usdt /\ signal.at # 0 THEN Buy(x, signal.at, p) ELSE x : p \in Prices}
AtOpen(x, signal, allow) ==
  IF signal.side = "enter" /\ x.open = 0 /\ allow
  THEN {IF p <= x.usdt THEN Buy(x, signal.at, p) ELSE x : p \in Prices}
  ELSE IF signal.side = "exit" /\ x.open # 0 THEN {Sell(x, p) : p \in Prices}
  ELSE {x}

(* The stop or the take-profit inside the candle. *)
Inside(x) == {x} \cup (IF x.open # 0 THEN {Sell(x, p) : p \in Prices} ELSE {})

(* The signals candle i can leave for the next open. *)
Left(x, i, allow) ==
  {NoSignal} \cup (IF x.open # 0 THEN {[side |-> "exit", at |-> i]}
                   ELSE IF allow THEN {[side |-> "enter", at |-> i]} ELSE {})

(* on_candle: every state and signal candle i can end with.  Slip: the     *)
(* signal that was not executed stays.                                     *)
Keeping(x, signal, i, allow) ==
  UNION {{[state |-> z, signal |-> g] :
            g \in Left(z, i, allow) \cup (IF z.bought = 0 /\ z.sold = 0 THEN {signal} ELSE {})}
         : z \in UNION {Inside(y) : y \in AtOpen(x, signal, allow)}}
OnCandle(x, signal, i, allow) ==
  UNION {{[state |-> z, signal |-> g] : g \in Left(z, i, allow)}
         : z \in UNION {Inside(y) : y \in AtOpen(x, signal, allow)}}
=============================================================================
