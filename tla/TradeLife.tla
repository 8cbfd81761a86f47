------------------------------ MODULE TradeLife ------------------------------
(***************************************************************************)
(* What a trade of the bot promises, of the orders at the exchange and of  *)
(* the trade's row together: it buys once, then sells what it bought and   *)
(* never more; its row is closed when everything is sold, and forgotten as *)
(* empty when nothing was bought, and after either nothing moves any more. *)
(* This holds until an order gets lost (a death of the bot between the     *)
(* order and its row): then nothing is promised.  How orders are placed,   *)
(* canceled, replaced and asked for is left out.                           *)
(***************************************************************************)
EXTENDS Integers

CONSTANT Size    \* units of the base currency a trade buys

VARIABLES
  life,      \* of the trade's row
  bought,    \* units bought by all orders so far
  sold,      \* units sold
  working,   \* some order can still buy or sell
  known      \* every order has its row, or its creator will write one

lifeVars == <<life, bought, sold, working, known>>

Ended == {"closed", "dropped"}

Init == life = "none" /\ bought = 0 /\ sold = 0 /\ working = FALSE /\ known = TRUE

(* The orders move, while the row stays: an order is placed, canceled or   *)
(* filled, in full or in part.  Buying is over once something was sold.    *)
Buy ==
  /\ life \notin Ended /\ sold = 0
  /\ bought' \in bought + 1 .. Size
  /\ working' \in BOOLEAN
  /\ UNCHANGED <<life, sold, known>>

Sell ==
  /\ life \notin Ended \cup {"none"}
  /\ sold' \in sold + 1 .. bought
  /\ working' \in BOOLEAN
  /\ UNCHANGED <<life, bought, known>>

Work ==
  /\ life \notin Ended
  /\ working' = ~working
  /\ UNCHANGED <<life, bought, sold, known>>

(* The row moves.                                                          *)
Begin ==
  /\ life = "none" /\ life' = "open"
  /\ UNCHANGED <<bought, sold, working, known>>

Close ==
  /\ life = "open" /\ life' = "closed"
  /\ bought > 0 /\ sold = bought /\ ~working
  /\ UNCHANGED <<bought, sold, working, known>>

(* The last order may be canceled in the same step.                        *)
Drop ==
  /\ life = "open" /\ life' = "dropped"
  /\ bought = 0 /\ ~working'
  /\ UNCHANGED <<bought, sold, known>>

(* The owner deletes the row, or an entry could not be replaced.           *)
Forget ==
  /\ life = "open" /\ life' \in {"unreplaced", "deleted"}
  /\ working' => working
  /\ UNCHANGED <<bought, sold, known>>

Lose == known' = FALSE /\ UNCHANGED <<life, bought, sold, working>>

Promised == Buy \/ Sell \/ Work \/ Begin \/ Close \/ Drop \/ Forget \/ Lose
Next == (known /\ Promised) \/ (~known /\ ~known')

Spec == Init /\ [][Next]_lifeVars
=============================================================================
