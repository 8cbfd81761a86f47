------------------------------ MODULE OrderLedger ------------------------------
(***************************************************************************)
(* What the live engine promises about each order it sends: a row is       *)
(* written first, one order at a time; the request leaves at most once;    *)
(* the row is closed only when the fate of the request is known, and       *)
(* agrees with it.  Who does this, and how often that process dies in      *)
(* between, is left out.                                                   *)
(***************************************************************************)
CONSTANT Orders

VARIABLES
  row,   \* what the database says of each order
  fate   \* what became of the request at the exchange

Open     == {"pending", "unknown"}
Executed == {"filled", "expired"}

Init ==
  /\ row = [c \in Orders |-> "none"]
  /\ fate = [c \in Orders |-> "absent"]

(* A row for a new order, when no other order is open. *)
Record(c) ==
  /\ \A d \in Orders : row[d] \notin Open
  /\ row[c] = "none"
  /\ row' = [row EXCEPT ![c] = "pending"]
  /\ UNCHANGED fate

(* The one time the request leaves. *)
Send(c) ==
  /\ row[c] = "pending" /\ fate[c] = "absent"
  /\ fate' = [fate EXCEPT ![c] = "inflight"]
  /\ UNCHANGED row

Resolve(c) ==
  /\ fate[c] = "inflight"
  /\ \E end \in Executed \cup {"refused", "lost"} : fate' = [fate EXCEPT ![c] = end]
  /\ UNCHANGED row

(* The sender does not learn the fate. *)
Doubt(c) ==
  /\ row[c] = "pending" /\ fate[c] # "absent"
  /\ row' = [row EXCEPT ![c] = "unknown"]
  /\ UNCHANGED fate

(* The fate is known: it is what the row says from now on. *)
Settle(c) ==
  /\ row[c] \in Open /\ fate[c] # "inflight"
  /\ \/ fate[c] \in Executed /\ row' = [row EXCEPT ![c] = fate[c]]
     \/ fate[c] = "refused" /\ row' = [row EXCEPT ![c] = "rejected"]
     \/ fate[c] \notin Executed /\ row' = [row EXCEPT ![c] = "not_placed"]
  /\ UNCHANGED fate

Next == \E c \in Orders : Record(c) \/ Send(c) \/ Resolve(c) \/ Doubt(c) \/ Settle(c)

Spec == Init /\ [][Next]_<<row, fate>>
=============================================================================
