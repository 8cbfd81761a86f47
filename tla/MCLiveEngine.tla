----------------------------- MODULE MCLiveEngine -----------------------------
(* Instances of LiveEngine for TLC. *)
EXTENDS LiveEngine

(* The worker can die anywhere; anywhere but before a fill is booked; only *)
(* there.                                                                  *)
Anywhere == Points \ {"down"}
NotBooking == Points \ {"down", "book", "rbook"}
Booking == {"book", "rbook"}
=============================================================================
