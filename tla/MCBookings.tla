------------------------------- MODULE MCBookings -------------------------------
(* Instances of Bookings for TLC. *)
EXTENDS Bookings, TLC

\* Bookings and workers are interchangeable.
MCSymmetry == Permutations(BookingIds) \cup Permutations(Workers)
=============================================================================
