---- MODULE MCAvailability ----
(* Two rooms of two hours a day over three days, two bookings. *)
EXTENDS Availability, TLC

CONSTANTS v1, v2, b1, b2, c1

BookingsAndRooms == Permutations(Bookings) \cup Permutations(Rooms)
====
