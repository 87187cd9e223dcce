---- MODULE MCBookingPage ----
(* Two days of one hour, two people that both answer to one of two texts.  *)
EXTENDS BookingPage, TLC

CONSTANTS d1, d2, u1, u2, x1, x2

FoundPeople == x1 :> <<u1, u2>> @@ x2 :> <<u2>>
====
