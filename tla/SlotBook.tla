---- MODULE SlotBook ----
(* What the booking system promises, without handlers, tables or locks: a     *)
(* book in which every booking holds at most one slot, every slot is held by  *)
(* at most one booking, and a booking that has ended never holds a slot       *)
(* again.  Every step is atomic; Reservations.tla is shown to implement it.   *)
CONSTANTS Bookings, Slots, NoSlot

VARIABLES at, ended

vars == <<at, ended>>

Init == at = [b \in Bookings |-> NoSlot] /\ ended = {}

Free(s) == \A b \in Bookings : at[b] # s

Book(b, s) ==
    /\ b \notin ended /\ at[b] = NoSlot /\ Free(s)
    /\ at' = [at EXCEPT ![b] = s]
    /\ UNCHANGED ended

Move(b, s) ==
    /\ at[b] # NoSlot /\ Free(s)
    /\ at' = [at EXCEPT ![b] = s]
    /\ UNCHANGED ended

\* Several bookings end at once when their owner's account is deleted.
End(B) ==
    /\ \A b \in B : at[b] # NoSlot
    /\ at' = [b \in Bookings |-> IF b \in B THEN NoSlot ELSE at[b]]
    /\ ended' = ended \cup B

Next ==
    \/ \E b \in Bookings, s \in Slots : Book(b, s) \/ Move(b, s)
    \/ \E B \in SUBSET Bookings : End(B)

Spec == Init /\ [][Next]_vars
====
