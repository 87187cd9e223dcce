---- MODULE MCReservations ----
(* Small instances of Reservations for TLC.  Day 0 is a Friday (FirstWeekday =  *)
(* 5) and so never bookable; with MaxDaysAhead = 1, day 2 becomes bookable when *)
(* day 1 begins.  Instant 7 lies before every slot, 32 is day 1, eight o'clock. *)
EXTENDS Reservations, TLC

CONSTANTS u1, a1, a2, vip1, r1, r2, r3, q1, q2

Blank == [kind |-> "cancel", by |-> u1, id |-> NoRes, mentions |-> {}, whom |-> NoUser, open |-> TRUE,
        slot |-> [room |-> Same, day |-> Same, hour |-> Same]]
SlotAt(room, day, hour) == [room |-> room, day |-> day, hour |-> hour]
Create(u, slot, people) == [Blank EXCEPT !.kind = "create", !.by = u, !.slot = slot, !.mentions = people]
OnRow(kind, u, id) == [Blank EXCEPT !.kind = kind, !.by = u, !.id = id]
Reschedule(u, id, part) == [Blank EXCEPT !.kind = "reschedule", !.by = u, !.id = id, !.slot = part]
RemoveUser(u, whom) == [Blank EXCEPT !.kind = "removeUser", !.by = u, !.whom = whom]
SetRoom(u, room, on) == [Blank EXCEPT !.kind = "setRoom", !.by = u, !.slot.room = room, !.open = on]

\* Everything the booking core does: an account and an admin who each book and
\* bring the other along, an admin who interferes with the row and removes the
\* account, a room that closes and opens, a booking of the closing hour.
LifecycleRequests ==
    {Create(u1, SlotAt(vip1, 1, 8), {a1}), Create(a1, SlotAt(vip1, 1, 9), {u1}),
     Create(u1, SlotAt(vip1, 1, 10), {}),
     RemoveUser(a1, u1), SetRoom(a1, vip1, FALSE), SetRoom(a1, vip1, TRUE)}
    \cup UNION {{OnRow("cancel", u1, r), OnRow("edit", a1, r), OnRow("reject", a1, r),
                 OnRow("remove", a1, r), Reschedule(a1, r, SlotAt(Same, 0, Same)),
                 Reschedule(a1, r, SlotAt(Same, 2, Same))} : r \in ResIds}

\* Contention for two slots of one day.
ContendRequests ==
    {Create(u1, SlotAt(vip1, 1, 8), {}), Create(a1, SlotAt(vip1, 1, 9), {})}
    \cup UNION {{OnRow("cancel", u1, r), Reschedule(a1, r, SlotAt(Same, Same, 8)),
                 Reschedule(a1, r, SlotAt(Same, Same, 9))} : r \in ResIds}

\* Bookings of one slot that hold the write lock or wait for it, with
\* an update and a cascading delete that wait for it without a transaction.
AnswerRequests ==
    {Create(u1, SlotAt(vip1, 1, 8), {a1}), RemoveUser(a1, u1)}
    \cup {OnRow("cancel", u1, r) : r \in ResIds}
    \cup {Reschedule(a1, r, SlotAt(Same, Same, 8)) : r \in ResIds}

\* One admin rejects a reservation while another removes the first one's account.
AuditRequests == {Create(u1, SlotAt(vip1, 1, 8), {}), RemoveUser(a2, a1)}
    \cup {OnRow("reject", a1, r) : r \in ResIds}

\* Two admins move one reservation, one to another day, one to another hour.
PartialRequests == {Create(u1, SlotAt(vip1, 1, 8), {})}
    \cup UNION {{Reschedule(a1, r, SlotAt(Same, 2, Same)), Reschedule(a2, r, SlotAt(Same, Same, 9))}
               : r \in ResIds}

Keys == Permutations(ResIds)
HandlersAndKeys == Keys \cup Permutations(Handlers)
====
