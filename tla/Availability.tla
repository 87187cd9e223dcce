---- MODULE Availability ----
(* GET /availability while others book: what a client is offered, put together   *)
(* from a window checked on arrival, rooms and reservations read one after the   *)
(* other and a clock read last.  The reservations are the abstract book, with    *)
(* the steps of everybody else; Reservations.tla is shown to take no others.     *)
EXTENDS TehranTime

CONSTANTS
    Rooms, Days,
    Bookings, Readers,  \* reservations, and requests for availability, at a time
    Instants,           \* the instants the clock is observed at
    NoSlot

ASSUME NumbersAssumption == Instants \subseteq Nat /\ Instants # {}
ASSUME DaysAssumption == Days \subseteq Nat /\ Days # {}
ASSUME DayAssumption == EndHour <= HoursPerDay
ASSUME NullAssumption == NoSlot \notin [room : Rooms, day : Days, hour : StartHour..(EndHour - 1)]

VARIABLES
    now,        \* the clock
    open,       \* rooms with isActive
    at, ended,  \* the book of slots
    ask,        \* what each request has read
    news        \* history: slots that something happened to since the request came

vars == <<now, open, at, ended, ask, news>>
book == <<at, ended>>

--------------------------------------------------------------------------------
(* Slots.                                                                       *)

TooManySlots == StartHour..EndHour                       \* mutant
BuildSlots == StartHour..(EndHour - 1)

Slot == [room : Rooms, day : Days, hour : StartHour..(EndHour - 1)]
Book == INSTANCE SlotBook WITH Slots <- Slot

\* What create checks of a slot, one after the other; here at one moment.
Accepted(s) ==
    /\ IsAllowedDay(s.day) /\ IsWithinBookingWindow(s.day, now) /\ IsSlotHour(s.hour)
    /\ ~IsSlotPast(s.day, s.hour, now)
    /\ s.room \in open /\ Book!Free(s)

Ask == [step : {"idle", "rooms", "booked", "shown"}, day : Days, which : SUBSET Rooms,
        within : BOOLEAN, rooms : SUBSET Rooms, free : SUBSET Slot]
Idle == [step |-> "idle", day |-> CHOOSE d \in Days : TRUE, which |-> {}, within |-> FALSE,
         rooms |-> {}, free |-> {}]

Init ==
    /\ now \in Instants /\ open = Rooms
    /\ Book!Init
    /\ ask = [c \in Readers |-> Idle]
    /\ news = [c \in Readers |-> {}]

--------------------------------------------------------------------------------
(* getAvailability.                                                             *)

\* Up to the first await; a request names a room or asks for all of them.
Receive(c, day, which) ==
    /\ ask[c] = Idle
    /\ ask' = [ask EXCEPT ![c] = [Idle EXCEPT !.step = "rooms", !.day = day, !.which = which,
                    !.within = IsAllowedDay(day) /\ IsWithinBookingWindow(day, now)]]
    /\ news' = [news EXCEPT ![c] = {}]
    /\ UNCHANGED <<now, open, book>>

FindRooms(c) ==
    /\ ask[c].step = "rooms"
    /\ ask' = [ask EXCEPT ![c].step = "booked", ![c].rooms = open \cap ask[c].which]
    /\ UNCHANGED <<now, open, book, news>>

Offered(c) == [room : ask[c].rooms, day : {ask[c].day}, hour : BuildSlots]

\* Mutant: nobody looks at the clock again after the queries.
ShowsPastSlots(c) ==
    /\ ask[c].step = "booked"
    /\ ask' = [ask EXCEPT ![c].step = "shown",
                   ![c].free = {s \in Offered(c) : ask[c].within /\ Book!Free(s)}]
    /\ UNCHANGED <<now, open, book, news>>

\* The reservations of the day, then the status of every slot: closed, booked, past
\* or available.
FindReservations(c) ==
    /\ ask[c].step = "booked"
    /\ ask' = [ask EXCEPT ![c].step = "shown",
                   ![c].free = {s \in Offered(c) : ask[c].within /\ Book!Free(s)
                                                   /\ ~IsSlotPast(s.day, s.hour, now)}]
    /\ UNCHANGED <<now, open, book, news>>

\* The client looks at something else.
Leave(c) ==
    /\ ask[c].step = "shown"
    /\ ask' = [ask EXCEPT ![c] = Idle] /\ news' = [news EXCEPT ![c] = {}]
    /\ UNCHANGED <<now, open, book>>

--------------------------------------------------------------------------------
(* Everybody else.                                                              *)

\* Every request under way learns of its own slots, for the record only.
Note(S) ==
    news' = [c \in Readers |-> IF ask[c] = Idle THEN {}
                               ELSE news[c] \cup {s \in S : s.day = ask[c].day /\ s.room \in ask[c].which}]

\* Whatever the book lets others do.
Take(b, s) ==
    /\ Book!Book(b, s) \/ Book!Move(b, s)
    /\ Note({s})
    /\ UNCHANGED <<now, open, ask>>

\* A removed account takes all its reservations with it.
Release(B) == Book!End(B) /\ UNCHANGED <<now, open, ask, news>>

SetRoom(r) ==
    /\ open' \in {open \cup {r}, open \ {r}}
    /\ Note({s \in Slot : s.room = r})
    /\ UNCHANGED <<now, book, ask>>

\* News for the slots that have started by then.
Tick(t) ==
    /\ t > now
    /\ now' = t
    /\ Note({s \in Slot : IsSlotPast(s.day, s.hour, t) /\ ~IsSlotPast(s.day, s.hour, now)})
    /\ UNCHANGED <<open, book, ask>>

Next ==
    \/ \E c \in Readers :
         \/ \E day \in Days, which \in {Rooms} \cup {{r} : r \in Rooms} : Receive(c, day, which)
         \/ FindRooms(c) \/ FindReservations(c) \/ Leave(c)
    \/ \E b \in Bookings, s \in Slot : Take(b, s)
    \/ \E B \in SUBSET Bookings : Release(B)
    \/ \E r \in Rooms : SetRoom(r)
    \/ \E t \in Instants : Tick(t)

Spec == Init /\ [][Next]_vars

--------------------------------------------------------------------------------
(* Properties.                                                                  *)

TypeOK ==
    /\ now \in Instants /\ open \subseteq Rooms
    /\ at \in [Bookings -> Slot \cup {NoSlot}] /\ ended \subseteq Bookings
    /\ ask \in [Readers -> Ask] /\ news \in [Readers -> SUBSET Slot]

\* A slot that is offered can be booked until something happens to it: that somebody
\* took it, its room was switched, or it started after the request was made.  Midnight
\* between the checks alone never spoils an offer, though window, rooms, reservations
\* and clock are read at four different moments.
OfferHolds ==
    \A c \in Readers : \A s \in ask[c].free : Accepted(s) \/ s \in news[c]
====
