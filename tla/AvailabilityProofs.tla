---- MODULE AvailabilityProofs ----
(* What is offered can be booked until something happens to it, for any rooms,   *)
(* days, hours, bookings and requests.                                           *)
EXTENDS Availability, TLAPS

\* What the rooms read and the window checked are still worth.
RoomsHold ==
    \A c \in Readers : \A s \in Slot :
        s.day = ask[c].day /\ s.room \in ask[c].rooms => s.room \in open \/ s \in news[c]

WindowHolds ==
    \A c \in Readers :
        /\ ask[c].rooms \subseteq ask[c].which
        /\ ask[c].within => IsAllowedDay(ask[c].day) /\ ask[c].day <= Today(now) + MaxDaysAhead

\* Each offer has a room and a day that were asked for, and is free and ahead but for news.
OffersHold ==
    \A c \in Readers : \A s \in ask[c].free :
        /\ ask[c].within /\ s.day = ask[c].day /\ s.room \in ask[c].rooms
        /\ Book!Free(s) \/ s \in news[c]
        /\ ~IsSlotPast(s.day, s.hour, now) \/ s \in news[c]

NothingShown == \A c \in Readers : ask[c].step # "shown" => ask[c].free = {}

IInv == TypeOK /\ RoomsHold /\ WindowHolds /\ OffersHold /\ NothingShown

--------------------------------------------------------------------------------

LEMMA SlotTypes ==
    \A s \in Slot : s.room \in Rooms /\ s.day \in Days /\ s.day \in Nat
                    /\ s.hour \in BuildSlots /\ IsSlotHour(s.hour) /\ s.hour \in 0..23
<1> TAKE s \in Slot
<1>1. s.room \in Rooms /\ s.day \in Days /\ s.hour \in StartHour..(EndHour - 1)  BY DEF Slot
<1>2. StartHour \in Nat /\ EndHour \in Nat /\ EndHour <= 24
  BY HoursAssumption, DayAssumption DEF HoursPerDay
<1>3. \A h \in StartHour..(EndHour - 1) : h \in 0..23 /\ h >= StartHour /\ h < EndHour
  BY <1>2
<1>4. s.day \in Nat  BY <1>1, DaysAssumption
<1> QED  BY <1>1, <1>3, <1>4 DEF IsSlotHour, BuildSlots

\* A slot ahead is on a day that is not over.
LEMMA AheadInWindow ==
    ASSUME NEW s \in Slot, NEW t \in Nat, ~IsSlotPast(s.day, s.hour, t)
    PROVE  s.day >= Today(t)
<1>1. s.day \in Nat /\ s.hour \in 0..23  BY SlotTypes
<1> QED  BY <1>1 DEF IsSlotPast, SlotStart, Today, HoursPerDay

LEMMA TodayGrows ==
    ASSUME NEW t \in Nat, NEW u \in Nat, t <= u
    PROVE  Today(t) \in Nat /\ Today(t) <= Today(u)
  BY DEF Today, HoursPerDay

LEMMA Enough == IInv => OfferHolds
<1> SUFFICES ASSUME IInv, NEW c \in Readers, NEW s \in ask[c].free, s \notin news[c]
             PROVE  Accepted(s)
  BY DEF OfferHolds
<1>1. ask[c] \in Ask /\ s \in Slot /\ now \in Nat  BY NumbersAssumption DEF IInv, TypeOK, Ask
<1>2. /\ ask[c].within /\ s.day = ask[c].day /\ s.room \in ask[c].rooms
      /\ Book!Free(s) /\ ~IsSlotPast(s.day, s.hour, now)
  BY DEF IInv, OffersHold
<1>3. s.room \in open  BY <1>1, <1>2 DEF IInv, RoomsHold
<1>4. IsAllowedDay(s.day) /\ s.day <= Today(now) + MaxDaysAhead  BY <1>2 DEF IInv, WindowHolds
<1>5. s.day >= Today(now)  BY <1>1, <1>2, AheadInWindow
<1>6. IsSlotHour(s.hour)  BY <1>1, SlotTypes
<1> QED  BY <1>2, <1>3, <1>4, <1>5, <1>6 DEF Accepted, IsWithinBookingWindow

--------------------------------------------------------------------------------

LEMMA InitHolds == Init => IInv
<1> SUFFICES ASSUME Init PROVE IInv  OBVIOUS
<1>1. Days # {} => Idle \in Ask  BY DEF Idle, Ask
<1>2. TypeOK  BY <1>1, DaysAssumption DEF Init, TypeOK, Book!Init
<1>3. RoomsHold /\ WindowHolds /\ OffersHold /\ NothingShown
  BY DEF Init, Idle, RoomsHold, WindowHolds, OffersHold, NothingShown
<1> QED  BY <1>2, <1>3 DEF IInv

\* What a request has read stays typed, whatever it reads.
LEMMA ReadersStep ==
    ASSUME IInv, NEW c \in Readers,
           \/ \E day \in Days, which \in {Rooms} \cup {{r} : r \in Rooms} : Receive(c, day, which)
           \/ FindRooms(c) \/ FindReservations(c) \/ Leave(c)
    PROVE  IInv'
<1> USE NumbersAssumption
<1>1. ask[c] \in Ask /\ news[c] \in SUBSET Slot  BY DEF IInv, TypeOK
<1>2. Idle \in Ask  BY DaysAssumption DEF Idle, Ask
<1>3. now \in Nat  BY DEF IInv, TypeOK
<1>4. ASSUME NEW day \in Days, NEW which \in {Rooms} \cup {{r} : r \in Rooms}, Receive(c, day, which)
      PROVE  IInv'
  <2>1. ask'[c].rooms = {} /\ ask'[c].free = {} /\ ask'[c].day = day /\ ask'[c] \in Ask
        /\ (ask'[c].within => IsAllowedDay(day) /\ day <= Today(now) + MaxDaysAhead)
    <3> DEFINE read == [Idle EXCEPT !.step = "rooms", !.day = day, !.which = which,
                    !.within = IsAllowedDay(day) /\ IsWithinBookingWindow(day, now)]
    <3>1. ask'[c] = read  BY <1>4 DEF Receive, IInv, TypeOK
    <3>2. read.rooms = {} /\ read.free = {} /\ read.day = day
          /\ (read.within => IsAllowedDay(day) /\ IsWithinBookingWindow(day, now))
      BY DEF Idle
    <3>3. which \in SUBSET Rooms  BY <1>4
    <3>4. read \in Ask  BY <3>3 DEF Idle, Ask
    <3> HIDE DEF read
    <3> QED  BY <3>1, <3>2, <3>4 DEF IsWithinBookingWindow
  <2>2. \A d \in Readers \ {c} : ask'[d] = ask[d] /\ news'[d] = news[d]
    BY <1>4 DEF Receive, IInv, TypeOK
  <2>3. UNCHANGED <<now, open, at, ended>>  BY <1>4 DEF Receive, book
  <2>4. TypeOK'
    BY <1>4, <2>1, <2>2, <2>3 DEF Receive, IInv, TypeOK
  <2>5. RoomsHold'  BY <2>1, <2>2, <2>3 DEF IInv, RoomsHold
  <2>6. WindowHolds'  BY <2>1, <2>2, <2>3 DEF IInv, WindowHolds
  <2>7. OffersHold'  BY <2>1, <2>2, <2>3 DEF IInv, OffersHold, Book!Free
  <2>8. NothingShown'  BY <2>1, <2>2 DEF IInv, NothingShown
  <2> QED  BY <2>4, <2>5, <2>6, <2>7, <2>8 DEF IInv
<1>5. CASE FindRooms(c)
  <2>1. /\ ask'[c].rooms = open \cap ask[c].which /\ ask'[c].which = ask[c].which
        /\ ask'[c].day = ask[c].day /\ ask'[c].within = ask[c].within
        /\ ask'[c].free = ask[c].free /\ ask'[c] \in Ask
    BY <1>1, <1>5 DEF FindRooms, Ask, IInv, TypeOK
  <2>2. \A d \in Readers \ {c} : ask'[d] = ask[d]  BY <1>5 DEF FindRooms, IInv, TypeOK
  <2>3. UNCHANGED <<now, open, at, ended, news>>  BY <1>5 DEF FindRooms, book
  <2>4. TypeOK'  BY <1>5, <2>1, <2>2, <2>3 DEF FindRooms, IInv, TypeOK
  <2>5. RoomsHold'  BY <2>1, <2>2, <2>3 DEF IInv, RoomsHold
  <2>6. WindowHolds'  BY <2>1, <2>2, <2>3 DEF IInv, WindowHolds
  <2>8. ask[c].free = {}  BY <1>5 DEF FindRooms, IInv, NothingShown
  <2>7. OffersHold'  BY <2>1, <2>2, <2>3, <2>8 DEF IInv, OffersHold, Book!Free
  <2>9. NothingShown'  BY <1>5, <2>1, <2>2, <2>8 DEF FindRooms, IInv, NothingShown
  <2> QED  BY <2>4, <2>5, <2>6, <2>7, <2>9 DEF IInv
<1>6. CASE FindReservations(c)
  <2>1. /\ ask'[c].rooms = ask[c].rooms /\ ask'[c].which = ask[c].which
        /\ ask'[c].day = ask[c].day /\ ask'[c].within = ask[c].within
        /\ ask'[c].step = "shown"
        /\ ask'[c].free = {s \in Offered(c) : ask[c].within /\ Book!Free(s)
                                              /\ ~IsSlotPast(s.day, s.hour, now)}
    BY <1>1, <1>6 DEF FindReservations, Ask, IInv, TypeOK
  <2>2. \A d \in Readers \ {c} : ask'[d] = ask[d]  BY <1>6 DEF FindReservations, IInv, TypeOK
  <2>3. UNCHANGED <<now, open, at, ended, news>>  BY <1>6 DEF FindReservations, book
  <2>4. Offered(c) \subseteq Slot
    <3>1. ask[c].rooms \subseteq Rooms /\ ask[c].day \in Days  BY <1>1 DEF Ask
    <3> QED  BY <3>1 DEF Offered, Slot, BuildSlots
  <2>5. ask'[c] \in Ask
    <3>1. ask'[c].free \in SUBSET Slot  BY <2>1, <2>4
    <3> QED  BY <1>1, <1>6, <2>1, <3>1 DEF FindReservations, Ask, IInv, TypeOK
  <2>6. TypeOK'  BY <1>6, <2>2, <2>3, <2>5 DEF FindReservations, IInv, TypeOK
  <2>7. RoomsHold'  BY <2>1, <2>2, <2>3 DEF IInv, RoomsHold
  <2>8. WindowHolds'  BY <2>1, <2>2, <2>3 DEF IInv, WindowHolds
  <2>9. OffersHold'
    <3>1. \A s \in Offered(c) : s.day = ask[c].day /\ s.room \in ask[c].rooms  BY DEF Offered
    <3> QED  BY <2>1, <2>2, <2>3, <3>1 DEF IInv, OffersHold, Book!Free
  <2>10. NothingShown'  BY <2>1, <2>2 DEF IInv, NothingShown
  <2> QED  BY <2>6, <2>7, <2>8, <2>9, <2>10 DEF IInv
<1>7. CASE Leave(c)
  <2>1. ask'[c] = Idle /\ news'[c] = {} /\ Idle.rooms = {} /\ Idle.free = {} /\ ~Idle.within
    BY <1>7 DEF Leave, Idle, IInv, TypeOK
  <2>2. \A d \in Readers \ {c} : ask'[d] = ask[d] /\ news'[d] = news[d]
    BY <1>7 DEF Leave, IInv, TypeOK
  <2>3. UNCHANGED <<now, open, at, ended>>  BY <1>7 DEF Leave, book
  <2>4. TypeOK'  BY <1>2, <1>7, <2>1, <2>2, <2>3 DEF Leave, IInv, TypeOK
  <2>5. RoomsHold'  BY <2>1, <2>2, <2>3 DEF IInv, RoomsHold
  <2>6. WindowHolds'  BY <2>1, <2>2, <2>3 DEF IInv, WindowHolds
  <2>7. OffersHold'  BY <2>1, <2>2, <2>3 DEF IInv, OffersHold, Book!Free
  <2>8. NothingShown'  BY <2>1, <2>2 DEF IInv, NothingShown
  <2> QED  BY <2>4, <2>5, <2>6, <2>7, <2>8 DEF IInv
<1> QED  BY <1>4, <1>5, <1>6, <1>7

\* A slot that is shown is noted whenever it is among those something happens to.
LEMMA Noted ==
    ASSUME IInv, NEW S \in SUBSET Slot, Note(S)
    PROVE  /\ news' \in [Readers -> SUBSET Slot]
           /\ \A c \in Readers : \A s \in Slot :
                s.day = ask[c].day /\ s.room \in ask[c].rooms =>
                  /\ s \in news[c] => s \in news'[c]
                  /\ s \in S => s \in news'[c]
<1>1. \A c \in Readers : ask[c] # Idle =>
        news'[c] = news[c] \cup {s \in S : s.day = ask[c].day /\ s.room \in ask[c].which}
  BY DEF Note
<1>2. \A c \in Readers : ask[c].rooms # {} => ask[c] # Idle  BY DEF Idle
<1>3. \A c \in Readers : ask[c].rooms \subseteq ask[c].which  BY DEF IInv, WindowHolds
<1>4. news' \in [Readers -> SUBSET Slot]  BY DEF Note, IInv, TypeOK
<1> QED  BY <1>1, <1>2, <1>3, <1>4

\* Others change nothing a request has read: what they change is noted.
LEMMA OthersStep ==
    ASSUME IInv, NEW S \in SUBSET Slot, Note(S), UNCHANGED ask,
           now' \in Instants, now <= now', open' \subseteq Rooms,
           at' \in [Bookings -> Slot \cup {NoSlot}], ended' \subseteq Bookings,
           \A s \in Slot : s.room \in open => s.room \in open' \/ s \in S,
           \A s \in Slot : Book!Free(s) => Book!Free(s)' \/ s \in S,
           \A s \in Slot : ~IsSlotPast(s.day, s.hour, now)
                             => ~IsSlotPast(s.day, s.hour, now') \/ s \in S
    PROVE  IInv'
<1>1. \A c \in Readers : ask[c] \in Ask  BY DEF IInv, TypeOK
<1>2. TypeOK'  BY Noted DEF IInv, TypeOK
<1>3. RoomsHold'  BY Noted DEF IInv, RoomsHold
<1>4. WindowHolds'
  <2>1. now \in Nat /\ now' \in Nat  BY NumbersAssumption DEF IInv, TypeOK
  <2>2. Today(now) \in Nat /\ Today(now') \in Nat /\ Today(now) <= Today(now')
    BY <2>1, TodayGrows
  <2>3. \A c \in Readers : ask[c].day \in Nat  BY <1>1, DaysAssumption DEF Ask
  <2>4. \A c \in Readers : ask[c].day <= Today(now) + MaxDaysAhead
                             => ask[c].day <= Today(now') + MaxDaysAhead
    BY <2>2, <2>3, WindowAssumption
  <2> QED  BY <2>4 DEF IInv, WindowHolds
<1>5. OffersHold'
  <2>1. \A c \in Readers : ask[c].free \subseteq Slot  BY <1>1 DEF Ask
  <2> QED  BY <2>1, Noted DEF IInv, OffersHold
<1>6. NothingShown'  BY DEF IInv, NothingShown
<1> QED  BY <1>2, <1>3, <1>4, <1>5, <1>6 DEF IInv

LEMMA TakeStep ==
    ASSUME IInv, NEW b \in Bookings, NEW s \in Slot, Take(b, s)
    PROVE  IInv'
<1>1. Note({s}) /\ UNCHANGED <<now, open, ask>> /\ UNCHANGED ended /\ at' = [at EXCEPT ![b] = s]
  BY DEF Take, Book!Book, Book!Move
<1>2. /\ at' \in [Bookings -> Slot \cup {NoSlot}]
      /\ at'[b] = s /\ \A d \in Bookings \ {b} : at'[d] = at[d]
  BY <1>1 DEF IInv, TypeOK
<1>3. \A x \in Slot : Book!Free(x) => Book!Free(x)' \/ x \in {s}
  <2> SUFFICES ASSUME NEW x \in Slot, Book!Free(x), x # s
               PROVE  Book!Free(x)'
    OBVIOUS
  <2>1. \A d \in Bookings : at[d] # x  BY DEF Book!Free
  <2>2. \A d \in Bookings : at'[d] # x  BY <1>2, <2>1
  <2> QED  BY <2>2 DEF Book!Free
<1>4. now' \in Instants /\ now <= now' /\ open' \subseteq Rooms /\ ended' \subseteq Bookings
  BY <1>1, NumbersAssumption DEF IInv, TypeOK
<1>5. \A x \in Slot : x.room \in open => x.room \in open' \/ x \in {s}  BY <1>1
<1>6. \A x \in Slot : ~IsSlotPast(x.day, x.hour, now)
                        => ~IsSlotPast(x.day, x.hour, now') \/ x \in {s}
  BY <1>1
<1> QED  BY <1>1, <1>2, <1>3, <1>4, <1>5, <1>6, OthersStep

LEMMA ReleaseStep ==
    ASSUME IInv, NEW B \in SUBSET Bookings, Release(B)
    PROVE  IInv'
<1>1. /\ UNCHANGED <<now, open, ask, news>>
      /\ at' = [d \in Bookings |-> IF d \in B THEN NoSlot ELSE at[d]]
      /\ ended' = ended \cup B
  BY DEF Release, Book!End
<1>2. TypeOK'  BY <1>1 DEF IInv, TypeOK
<1>3. \A s \in Slot : Book!Free(s) => Book!Free(s)'
  <2>1. NoSlot \notin Slot  BY NullAssumption DEF Slot
  <2> QED  BY <1>1, <2>1 DEF Book!Free
<1>4. RoomsHold' /\ WindowHolds' /\ NothingShown'
  BY <1>1 DEF IInv, RoomsHold, WindowHolds, NothingShown
<1>5. OffersHold'
  <2>1. \A c \in Readers : ask[c].free \subseteq Slot  BY DEF IInv, TypeOK, Ask
  <2> QED  BY <1>1, <1>3, <2>1 DEF IInv, OffersHold
<1> QED  BY <1>2, <1>4, <1>5 DEF IInv

LEMMA SetRoomStep ==
    ASSUME IInv, NEW r \in Rooms, SetRoom(r)
    PROVE  IInv'
<1> DEFINE S == {s \in Slot : s.room = r}
<1>1. Note(S) /\ UNCHANGED <<now, at, ended, ask>> /\ open' \in {open \cup {r}, open \ {r}}
  BY DEF SetRoom, book
<1>2. \A s \in Slot : s.room \in open => s.room \in open' \/ s \in S  BY <1>1
<1>3. \A s \in Slot : Book!Free(s) => Book!Free(s)' \/ s \in S  BY <1>1 DEF Book!Free
<1>4. \A s \in Slot : ~IsSlotPast(s.day, s.hour, now)
                        => ~IsSlotPast(s.day, s.hour, now') \/ s \in S
  BY <1>1
<1>5. /\ now' \in Instants /\ now <= now' /\ open' \subseteq Rooms
      /\ at' \in [Bookings -> Slot \cup {NoSlot}] /\ ended' \subseteq Bookings
  BY <1>1, NumbersAssumption DEF IInv, TypeOK
<1>6. S \in SUBSET Slot  OBVIOUS
<1> HIDE DEF S
<1> QED  BY <1>1, <1>2, <1>3, <1>4, <1>5, <1>6, OthersStep

LEMMA TickStep ==
    ASSUME IInv, NEW t \in Instants, Tick(t)
    PROVE  IInv'
<1> DEFINE S == {s \in Slot : IsSlotPast(s.day, s.hour, t) /\ ~IsSlotPast(s.day, s.hour, now)}
<1>1. Note(S) /\ UNCHANGED <<open, at, ended, ask>> /\ now' = t /\ t > now
  BY DEF Tick, book
<1>2. \A s \in Slot : Book!Free(s) => Book!Free(s)' \/ s \in S  BY <1>1 DEF Book!Free
<1>3. \A s \in Slot : ~IsSlotPast(s.day, s.hour, now)
                        => ~IsSlotPast(s.day, s.hour, now') \/ s \in S
  BY <1>1
<1>4. /\ now' \in Instants /\ now <= now' /\ open' \subseteq Rooms
      /\ at' \in [Bookings -> Slot \cup {NoSlot}] /\ ended' \subseteq Bookings
  BY <1>1, NumbersAssumption DEF IInv, TypeOK
<1>5. S \in SUBSET Slot /\ \A s \in Slot : s.room \in open => s.room \in open' \/ s \in S
  BY <1>1
<1> HIDE DEF S
<1> QED  BY <1>1, <1>2, <1>3, <1>4, <1>5, OthersStep

LEMMA StepHolds == IInv /\ [Next]_vars => IInv'
<1> SUFFICES ASSUME IInv, [Next]_vars PROVE IInv'  OBVIOUS
<1>1. CASE UNCHANGED vars
  BY <1>1 DEF vars, IInv, TypeOK, RoomsHold, WindowHolds, OffersHold, NothingShown, Book!Free
<1>2. CASE Next
  BY <1>2, ReadersStep, TakeStep, ReleaseStep, SetRoomStep, TickStep DEF Next
<1> QED  BY <1>1, <1>2

LEMMA Invariance == Spec => []IInv
  BY InitHolds, StepHolds, PTL DEF Spec

--------------------------------------------------------------------------------

\* Type correctness of a request for availability and of the book it reads.
THEOREM TypesHold == Spec => []TypeOK
<1>1. IInv => TypeOK  BY DEF IInv
<1> QED  BY <1>1, Invariance, PTL

\* A slot that GET /availability offered can be booked until it is taken, its room is
\* switched or it starts: however the two queries and the clock fall between the
\* bookings, and whichever midnight passes meanwhile.
THEOREM OffersStayGood == Spec => []OfferHolds
  BY Enough, Invariance, PTL
====
