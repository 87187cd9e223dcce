---- MODULE ReservationsProofs ----
(* Proofs about Reservations, for every number of accounts, rooms, slots,     *)
(* reservations, handlers and requests, and for each of the two layers of the *)
(* defence against double booking by itself.                                  *)
EXTENDS Reservations, TLAPS

\* What every handler holds at each of its steps.
CallOK(c, t) ==
    /\ c \in Call
    /\ c.step # "idle" =>
        /\ c.req \in Requests
        /\ c.req.kind \in RowKinds \cup {"create"} => c.id \in ResIds
        /\ c.step = "read" => c.req.kind \in RowKinds \cup {"removeUser"}
        /\ c.step \in {"room", "people", "begin", "clash"} => c.req.kind \in Bookers
        /\ c.step # "read" /\ c.req.kind \in Bookers => c.goal \in Slot /\ Fits(c.goal, t)

\* What the table holds for a reservation that is stored.
RowOK(row, t) ==
    /\ row \in Row
    /\ row.status \in {"active", "cancelled", "deleted"} =>
        row.userId \in Users /\ row.slot \in Slot /\ Fits(row.slot, t)
    /\ row.status \in {"absent", "gone"} => row.userId = NoUser

RowsOK ==
    /\ DOMAIN res = ResIds /\ res = [r \in ResIds |-> res[r]]
    /\ \A r \in ResIds : RowOK(res[r], now)

CallsOK ==
    /\ DOMAIN call = Handlers /\ call = [q \in Handlers |-> call[q]]
    /\ \A q \in Handlers : CallOK(call[q], now)

TypeInv ==
    /\ now \in Instants /\ users \subseteq Users /\ open \subseteq Rooms
    /\ audit \subseteq Entry /\ tx \in Handlers \cup {NoHandler}
    /\ RowsOK /\ CallsOK

\* The checks made when a slot is asked for stay true as time passes.
LEMMA FitsLater ==
    ASSUME NEW slot \in Slot, NEW t \in Instants, NEW u \in Instants, t <= u, Fits(slot, t)
    PROVE  Fits(slot, u)
<1>1. slot.day \in Nat /\ t \in Nat /\ u \in Nat
  BY NumbersAssumption DEF Slot
<1>2. Today(t) \in Int /\ Today(u) \in Int /\ Today(t) <= Today(u)
  BY <1>1 DEF Today, HoursPerDay
<1>3. QED
  BY <1>1, <1>2, WindowAssumption DEF Fits

LEMMA BookableFits ==
    ASSUME NEW slot, NEW t, Bookable(slot, t)
    PROVE  Fits(slot, t)
BY DEF Bookable, Fits, IsWithinBookingWindow

\* A partial request completed from a slot is a slot.
LEMMA FillInType ==
    ASSUME NEW part \in PartialSlot, NEW slot \in Slot
    PROVE  FillIn(part, slot) \in Slot
BY DEF FillIn, PartialSlot, Slot

LEMMA SlotIsPartial == Slot \subseteq PartialSlot
BY DEF Slot, PartialSlot

\* A handler that changes only its own record, to one that is in order.
LEMMA OwnCall ==
    ASSUME TypeInv, NEW q \in Handlers, NEW c, CallOK(c, now), now' = now,
           call' = [call EXCEPT ![q] = c]
    PROVE  CallsOK'
BY DEF TypeInv, CallsOK

LEMMA IdleOK == \A t : CallOK(Idle, t)
BY DEF CallOK, Idle, Call, Steps

\* Answering and committing keep the lock variable in its type.
LEMMA AnswerType ==
    ASSUME TypeInv, NEW q \in Handlers, Answer(q), now' = now
    PROVE  tx' \in Handlers \cup {NoHandler} /\ CallsOK'
<1>1. tx' \in Handlers \cup {NoHandler}
  BY DEF TypeInv, Answer
<1>2. QED
  BY <1>1, IdleOK, OwnCall DEF Answer

\* A handler that only moves on to a step its request passes through.
LEMMA GotoType ==
    ASSUME TypeInv, NEW q \in Handlers, NEW s \in Steps, Goto(q, s), now' = now,
           call[q].step # "idle", s \notin {"idle", "read"},
           s \in {"room", "people", "begin", "clash"} => Doing(q, Bookers),
           call[q].step # "read" \/ ~Doing(q, {"reschedule", "create"})
    PROVE  CallsOK'
<1> DEFINE c == [call[q] EXCEPT !.step = s]
<1>1. CallOK(call[q], now) /\ call[q] \in Call
  BY DEF TypeInv, CallsOK, CallOK
<1>2. c \in Call /\ c.req = call[q].req /\ c.id = call[q].id /\ c.goal = call[q].goal /\ c.step = s
  BY <1>1 DEF Call
<1>3. CallOK(c, now)
  BY <1>1, <1>2 DEF CallOK, Doing, Bookers
<1>4. call' = [call EXCEPT ![q] = c]
  BY DEF Goto
<1>5. QED
  BY <1>3, <1>4, OwnCall

\* A step that touches no table keeps their types.
LEMMA TablesKept ==
    ASSUME TypeInv, UNCHANGED <<now, users, open, res, audit>>,
           tx' \in Handlers \cup {NoHandler}, CallsOK'
    PROVE  TypeInv'
BY DEF TypeInv, RowsOK

\* The arrival of a request.
LEMMA ReceivingType ==
    ASSUME TypeInv, NEW q \in Handlers, NEW req \in Requests, Receiving(q, req)
    PROVE  TypeInv'
<1>1. req \in Request /\ (req.kind \in RowKinds => req.id \in ResIds)
      /\ (req.kind = "create" => req.slot \in Slot)
  BY RequestsAssumption
<1>2. ASSUME NEW step \in Steps, NEW id, NEW goal, Receive(q, req, step, id, goal),
             CallOK([step |-> step, req |-> req, id |-> id, goal |-> goal], now)
      PROVE  TypeInv'
  <2>1. CallsOK'
    BY <1>2, OwnCall DEF Receive
  <2>2. QED
    BY <1>2, <2>1, TablesKept DEF Receive, TypeInv
<1>3. CASE ReceiveCreate(q, req)
  <2>1. PICK r \in ResIds : Receive(q, req, "room", r, req.slot)
    BY <1>3 DEF ReceiveCreate
  <2>2. req.slot \in Slot /\ Fits(req.slot, now) /\ req.slot \in PartialSlot
    BY <1>1, <1>3, BookableFits, SlotIsPartial DEF ReceiveCreate
  <2>3. CallOK([step |-> "room", req |-> req, id |-> r, goal |-> req.slot], now)
    BY <1>3, <2>2 DEF CallOK, Call, Steps, Bookers, ReceiveCreate
  <2>4. QED
    BY <1>2, <2>1, <2>3 DEF Steps
<1>4. CASE ReceiveOnRow(q, req)
  <2>1. CallOK([step |-> "read", req |-> req, id |-> req.id, goal |-> NoSlot], now)
    BY <1>1, <1>4 DEF CallOK, Call, Steps, ReceiveOnRow
  <2>2. QED
    BY <1>2, <1>4, <2>1 DEF Steps, ReceiveOnRow
<1>5. CASE ReceiveRemoveUser(q, req)
  <2>1. CallOK([step |-> "read", req |-> req, id |-> NoRes, goal |-> NoSlot], now)
    BY <1>1, <1>5 DEF CallOK, Call, Steps, ReceiveRemoveUser, RowKinds
  <2>2. QED
    BY <1>2, <1>5, <2>1 DEF Steps, ReceiveRemoveUser
<1>6. CASE ReceiveSetRoom(q, req)
  <2>1. CallOK([step |-> "write", req |-> req, id |-> NoRes, goal |-> NoSlot], now)
    BY <1>1, <1>6 DEF CallOK, Call, Steps, ReceiveSetRoom, RowKinds, Bookers
  <2>2. QED
    BY <1>2, <1>6, <2>1 DEF Steps, ReceiveSetRoom
<1>7. QED
  BY <1>3, <1>4, <1>5, <1>6 DEF Receiving

\* findUnique of cancel, update, reject and remove.
LEMMA ReadReservationType ==
    ASSUME TypeInv, NEW q \in Handlers, ReadReservation(q)
    PROVE  TypeInv'
<1> DEFINE req == call[q].req
           id == call[q].id
           goal == FillIn(req.slot, res[id].slot)
<1>1. /\ CallOK(call[q], now) /\ call[q].step = "read" /\ req.kind \in RowKinds
      /\ req \in Request /\ id \in ResIds /\ RowOK(res[id], now)
  BY RequestsAssumption DEF TypeInv, CallsOK, RowsOK, CallOK, ReadReservation, At, Doing
<1>2. CASE Answer(q)
  BY <1>2, AnswerType, TablesKept DEF ReadReservation
<1>3. CASE MayGoOn(req, res[id]) /\ req.kind = "reschedule" /\ tx' = tx
           /\ call' = [call EXCEPT ![q].step = "room", ![q].goal = goal]
  <2> DEFINE c == [call[q] EXCEPT !.step = "room", !.goal = goal]
  <2>1. goal \in Slot /\ Fits(goal, now) /\ goal \in PartialSlot
    BY <1>1, <1>3, FillInType, SlotIsPartial, BookableFits DEF MayGoOn, RowOK, Request
  <2> HIDE DEF goal
  <2>2. c \in Call /\ c.step = "room" /\ c.goal = goal /\ c.req = call[q].req /\ c.id = call[q].id
    BY <1>1, <2>1 DEF CallOK, Call, Steps
  <2>3. CallOK(c, now)
    BY <1>1, <1>3, <2>1, <2>2 DEF CallOK, Bookers
  <2>4. call' = [call EXCEPT ![q] = c]
    BY <1>3
  <2> HIDE DEF c
  <2>5. CallsOK'
    BY <2>3, <2>4, OwnCall DEF ReadReservation
  <2>6. QED
    BY <1>3, <2>5, TablesKept DEF ReadReservation, TypeInv
<1>4. CASE Goto(q, "write") /\ req.kind # "reschedule" /\ tx' = tx
  <2>1. CallsOK'
    BY <1>1, <1>4, GotoType DEF ReadReservation, Doing, RowKinds, Steps, Bookers
  <2>2. QED
    BY <1>4, <2>1, TablesKept DEF ReadReservation, TypeInv
<1>5. QED
  BY <1>2, <1>3, <1>4 DEF ReadReservation, Goto

\* The steps of a booking between the first checks and the write.
LEMMA BookingStepsType ==
    ASSUME TypeInv, NEW q \in Handlers,
           FindRoom(q) \/ BuildParticipants(q) \/ BeginTransaction(q) \/ FindClash(q)
    PROVE  TypeInv'
<1>1. /\ CallOK(call[q], now) /\ call[q].step \in {"room", "people", "begin", "clash"}
      /\ Doing(q, Bookers)
  BY DEF TypeInv, CallsOK, CallOK, FindRoom, BuildParticipants, BeginTransaction, FindClash, At, Doing
<1>2. UNCHANGED <<now, users, open, res, audit>>
  BY DEF FindRoom, BuildParticipants, BeginTransaction, FindClash
<1>3. CASE Answer(q)
  BY <1>2, <1>3, AnswerType, TablesKept
<1>4. ASSUME NEW s \in {"people", "begin", "clash", "write"}, Goto(q, s),
             tx' \in Handlers \cup {NoHandler}
      PROVE  TypeInv'
  <2>1. CallsOK'
    BY <1>1, <1>2, <1>4, GotoType DEF Steps
  <2>2. QED
    BY <1>2, <1>4, <2>1, TablesKept
<1>5. tx \in Handlers \cup {NoHandler}
  BY DEF TypeInv
<1>6. QED
  BY <1>3, <1>4, <1>5 DEF FindRoom, BuildParticipants, BeginTransaction, FindClash

\* What a handler at its write may do with the lock and its own record.
LEMMA CommittedType ==
    ASSUME TypeInv, NEW q \in Handlers, At(q, "write"), Committed(q), now' = now
    PROVE  tx' \in Handlers \cup {NoHandler} /\ CallsOK'
<1>1. tx' \in Handlers \cup {NoHandler}
  BY DEF TypeInv, Committed
<1>2. CallsOK'
  BY GotoType DEF Committed, At, Steps
<1>3. QED
  BY <1>1, <1>2

\* The writes, each with its audit entry still to come.
LEMMA WritesType ==
    ASSUME TypeInv, NEW q \in Handlers,
           CreateRow(q) \/ RescheduleRow(q) \/ UpdateStatus(q) \/ EditRow(q)
    PROVE  TypeInv'
<1> DEFINE req == call[q].req
           id == call[q].id
           goal == call[q].goal
<1>1. /\ CallOK(call[q], now) /\ At(q, "write") /\ req \in Request /\ id \in ResIds
      /\ RowOK(res[id], now) /\ (req.kind \in Bookers => goal \in Slot /\ Fits(goal, now))
  BY RequestsAssumption DEF TypeInv, CallsOK, RowsOK, CallOK, CreateRow, RescheduleRow,
     UpdateStatus, EditRow, CanWrite, At, Doing, RowKinds
<1>2. UNCHANGED <<now, users, open, audit>>
  BY DEF CreateRow, RescheduleRow, UpdateStatus, EditRow
<1>3. tx' \in Handlers \cup {NoHandler} /\ CallsOK'
  BY <1>1, <1>2, AnswerType, CommittedType DEF CreateRow, RescheduleRow, UpdateStatus, EditRow
<1>4. ASSUME NEW row, res' = [res EXCEPT ![id] = row], RowOK(row, now)
      PROVE  RowsOK'
  BY <1>1, <1>2, <1>4 DEF TypeInv, RowsOK
<1>5. RowsOK'
  <2>1. CASE res' = res
    BY <1>2, <2>1 DEF TypeInv, RowsOK
  <2>2. CASE CreateRow(q) /\ res' # res
    <3> DEFINE row == [status |-> "active", userId |-> req.by, slot |-> goal, people |-> req.mentions]
    <3>1. res' = [res EXCEPT ![id] = row] /\ req.kind = "create"
      BY <2>2 DEF CreateRow, Doing
    <3>2. RowOK(row, now)
      BY <1>1, <3>1 DEF RowOK, Row, Statuses, Request, Bookers
    <3>3. QED
      BY <1>4, <3>1, <3>2
  <2>3. CASE RescheduleRow(q) /\ res' # res
    <3> DEFINE row == [res[id] EXCEPT !.slot = goal]
    <3>1. res' = [res EXCEPT ![id] = row] /\ req.kind = "reschedule"
      BY <2>3 DEF RescheduleRow, Doing
    <3>2. RowOK(row, now)
      BY <1>1, <3>1 DEF RowOK, Row, Bookers
    <3>3. QED
      BY <1>4, <3>1, <3>2
  <2>4. CASE UpdateStatus(q) /\ res' # res
    <3>1. PICK status \in {"deleted", "cancelled"} : res' = [res EXCEPT ![id].status = status]
      BY <2>4 DEF UpdateStatus
    <3> DEFINE row == [res[id] EXCEPT !.status = status]
    <3>2. Stored(id)
      BY <2>4 DEF UpdateStatus
    <3>3. RowOK(row, now)
      BY <1>1, <3>2 DEF RowOK, Row, Statuses, Stored
    <3>4. res' = [res EXCEPT ![id] = row]
      BY <3>1
    <3>5. QED
      BY <1>4, <3>3, <3>4
  <2>5. QED
    BY <2>1, <2>2, <2>3, <2>4 DEF EditRow, CreateRow, RescheduleRow, UpdateStatus
<1>6. QED
  BY <1>2, <1>3, <1>5 DEF TypeInv

\* The cascade of a removed account.
LEMMA DeleteUserType ==
    ASSUME TypeInv, NEW q \in Handlers, DeleteUser(q)
    PROVE  TypeInv'
<1> DEFINE u == call[q].req.whom
<1>1. At(q, "write") /\ UNCHANGED <<now, open>>
  BY DEF DeleteUser, CanWrite
<1>2. tx' \in Handlers \cup {NoHandler} /\ CallsOK'
  BY <1>1, AnswerType, CommittedType DEF DeleteUser
<1>3. CASE UNCHANGED <<users, res, audit>>
  BY <1>1, <1>2, <1>3, TablesKept
<1>4. CASE u \in users /\ ~UNCHANGED <<users, res, audit>>
  <2>1. /\ users' = users \ {u}
        /\ res' = [r \in ResIds |->
              IF res[r].userId = u THEN NoRow("gone")
              ELSE [res[r] EXCEPT !.people = Forget(u, @)]]
        /\ audit' = {[e EXCEPT !.actor = IF @ = u THEN NoUser ELSE @] : e \in audit}
    BY <1>4 DEF DeleteUser
  <2>2. audit' \subseteq Entry
    BY <2>1 DEF TypeInv, Entry
  <2>3. ASSUME NEW r \in ResIds PROVE RowOK(res'[r], now)
    <3>1. RowOK(res[r], now) /\ res[r] \in Row
      BY DEF TypeInv, RowsOK, RowOK
    <3>2. RowOK(NoRow("gone"), now)
      BY DEF RowOK, NoRow, Row, Statuses
    <3>3. Forget(u, res[r].people) \in SUBSET (Users \cup {NoUser})
      BY <3>1 DEF Forget, Row
    <3> DEFINE row == [res[r] EXCEPT !.people = Forget(u, @)]
    <3>4. row \in Row /\ row.status = res[r].status /\ row.userId = res[r].userId
          /\ row.slot = res[r].slot
      BY <3>1, <3>3 DEF Row
    <3>5. RowOK(row, now)
      BY <3>1, <3>4 DEF RowOK
    <3>6. QED
      BY <2>1, <3>2, <3>5
  <2>4. RowsOK'
    BY <1>1, <2>1, <2>3 DEF RowsOK
  <2>5. QED
    BY <1>1, <1>2, <2>1, <2>2, <2>4 DEF TypeInv
<1>5. QED
  BY <1>3, <1>4 DEF DeleteUser

\* The remaining steps of handlers.
LEMMA OtherStepsType ==
    ASSUME TypeInv, NEW q \in Handlers,
           FindUser(q) \/ SetRoomActive(q) \/ LogAudit(q) \/ WaitTimeout(q) \/ DatabaseError(q)
    PROVE  TypeInv'
<1>1. CallOK(call[q], now) /\ (~At(q, "idle") => call[q].req \in Request)
  BY RequestsAssumption DEF TypeInv, CallsOK, CallOK, At
<1>2. CASE FindUser(q)
  <2>1. CASE Answer(q)
    BY <1>2, <2>1, AnswerType, TablesKept DEF FindUser
  <2>2. CASE Goto(q, "write") /\ UNCHANGED tx
    <3>1. CallsOK'
      BY <1>2, <2>2, GotoType DEF FindUser, At, Doing, Steps
    <3>2. QED
      BY <1>2, <2>2, <3>1, TablesKept DEF FindUser, TypeInv
  <2>3. QED
    BY <1>2, <2>1, <2>2 DEF FindUser
<1>3. CASE SetRoomActive(q)
  <2>1. call[q].req.slot.room \in Rooms
    BY <1>1, <1>3, RequestsAssumption DEF SetRoomActive, CanWrite, At, Doing, CallOK
  <2>2. open' \subseteq Rooms
    BY <1>3, <2>1 DEF SetRoomActive, TypeInv
  <2>3. QED
    BY <1>3, <2>2, AnswerType DEF SetRoomActive, TypeInv, RowsOK
<1>4. CASE LogAudit(q)
  <2>1. audit' \subseteq Entry
    BY <1>1, <1>4 DEF LogAudit, TypeInv, Entry, Request, CallOK, Call, At
  <2>2. QED
    BY <1>4, <2>1, AnswerType DEF LogAudit, TypeInv, RowsOK
<1>5. CASE WaitTimeout(q) \/ DatabaseError(q)
  BY <1>5, AnswerType, TablesKept DEF WaitTimeout, DatabaseError
<1>6. QED
  BY <1>2, <1>3, <1>4, <1>5

LEMMA RestartType ==
    ASSUME TypeInv, Restart
    PROVE  TypeInv'
BY IdleOK, TablesKept DEF Restart, CallsOK

\* Time passing: what was bookable by the window's far end stays so.
LEMMA TickType ==
    ASSUME TypeInv, Tick
    PROVE  TypeInv'
<1>1. now \in Instants /\ now' \in Instants /\ now <= now'
  BY NumbersAssumption DEF TypeInv, Tick
<1>2. ASSUME NEW slot \in Slot, Fits(slot, now) PROVE Fits(slot, now')
  BY <1>1, <1>2, FitsLater
<1>3. RowsOK'
  BY <1>2 DEF TypeInv, RowsOK, RowOK, Tick
<1>4. CallsOK'
  BY <1>2 DEF TypeInv, CallsOK, CallOK, Tick
<1>5. QED
  BY <1>1, <1>3, <1>4 DEF TypeInv, Tick

LEMMA InitType == Init => TypeInv
BY IdleOK DEF Init, TypeInv, RowsOK, CallsOK, RowOK, NoRow, Row, Statuses

\* Every step keeps the tables, the lock and the handlers' records in their types.
LEMMA TypeStep == TypeInv /\ [Next]_vars => TypeInv'
<1> SUFFICES ASSUME TypeInv, [Next]_vars PROVE TypeInv'
  OBVIOUS
<1>1. CASE UNCHANGED vars
  BY <1>1 DEF vars, TypeInv, RowsOK, CallsOK
<1>2. CASE \E q \in Handlers, req \in Requests : Receiving(q, req)
  BY <1>2, ReceivingType
<1>3. ASSUME NEW q \in Handlers, Advance(q) \/ DatabaseError(q) PROVE TypeInv'
  BY <1>3, ReadReservationType, BookingStepsType, WritesType, DeleteUserType, OtherStepsType
     DEF Advance
<1>4. QED
  BY <1>1, <1>2, <1>3, RestartType, TickType DEF Next

LEMMA AlwaysTyped == Spec => []TypeInv
BY InitType, TypeStep, PTL DEF Spec

LEMMA TypesImply == TypeInv => TypeOK /\ StoredSlotsBookable
BY DEF TypeInv, RowsOK, CallsOK, RowOK, CallOK, TypeOK, StoredSlotsBookable, Stored

\* Type correctness, for all values of the constants.
THEOREM TypeCorrect == Spec => []TypeOK
BY AlwaysTyped, TypesImply, PTL

\* Whatever is booked or moved, and from whichever partial request a
\* reschedule's slot was completed: no stored reservation leaves the weekdays,
\* the hours or the window (StoredSlotsBookable).
THEOREM SlotsStayBookable == Spec => []StoredSlotsBookable
BY AlwaysTyped, TypesImply, PTL

----------------------------------------------------------------------------
(* No double booking.                                                        *)

\* Under SerialTx a handler between its clash check and its write owns the lock.
Claiming(q) == At(q, "clash") \/ (At(q, "write") /\ Doing(q, Bookers))
LockInv == SerialTx => \A q \in Handlers : Claiming(q) => tx = q

\* A step by which q puts its reservation into the slot it asked for, and a
\* step by which no reservation enters a slot.
Claims(q) ==
    /\ CanWrite(q) /\ Doing(q, Bookers)
    /\ \A r \in ResIds : r # call[q].id => res'[r] = res[r]
    /\ res'[call[q].id].slot = call[q].goal
    /\ res'[call[q].id].status = "active" => ~TakenInIndex(call[q].goal, call[q].id)
Vacates == \A r \in ResIds : Active(r)' => Active(r) /\ res'[r].slot = res[r].slot

\* Only creating and rescheduling enter slots.
LEMMA ClaimsOrVacates ==
    ASSUME TypeInv, [Next]_vars
    PROVE  (\E q \in Handlers : Claims(q)) \/ Vacates
<1>1. CASE UNCHANGED res
  BY <1>1 DEF Vacates, Active
<1>2. ASSUME NEW q \in Handlers, CreateRow(q), ~UNCHANGED res PROVE Claims(q)
  <2>1. call[q].id \in ResIds
    BY <1>2 DEF TypeInv, CallsOK, CallOK, CreateRow, CanWrite, At, Doing
  <2>2. QED
    BY <1>2, <2>1 DEF TypeInv, RowsOK, Claims, CreateRow, Doing, Bookers
<1>3. ASSUME NEW q \in Handlers, RescheduleRow(q), ~UNCHANGED res PROVE Claims(q)
  <2>1. call[q].id \in ResIds
    BY <1>3 DEF TypeInv, CallsOK, CallOK, RescheduleRow, CanWrite, At, Doing, RowKinds
  <2>2. res[call[q].id] \in Row
    BY <2>1 DEF TypeInv, RowsOK, RowOK
  <2> DEFINE row == [res[call[q].id] EXCEPT !.slot = call[q].goal]
  <2>3. row.slot = call[q].goal /\ row.status = res[call[q].id].status
    BY <2>2 DEF Row
  <2>4. res' = [res EXCEPT ![call[q].id] = row] /\ (Active(call[q].id) => ~TakenInIndex(call[q].goal, call[q].id))
    BY <1>3 DEF RescheduleRow
  <2> HIDE DEF row
  <2>5. QED
    BY <1>3, <2>1, <2>3, <2>4 DEF TypeInv, RowsOK, Claims, RescheduleRow, Doing, Bookers, Active
<1>4. ASSUME NEW q \in Handlers, UpdateStatus(q), ~UNCHANGED res PROVE Vacates
  <2>1. PICK status \in {"deleted", "cancelled"} : res' = [res EXCEPT ![call[q].id].status = status]
    BY <1>4 DEF UpdateStatus
  <2>2. ASSUME NEW r \in ResIds, Active(r)' PROVE r # call[q].id /\ res'[r] = res[r]
    BY <2>1, <2>2 DEF Active, TypeInv, RowsOK, RowOK, Row
  <2>3. QED
    BY <2>2 DEF Vacates, Active
<1>5. ASSUME NEW q \in Handlers, DeleteUser(q), ~UNCHANGED res PROVE Vacates
  <2>1. \A r \in ResIds : res[r] \in Row
    BY DEF TypeInv, RowsOK, RowOK
  <2>2. ASSUME NEW r \in ResIds, Active(r)' PROVE Active(r) /\ res'[r].slot = res[r].slot
    <3> DEFINE S == Forget(call[q].req.whom, res[r].people)
    <3>1. res'[r] = NoRow("gone") \/ res'[r] = [res[r] EXCEPT !.people = S]
      BY <1>5 DEF DeleteUser
    <3> HIDE DEF S
    <3>2. NoRow("gone").status # "active"
      BY DEF NoRow
    <3>3. res'[r].status = "active"
      BY <2>2 DEF Active
    <3>4. res'[r] = [res[r] EXCEPT !.people = S]
      BY <3>1, <3>2, <3>3
    <3>5. QED
      BY <2>1, <3>3, <3>4 DEF Active, Row
  <2>3. QED
    BY <2>2 DEF Vacates
<1>6. UNCHANGED res \/ \E q \in Handlers :
          CreateRow(q) \/ RescheduleRow(q) \/ UpdateStatus(q) \/ DeleteUser(q)
  BY DEF Next, vars, Receiving, ReceiveCreate, ReceiveOnRow, ReceiveRemoveUser, ReceiveSetRoom,
     Receive, Advance, ReadReservation, FindRoom, BuildParticipants, BeginTransaction, FindClash,
     EditRow, FindUser, SetRoomActive, LogAudit, WaitTimeout, DatabaseError, Restart, Tick
<1>7. QED
  BY <1>1, <1>2, <1>3, <1>4, <1>5, <1>6

\* The lock passes only from nobody to a handler that begins, and back.
LEMMA LockStep ==
    ASSUME TypeInv, LockInv, [Next]_vars
    PROVE  LockInv'
<1> SUFFICES ASSUME SerialTx, NEW p \in Handlers, Claiming(p)' PROVE tx' = p
  BY DEF LockInv
<1>0. \A q \in Handlers : Claiming(q) => tx = q
  BY DEF LockInv
<1>1. DOMAIN call = Handlers /\ \A q \in Handlers : call[q] \in Call
  BY DEF TypeInv, CallsOK, CallOK
<1>2. ASSUME NEW q \in Handlers, Answer(q) PROVE tx' = p
  BY <1>0, <1>1, <1>2 DEF Answer, Claiming, At, Doing, Idle
<1>3. ASSUME NEW q \in Handlers, Committed(q) PROVE tx' = p
  BY <1>0, <1>1, <1>3 DEF Committed, Goto, Claiming, At, Doing, Call
<1>4. ASSUME NEW q \in Handlers, NEW s \in Steps, Goto(q, s), UNCHANGED tx,
             s = "clash" => Claiming(q),
             s = "write" => Claiming(q) \/ ~Doing(q, Bookers)
      PROVE  tx' = p
  <2>1. CASE p = q
    BY <1>0, <1>1, <1>4, <2>1 DEF Goto, Claiming, At, Doing, Call
  <2>2. CASE p # q
    BY <1>0, <1>1, <1>4, <2>2 DEF Goto, Claiming, At, Doing
  <2>3. QED
    BY <2>1, <2>2
<1>5. ASSUME NEW q \in Handlers, NEW req \in Requests, Receiving(q, req) PROVE tx' = p
  <2>1. PICK step, id, goal : /\ Receive(q, req, step, id, goal)
                              /\ step # "clash" /\ (step = "write" => req.kind = "setRoom")
    BY <1>5 DEF Receiving, ReceiveCreate, ReceiveOnRow, ReceiveRemoveUser, ReceiveSetRoom
  <2>2. p # q /\ call'[p] = call[p] /\ tx' = tx
    BY <1>1, <2>1 DEF Receive, Claiming, At, Doing, Bookers
  <2>3. QED
    BY <1>0, <2>2 DEF Claiming, At, Doing
<1>6. ASSUME NEW q \in Handlers, BeginTransaction(q) PROVE tx' = p
  BY <1>0, <1>1, <1>6, NullsAssumption DEF BeginTransaction, Goto, Claiming, At, Doing
<1>7. ASSUME NEW q \in Handlers, ReadReservation(q) PROVE tx' = p
  <2>1. CASE Answer(q)
    BY <1>2, <2>1
  <2>2. CASE call[q].req.kind = "reschedule" /\ tx' = tx
             /\ \E goal : call' = [call EXCEPT ![q].step = "room", ![q].goal = goal]
    BY <1>0, <1>1, <2>2 DEF Claiming, At, Doing, Call
  <2>3. CASE call[q].req.kind # "reschedule" /\ Goto(q, "write") /\ tx' = tx
    BY <1>4, <1>7, <2>3 DEF ReadReservation, Doing, Bookers, RowKinds, Steps
  <2>4. QED
    BY <1>7, <2>1, <2>2, <2>3 DEF ReadReservation, Goto
<1>8. ASSUME NEW q \in Handlers, FindRoom(q) \/ BuildParticipants(q) \/ FindClash(q) \/ FindUser(q)
      PROVE  tx' = p
  <2>1. \/ Answer(q)
        \/ UNCHANGED tx /\ \E s \in {"people", "begin"} : Goto(q, s)
        \/ UNCHANGED tx /\ Goto(q, "write") /\ (Claiming(q) \/ ~Doing(q, Bookers))
    BY <1>8 DEF FindRoom, BuildParticipants, FindClash, FindUser, Claiming, Doing, Bookers
  <2>2. QED
    BY <1>2, <1>4, <2>1 DEF Steps
<1>9. ASSUME NEW q \in Handlers,
             CreateRow(q) \/ RescheduleRow(q) \/ UpdateStatus(q) \/ EditRow(q) \/ DeleteUser(q)
             \/ SetRoomActive(q) \/ LogAudit(q) \/ WaitTimeout(q) \/ DatabaseError(q)
      PROVE  tx' = p
  <2>1. Answer(q) \/ Committed(q)
    BY <1>9 DEF CreateRow, RescheduleRow, UpdateStatus, EditRow, DeleteUser, SetRoomActive,
       LogAudit, WaitTimeout, DatabaseError
  <2>2. QED
    BY <1>2, <1>3, <2>1
<1>10. CASE Restart
  BY <1>10 DEF Restart, Claiming, At, Doing, Idle
<1>11. CASE UNCHANGED <<tx, call>>
  BY <1>0, <1>11 DEF Claiming, At, Doing
<1>12. QED
  BY <1>5, <1>6, <1>7, <1>8, <1>9, <1>10, <1>11 DEF Next, vars, Advance, Tick

\* A booking reaches its write through the clash check only.
LEMMA WriteAfterClashCheck ==
    ASSUME TypeInv, [Next]_vars, NEW p \in Handlers, At(p, "write")', Doing(p, Bookers)'
    PROVE  call'[p] = call[p] \/ (FindClash(p) /\ Goto(p, "write") /\ UNCHANGED tx)
<1>1. DOMAIN call = Handlers /\ \A q \in Handlers : call[q] \in Call
  BY DEF TypeInv, CallsOK, CallOK
<1>2. call'[p].step = "write" /\ call'[p].req.kind \in Bookers
  BY DEF At, Doing
<1>3. ASSUME NEW q \in Handlers, Answer(q) PROVE call'[p] = call[p]
  BY <1>1, <1>2, <1>3 DEF Answer, Idle
<1>4. ASSUME NEW q \in Handlers, NEW s \in Steps, Goto(q, s), s # "write" \/ ~Doing(q, Bookers)
      PROVE  call'[p] = call[p]
  BY <1>1, <1>2, <1>4 DEF Goto, Doing, Call
<1>5. ASSUME NEW q \in Handlers, NEW req \in Requests, Receiving(q, req) PROVE call'[p] = call[p]
  <2>1. PICK step, id, goal : /\ Receive(q, req, step, id, goal)
                              /\ step = "write" => req.kind = "setRoom"
    BY <1>5 DEF Receiving, ReceiveCreate, ReceiveOnRow, ReceiveRemoveUser, ReceiveSetRoom
  <2>2. QED
    BY <1>1, <1>2, <2>1 DEF Receive, Bookers
<1>6. ASSUME NEW q \in Handlers, ReadReservation(q) PROVE call'[p] = call[p]
  <2>1. CASE Answer(q)
    BY <1>3, <2>1
  <2>2. CASE \E goal : call' = [call EXCEPT ![q].step = "room", ![q].goal = goal]
    BY <1>1, <1>2, <2>2 DEF Call
  <2>3. CASE call[q].req.kind # "reschedule" /\ Goto(q, "write")
    BY <1>4, <1>6, <2>3 DEF ReadReservation, Doing, Bookers, RowKinds, Steps
  <2>4. QED
    BY <1>6, <2>1, <2>2, <2>3 DEF ReadReservation, Goto
<1>7. ASSUME NEW q \in Handlers, FindClash(q)
      PROVE  call'[p] = call[p] \/ (FindClash(p) /\ Goto(p, "write") /\ UNCHANGED tx)
  <2>1. CASE Answer(q)
    BY <1>3, <2>1
  <2>2. CASE Goto(q, "write") /\ UNCHANGED tx
    BY <1>1, <1>7, <2>2 DEF Goto
  <2>3. QED
    BY <1>7, <2>1, <2>2 DEF FindClash
<1>8. ASSUME NEW q \in Handlers, FindRoom(q) \/ BuildParticipants(q) \/ BeginTransaction(q) \/ FindUser(q)
      PROVE  call'[p] = call[p]
  <2>1. \/ Answer(q)
        \/ \E s \in {"people", "begin", "clash"} : Goto(q, s)
        \/ Goto(q, "write") /\ ~Doing(q, Bookers)
    BY <1>8 DEF FindRoom, BuildParticipants, BeginTransaction, FindUser, Doing, Bookers
  <2>2. QED
    BY <1>3, <1>4, <2>1 DEF Steps
<1>9. ASSUME NEW q \in Handlers,
             CreateRow(q) \/ RescheduleRow(q) \/ UpdateStatus(q) \/ EditRow(q) \/ DeleteUser(q)
             \/ SetRoomActive(q) \/ LogAudit(q) \/ WaitTimeout(q) \/ DatabaseError(q)
      PROVE  call'[p] = call[p]
  <2>1. Answer(q) \/ Goto(q, "audit")
    BY <1>9 DEF CreateRow, RescheduleRow, UpdateStatus, EditRow, DeleteUser, SetRoomActive,
       LogAudit, WaitTimeout, DatabaseError, Committed
  <2>2. QED
    BY <1>3, <1>4, <2>1 DEF Steps
<1>10. CASE Restart
  BY <1>2, <1>10 DEF Restart, Idle
<1>11. CASE UNCHANGED call
  BY <1>11
<1>12. QED
  BY <1>5, <1>6, <1>7, <1>8, <1>9, <1>10, <1>11 DEF Next, vars, Advance, Tick

\* What the clash check saw stays so until the write: nobody else writes a slot
\* while the lock is held.
LEMMA ClashCheckStep ==
    ASSUME TypeInv, LockInv, ClashCheckHolds, [Next]_vars
    PROVE  ClashCheckHolds'
<1> SUFFICES ASSUME SerialTx, NEW p \in Handlers, At(p, "write")', Doing(p, Bookers)',
                    NEW r \in ResIds, r # call'[p].id, Active(r)', res'[r].slot = call'[p].goal
             PROVE  FALSE
  BY DEF ClashCheckHolds, Taken
<1>1. CASE call'[p] = call[p]
  <2>1. At(p, "write") /\ Doing(p, Bookers) /\ tx = p /\ ~Taken(call[p].goal, call[p].id)
    BY <1>1 DEF At, Doing, LockInv, Claiming, ClashCheckHolds
  <2>2. ~(Active(r) /\ res[r].slot = call[p].goal)
    BY <1>1, <2>1 DEF Taken
  <2>3. CASE Vacates
    BY <1>1, <2>2, <2>3 DEF Vacates
  <2>4. CASE \E q \in Handlers : Claims(q)
    <3>1. Claims(p)
      BY <2>1, <2>4, NullsAssumption DEF Claims, CanWrite
    <3>2. res'[r] = res[r]
      BY <1>1, <3>1 DEF Claims
    <3>3. QED
      BY <1>1, <2>2, <3>2 DEF Active
  <2>5. QED
    BY <2>3, <2>4, ClaimsOrVacates
<1>2. CASE FindClash(p) /\ Goto(p, "write") /\ UNCHANGED tx
  <2>1. call[p] \in Call /\ DOMAIN call = Handlers
    BY DEF TypeInv, CallsOK, CallOK
  <2>2. call'[p].step = "write" /\ call'[p].goal = call[p].goal /\ call'[p].id = call[p].id
    BY <1>2, <2>1 DEF Goto, Call
  <2>3. UNCHANGED res /\ (Taken(call[p].goal, call[p].id) => Answer(p))
    BY <1>2, <2>1, <2>2 DEF FindClash, Answer, Idle
  <2>4. ~Answer(p)
    BY <2>1, <2>2 DEF Answer, Idle
  <2>5. QED
    BY <2>2, <2>3, <2>4 DEF Taken, Active
<1>3. QED
  BY <1>1, <1>2, WriteAfterClashCheck

\* Either layer alone keeps the slots apart.
LEMMA NoDoubleBookingStep ==
    ASSUME TypeInv, LockInv, ClashCheckHolds, NoDoubleBooking, [Next]_vars
    PROVE  NoDoubleBooking'
<1> SUFFICES ASSUME NEW r \in ResIds, NEW s \in ResIds, r # s, Active(r)', Active(s)',
                    res'[r].slot = res'[s].slot
             PROVE  FALSE
  BY DEF NoDoubleBooking
<1>1. CASE Vacates
  BY <1>1 DEF Vacates, NoDoubleBooking
<1>2. ASSUME NEW q \in Handlers, Claims(q) PROVE FALSE
  <2>1. CASE r # call[q].id /\ s # call[q].id
    BY <1>2, <2>1 DEF Claims, NoDoubleBooking, Active
  <2>2. ASSUME NEW a \in ResIds, a = call[q].id, NEW b \in ResIds, b # a,
               Active(a)', Active(b)', res'[a].slot = res'[b].slot
        PROVE  FALSE
    <3>1. Active(b) /\ res[b].slot = call[q].goal
      BY <1>2, <2>2 DEF Claims, Active
    <3>2. Taken(call[q].goal, call[q].id)
      BY <2>2, <3>1 DEF Taken
    <3>3. ~TakenInIndex(call[q].goal, call[q].id)
      BY <1>2, <2>2 DEF Claims, Active
    <3>4. SerialTx
      BY <3>2, <3>3, DefenceAssumption DEF TakenInIndex
    <3>5. QED
      BY <1>2, <3>2, <3>4 DEF Claims, CanWrite, ClashCheckHolds
  <2>3. QED
    BY <2>1, <2>2
<1>3. QED
  BY <1>1, <1>2, ClaimsOrVacates

\* The inductive invariant behind no double booking.
BookingInv == TypeInv /\ LockInv /\ ClashCheckHolds /\ NoDoubleBooking

LEMMA BookingInit == Init => BookingInv
BY InitType DEF Init, BookingInv, LockInv, Claiming, ClashCheckHolds, NoDoubleBooking, At, Idle,
   Active, NoRow

LEMMA BookingStep == BookingInv /\ [Next]_vars => BookingInv'
BY TypeStep, LockStep, ClashCheckStep, NoDoubleBookingStep DEF BookingInv

\* No two active reservations ever share a slot, whichever of the two layers is
\* there and however the handlers interleave, fail or restart (NoDoubleBooking).
THEOREM SlotsExclusive == Spec => []NoDoubleBooking
BY BookingInit, BookingStep, PTL DEF Spec, BookingInv

\* Where an interactive transaction owns the write lock, the slot is still free
\* when the row is written: the index never has to refuse (ClashCheckHolds).
THEOREM ClashCheckSuffices == Spec => []ClashCheckHolds
BY BookingInit, BookingStep, PTL DEF Spec, BookingInv

----------------------------------------------------------------------------
(* References and the audit log.                                             *)

\* Who writes the reservations table and the accounts.
LEMMA Writers ==
    ASSUME [Next]_vars
    PROVE  \/ UNCHANGED <<res, users>>
           \/ \E q \in Handlers :
                CreateRow(q) \/ RescheduleRow(q) \/ UpdateStatus(q) \/ DeleteUser(q)
BY DEF Next, vars, Receiving, ReceiveCreate, ReceiveOnRow, ReceiveRemoveUser, ReceiveSetRoom,
   Receive, Advance, ReadReservation, FindRoom, BuildParticipants, BeginTransaction, FindClash,
   EditRow, FindUser, SetRoomActive, LogAudit, WaitTimeout, DatabaseError, Restart, Tick

LEMMA ReferencesStep ==
    ASSUME TypeInv, ReferencesExist, [Next]_vars
    PROVE  ReferencesExist'
<1>1. DOMAIN res = ResIds /\ \A r \in ResIds : res[r] \in Row /\ RowOK(res[r], now)
  BY DEF TypeInv, RowsOK, RowOK
<1>2. CASE UNCHANGED <<res, users>>
  BY <1>2 DEF ReferencesExist, Stored
<1>3. ASSUME NEW q \in Handlers, CreateRow(q) PROVE ReferencesExist'
  <2>1. CASE UNCHANGED res
    BY <1>3, <2>1 DEF CreateRow, ReferencesExist, Stored
  <2>2. CASE /\ call[q].req.mentions \cup {call[q].req.by} \subseteq users /\ UNCHANGED users
             /\ res' = [res EXCEPT ![call[q].id] =
                    [status |-> "active", userId |-> call[q].req.by, slot |-> call[q].goal,
                     people |-> call[q].req.mentions]]
    BY <1>1, <2>2 DEF ReferencesExist, Stored
  <2>3. QED
    BY <1>3, <2>1, <2>2 DEF CreateRow
<1>4. ASSUME NEW q \in Handlers, RescheduleRow(q) \/ UpdateStatus(q) PROVE ReferencesExist'
  <2>1. UNCHANGED users
    BY <1>4 DEF RescheduleRow, UpdateStatus
  <2>2. CASE UNCHANGED res
    BY <2>1, <2>2 DEF ReferencesExist, Stored
  <2>3. CASE /\ Stored(call[q].id)
             /\ \/ \E x : res' = [res EXCEPT ![call[q].id].slot = x]
                \/ \E x : res' = [res EXCEPT ![call[q].id].status = x]
    <3>0. Stored(call[q].id)
      BY <2>3
    <3>1. ASSUME NEW r \in ResIds
          PROVE  /\ res'[r].userId = res[r].userId /\ res'[r].people = res[r].people
                 /\ Stored(r)' => Stored(r)
      <4>1. CASE r # call[q].id
        BY <1>1, <2>3, <4>1 DEF Stored
      <4>2. ASSUME NEW x, r = call[q].id, res' = [res EXCEPT ![r].slot = x]
            PROVE  res'[r].userId = res[r].userId /\ res'[r].people = res[r].people
        BY <1>1, <4>2 DEF Row
      <4>3. ASSUME NEW x, r = call[q].id, res' = [res EXCEPT ![r].status = x]
            PROVE  res'[r].userId = res[r].userId /\ res'[r].people = res[r].people
        BY <1>1, <4>3 DEF Row
      <4>4. CASE r = call[q].id
        <5>1. Stored(r)
          BY <3>0, <4>4 DEF Stored
        <5>2. CASE \E x : res' = [res EXCEPT ![r].slot = x]
          BY <4>2, <4>4, <5>1, <5>2
        <5>3. CASE \E x : res' = [res EXCEPT ![r].status = x]
          BY <4>3, <4>4, <5>1, <5>3
        <5>4. QED
          BY <2>3, <4>4, <5>2, <5>3
      <4>5. QED
        BY <4>1, <4>4
    <3>2. QED
      BY <2>1, <3>1 DEF ReferencesExist
  <2>4. QED
    BY <1>4, <2>2, <2>3 DEF RescheduleRow, UpdateStatus
<1>5. ASSUME NEW q \in Handlers, DeleteUser(q) PROVE ReferencesExist'
  <2>1. CASE UNCHANGED <<res, users>>
    BY <2>1 DEF ReferencesExist, Stored
  <2>2. CASE ~UNCHANGED <<res, users>>
    <3> DEFINE u == call[q].req.whom
    <3> SUFFICES ASSUME NEW r \in ResIds, Stored(r)'
                 PROVE  res'[r].userId \in users' /\ res'[r].people \subseteq users' \cup {NoUser}
      BY DEF ReferencesExist
    <3>1. users' = users \ {u}
      BY <1>5, <2>2 DEF DeleteUser
    <3>2. res'[r] = IF res[r].userId = u THEN NoRow("gone")
                    ELSE [res[r] EXCEPT !.people = Forget(u, @)]
      BY <1>5, <2>2 DEF DeleteUser
    <3>3. res[r].userId # u /\ res'[r] = [res[r] EXCEPT !.people = Forget(u, @)]
      BY <3>2 DEF Stored, NoRow
    <3>4. /\ res'[r].userId = res[r].userId /\ res'[r].people = Forget(u, res[r].people)
          /\ Stored(r)
      BY <1>1, <3>3 DEF Row, Stored
    <3>5. QED
      BY <3>1, <3>3, <3>4 DEF ReferencesExist, Forget
  <2>3. QED
    BY <2>1, <2>2
<1>6. QED
  BY <1>2, <1>3, <1>4, <1>5, Writers

\* Deleting an account between the look-up and the write, or at any later time,
\* leaves no stored reservation with an owner or participant who does not exist
\* (ReferencesExist).
THEOREM ReferencesStayValid == Spec => []ReferencesExist
<1>1. Init => ReferencesExist
  BY DEF Init, ReferencesExist, Stored, NoRow
<1>2. TypeInv /\ ReferencesExist /\ [Next]_vars => ReferencesExist'
  BY ReferencesStep
<1>3. QED
  BY <1>1, <1>2, AlwaysTyped, PTL DEF Spec

\* A create that has not written yet owns an unused key.
Creating(q) == ~At(q, "idle") /\ ~At(q, "audit") /\ Doing(q, {"create"})
FreshKeys ==
    \A q \in Handlers : Creating(q) =>
        /\ res[call[q].id].status = "absent"
        /\ \A p \in Handlers : p # q /\ Creating(p) => call[p].id # call[q].id

\* What the audit entry a handler is about to write will say holds already, and
\* a cancellation under way is the owner's.
Holds(action, actor, entity) ==
    /\ action \in RowKinds \cup {"create"} => entity \in ResIds /\ res[entity].status # "absent"
    /\ action \in {"cancel", "reject", "remove"} => ~Active(entity)
    /\ action = "cancel" /\ Stored(entity) => res[entity].userId = actor
    /\ action = "removeUser" => entity \notin users
Cancelling(q) == At(q, "write") /\ Doing(q, {"cancel"})
AuditInv ==
    /\ \A e \in audit : Holds(e.action, e.actor, e.entity)
    /\ \A q \in Handlers : At(q, "audit") =>
        Holds(call[q].req.kind, call[q].req.by,
              IF Doing(q, {"removeUser"}) THEN call[q].req.whom ELSE call[q].id)
    /\ \A q \in Handlers : Cancelling(q) =>
        /\ res[call[q].id].status # "absent"
        /\ Stored(call[q].id) => res[call[q].id].userId = call[q].req.by

\* The life of a row and of an account only goes forward.
Forward ==
    /\ users' \subseteq users
    /\ \A r \in ResIds : res[r].status # "absent" =>
        /\ res'[r].status # "absent"
        /\ Active(r)' => Active(r)
        /\ Stored(r)' => Stored(r) /\ res'[r].userId = res[r].userId

\* What a step can do to one row.
Kept(r) == res'[r].status = res[r].status /\ res'[r].userId = res[r].userId
Ended(r) ==
    Stored(r) /\ res'[r].status \in {"cancelled", "deleted"} /\ res'[r].userId = res[r].userId
Gone(r) == Stored(r) /\ res'[r].status = "gone"
Created(r, q) ==
    /\ CanWrite(q) /\ Doing(q, {"create"}) /\ call[q].id = r /\ Committed(q)
    /\ res'[r].status = "active" /\ res'[r].userId = call[q].req.by

\* Updates of the status and the cascade of a removed account only end rows.
LEMMA EndSteps ==
    ASSUME TypeInv, NEW q \in Handlers, UpdateStatus(q) \/ DeleteUser(q), ~UNCHANGED res,
           NEW r \in ResIds
    PROVE  (Kept(r) /\ res'[r].slot = res[r].slot) \/ Ended(r) \/ Gone(r)
<1>1. DOMAIN res = ResIds /\ res[r] \in Row /\ RowOK(res[r], now)
  BY DEF TypeInv, RowsOK, RowOK
<1>2. CASE UpdateStatus(q)
  <2>1. PICK status \in {"deleted", "cancelled"} : res' = [res EXCEPT ![call[q].id].status = status]
    BY <1>2 DEF UpdateStatus
  <2>2. Stored(call[q].id)
    BY <1>2 DEF UpdateStatus
  <2>3. CASE r = call[q].id
    BY <1>1, <2>1, <2>2, <2>3 DEF Ended, Row, Stored
  <2>4. CASE r # call[q].id
    BY <1>1, <2>1, <2>4 DEF Kept
  <2>5. QED
    BY <2>3, <2>4
<1>3. CASE DeleteUser(q)
  <2> DEFINE u == call[q].req.whom
             S == Forget(u, res[r].people)
  <2>1. u \in users /\ res'[r] = IF res[r].userId = u THEN NoRow("gone")
                                 ELSE [res[r] EXCEPT !.people = S]
    BY <1>3 DEF DeleteUser
  <2> HIDE DEF S
  <2>2. CASE res[r].userId = u
    <3>1. u # NoUser
      BY <2>1, NullsAssumption DEF TypeInv
    <3>2. Stored(r)
      BY <1>1, <2>2, <3>1 DEF RowOK, Row, Statuses, Stored
    <3>3. QED
      BY <2>1, <2>2, <3>2 DEF Gone, NoRow
  <2>3. CASE res[r].userId # u
    BY <1>1, <2>1, <2>3 DEF Kept, Row
  <2>4. QED
    BY <2>2, <2>3
<1>4. QED
  BY <1>2, <1>3

LEMMA RowSteps ==
    ASSUME TypeInv, [Next]_vars, NEW r \in ResIds
    PROVE  Kept(r) \/ Ended(r) \/ Gone(r) \/ \E q \in Handlers : Created(r, q)
<1>1. DOMAIN res = ResIds /\ res[r] \in Row /\ RowOK(res[r], now)
  BY DEF TypeInv, RowsOK, RowOK
<1>2. CASE UNCHANGED res
  BY <1>2 DEF Kept
<1>3. ASSUME NEW q \in Handlers, CreateRow(q), ~UNCHANGED res
      PROVE  Kept(r) \/ Created(r, q)
  BY <1>1, <1>3 DEF CreateRow, Kept, Created
<1>4. ASSUME NEW q \in Handlers, RescheduleRow(q), ~UNCHANGED res PROVE Kept(r)
  <2>1. res' = [res EXCEPT ![call[q].id].slot = call[q].goal]
    BY <1>4 DEF RescheduleRow
  <2>2. QED
    BY <1>1, <2>1 DEF Kept, Row
<1>5. ASSUME NEW q \in Handlers, UpdateStatus(q) \/ DeleteUser(q), ~UNCHANGED res
      PROVE  Kept(r) \/ Ended(r) \/ Gone(r)
  BY <1>5, EndSteps
<1>6. QED
  BY <1>2, <1>3, <1>4, <1>5, Writers

\* A create on its way keeps its request and key, and only it inserts its row.
LEMMA CreatingBefore ==
    ASSUME TypeInv, [Next]_vars, NEW p \in Handlers, Creating(p)'
    PROVE  \/ Creating(p) /\ call'[p].id = call[p].id
           \/ /\ \A q \in Handlers : q # p => call'[q] = call[q] /\ call[q].id # call'[p].id
              /\ UNCHANGED res /\ res[call'[p].id].status = "absent"
<1>1. DOMAIN call = Handlers /\ \A q \in Handlers : call[q] \in Call
  BY DEF TypeInv, CallsOK, CallOK
<1>2. call'[p].step \notin {"idle", "audit"} /\ call'[p].req.kind = "create"
  BY DEF Creating, At, Doing
<1>3. CASE call'[p] = call[p]
  BY <1>2, <1>3 DEF Creating, At, Doing
<1>4. ASSUME NEW q \in Handlers, Answer(q) PROVE call'[p] = call[p]
  BY <1>1, <1>2, <1>4 DEF Answer, Idle
<1>5. ASSUME NEW q \in Handlers, NEW s \in Steps, Goto(q, s), ~At(q, "idle"), ~At(q, "audit")
      PROVE  call'[p] = call[p] \/ (Creating(p) /\ call'[p].id = call[p].id)
  BY <1>1, <1>2, <1>5 DEF Goto, Creating, At, Doing, Call
<1>6. ASSUME NEW q \in Handlers, NEW req \in Requests, Receiving(q, req), call'[p] # call[p]
      PROVE  /\ \A h \in Handlers : h # p => call'[h] = call[h] /\ call[h].id # call'[p].id
             /\ UNCHANGED res /\ res[call'[p].id].status = "absent"
  <2>1. PICK step, id, goal : Receive(q, req, step, id, goal)
    BY <1>6 DEF Receiving, ReceiveCreate, ReceiveOnRow, ReceiveRemoveUser, ReceiveSetRoom
  <2>2. p = q /\ req.kind = "create" /\ UNCHANGED res
    BY <1>1, <1>2, <1>6, <2>1 DEF Receive
  <2>3. ReceiveCreate(p, req)
    BY <1>6, <2>2 DEF Receiving, ReceiveOnRow, ReceiveRemoveUser, ReceiveSetRoom, RowKinds
  <2>4. PICK r \in ResIds : /\ res[r].status = "absent" /\ \A h \in Handlers : call[h].id # r
                            /\ Receive(p, req, "room", r, req.slot)
    BY <2>3 DEF ReceiveCreate
  <2>5. call'[p].id = r /\ \A h \in Handlers : h # p => call'[h] = call[h]
    BY <1>1, <2>4 DEF Receive
  <2>6. QED
    BY <2>2, <2>4, <2>5
<1>7. ASSUME NEW q \in Handlers, ReadReservation(q) PROVE call'[p] = call[p] \/ p = q
  BY <1>1, <1>7 DEF ReadReservation, Answer
<1>8. ASSUME NEW q \in Handlers, ReadReservation(q), p = q PROVE call'[p] = call[p]
  <2>1. \/ Answer(q)
        \/ call'[p].req = call[p].req
    BY <1>1, <1>8 DEF ReadReservation, Call
  <2>2. QED
    BY <1>2, <1>4, <1>8, <2>1 DEF ReadReservation, Doing, RowKinds
<1>9. ASSUME NEW q \in Handlers,
             FindRoom(q) \/ BuildParticipants(q) \/ BeginTransaction(q) \/ FindClash(q)
             \/ CreateRow(q) \/ RescheduleRow(q) \/ UpdateStatus(q) \/ EditRow(q) \/ FindUser(q)
             \/ DeleteUser(q) \/ SetRoomActive(q) \/ LogAudit(q) \/ WaitTimeout(q) \/ DatabaseError(q)
      PROVE  call'[p] = call[p] \/ (Creating(p) /\ call'[p].id = call[p].id)
  <2>1. \/ Answer(q)
        \/ /\ ~At(q, "idle") /\ ~At(q, "audit")
           /\ \E s \in {"people", "begin", "clash", "write", "audit"} : Goto(q, s)
    BY <1>9 DEF FindRoom, BuildParticipants, BeginTransaction, FindClash, CreateRow, RescheduleRow,
       UpdateStatus, EditRow, FindUser, DeleteUser, SetRoomActive, LogAudit, WaitTimeout,
       DatabaseError, Committed, CanWrite, At
  <2>2. QED
    BY <1>4, <1>5, <2>1 DEF Steps
<1>10. CASE Restart
  BY <1>2, <1>10 DEF Restart, Idle
<1>11. QED
  BY <1>3, <1>6, <1>7, <1>8, <1>9, <1>10 DEF Next, vars, Advance, Tick

LEMMA FreshStep ==
    ASSUME TypeInv, FreshKeys, [Next]_vars
    PROVE  FreshKeys'
<1> SUFFICES ASSUME NEW p \in Handlers, Creating(p)'
             PROVE  /\ res'[call'[p].id].status = "absent"
                    /\ \A h \in Handlers : h # p /\ Creating(h)' => call'[h].id # call'[p].id
  BY DEF FreshKeys
<1>1. CASE Creating(p) /\ call'[p].id = call[p].id
  <2> DEFINE r == call[p].id
  <2>1. r \in ResIds /\ res[r].status = "absent"
    BY <1>1 DEF FreshKeys, TypeInv, CallsOK, CallOK, Creating, At, Doing
  <2>2. ASSUME NEW q \in Handlers, Created(r, q) PROVE FALSE
    <3>1. Creating(q)
      BY <2>2 DEF Created, CanWrite, Creating, At
    <3>2. q = p
      BY <1>1, <2>2, <3>1 DEF Created, FreshKeys
    <3>3. call'[p].step = "audit"
      BY <2>2, <3>2 DEF Created, Committed, Goto, TypeInv, CallsOK, CallOK, Call
    <3>4. QED
      BY <3>3 DEF Creating, At
  <2>3. res'[r].status = "absent"
    BY <2>1, <2>2, RowSteps DEF Kept, Ended, Gone, Stored
  <2>4. ASSUME NEW h \in Handlers, h # p, Creating(h)' PROVE call'[h].id # call'[p].id
    <3>1. CASE Creating(h) /\ call'[h].id = call[h].id
      BY <1>1, <2>4, <3>1 DEF FreshKeys
    <3>2. CASE \A q \in Handlers : q # h => call'[q] = call[q] /\ call[q].id # call'[h].id
      BY <1>1, <2>4, <3>2
    <3>3. QED
      BY <2>4, <3>1, <3>2, CreatingBefore
  <2>5. QED
    BY <1>1, <2>3, <2>4
<1>2. CASE /\ \A q \in Handlers : q # p => call'[q] = call[q] /\ call[q].id # call'[p].id
           /\ UNCHANGED res /\ res[call'[p].id].status = "absent"
  BY <1>2
<1>3. QED
  BY <1>1, <1>2, CreatingBefore

LEMMA ForwardStep ==
    ASSUME TypeInv, FreshKeys, [Next]_vars
    PROVE  Forward
<1>1. users' \subseteq users
  BY Writers DEF CreateRow, RescheduleRow, UpdateStatus, DeleteUser
<1>2. ASSUME NEW r \in ResIds, res[r].status # "absent"
      PROVE  ~\E q \in Handlers : Created(r, q)
  BY <1>2 DEF Created, CanWrite, FreshKeys, Creating, At
<1>3. ASSUME NEW r \in ResIds, res[r].status # "absent"
      PROVE  /\ res'[r].status # "absent"
             /\ Active(r)' => Active(r)
             /\ Stored(r)' => Stored(r) /\ res'[r].userId = res[r].userId
  <2>1. Kept(r) \/ Ended(r) \/ Gone(r)
    BY <1>2, <1>3, RowSteps
  <2>2. QED
    BY <1>3, <2>1 DEF Kept, Ended, Gone, Stored, Active
<1>4. QED
  BY <1>1, <1>3 DEF Forward

\* What an entry says stays so.
LEMMA HoldsStays ==
    ASSUME Forward, NEW action, NEW actor, NEW entity, Holds(action, actor, entity)
    PROVE  Holds(action, actor, entity)'
BY DEF Forward, Holds, RowKinds, Active, Stored

\* A handler comes to its audit entry by committing a write.
LEMMA AuditAfterWrite ==
    ASSUME TypeInv, [Next]_vars, NEW p \in Handlers, At(p, "audit")'
    PROVE  \/ call'[p] = call[p]
           \/ /\ CreateRow(p) \/ RescheduleRow(p) \/ UpdateStatus(p) \/ EditRow(p) \/ DeleteUser(p)
              /\ Committed(p) /\ call'[p] = [call[p] EXCEPT !.step = "audit"]
<1>1. DOMAIN call = Handlers /\ \A q \in Handlers : call[q] \in Call
  BY DEF TypeInv, CallsOK, CallOK
<1>2. call'[p].step = "audit"
  BY DEF At
<1>3. ASSUME NEW q \in Handlers, Answer(q) PROVE call'[p] = call[p]
  BY <1>1, <1>2, <1>3 DEF Answer, Idle
<1>4. ASSUME NEW q \in Handlers, NEW s \in Steps, Goto(q, s), s # "audit"
      PROVE  call'[p] = call[p]
  BY <1>1, <1>2, <1>4 DEF Goto, Call
<1>5. ASSUME NEW q \in Handlers, NEW req \in Requests, Receiving(q, req) PROVE call'[p] = call[p]
  <2>1. PICK step, id, goal : Receive(q, req, step, id, goal) /\ step # "audit"
    BY <1>5 DEF Receiving, ReceiveCreate, ReceiveOnRow, ReceiveRemoveUser, ReceiveSetRoom
  <2>2. QED
    BY <1>1, <1>2, <2>1 DEF Receive
<1>6. ASSUME NEW q \in Handlers, ReadReservation(q) PROVE call'[p] = call[p]
  <2>1. CASE Answer(q)
    BY <1>3, <2>1
  <2>2. CASE \E goal : call' = [call EXCEPT ![q].step = "room", ![q].goal = goal]
    BY <1>1, <1>2, <2>2 DEF Call
  <2>3. CASE Goto(q, "write")
    BY <1>4, <2>3 DEF Steps
  <2>4. QED
    BY <1>6, <2>1, <2>2, <2>3 DEF ReadReservation, Goto
<1>7. ASSUME NEW q \in Handlers,
             FindRoom(q) \/ BuildParticipants(q) \/ BeginTransaction(q) \/ FindClash(q) \/ FindUser(q)
             \/ SetRoomActive(q) \/ LogAudit(q) \/ WaitTimeout(q) \/ DatabaseError(q)
      PROVE  call'[p] = call[p]
  <2>1. Answer(q) \/ \E s \in {"people", "begin", "clash", "write"} : Goto(q, s)
    BY <1>7 DEF FindRoom, BuildParticipants, BeginTransaction, FindClash, FindUser, SetRoomActive,
       LogAudit, WaitTimeout, DatabaseError
  <2>2. QED
    BY <1>3, <1>4, <2>1 DEF Steps
<1>8. ASSUME NEW q \in Handlers, call'[p] # call[p],
             CreateRow(q) \/ RescheduleRow(q) \/ UpdateStatus(q) \/ EditRow(q) \/ DeleteUser(q)
      PROVE  p = q /\ Committed(p) /\ call'[p] = [call[p] EXCEPT !.step = "audit"]
  <2>1. Committed(q)
    BY <1>3, <1>8 DEF CreateRow, RescheduleRow, UpdateStatus, EditRow, DeleteUser
  <2>2. QED
    BY <1>1, <1>8, <2>1 DEF Committed, Goto
<1>9. CASE Restart
  BY <1>2, <1>9 DEF Restart, Idle
<1>10. CASE UNCHANGED call
  BY <1>10
<1>11. QED
  BY <1>5, <1>6, <1>7, <1>8, <1>9, <1>10 DEF Next, vars, Advance, Tick

\* What a handler's entry will say holds once its write is committed.
LEMMA WrittenHolds ==
    ASSUME TypeInv, FreshKeys, AuditInv, [Next]_vars, NEW p \in Handlers, Committed(p),
           CreateRow(p) \/ RescheduleRow(p) \/ UpdateStatus(p) \/ EditRow(p) \/ DeleteUser(p),
           NEW kind, NEW by, NEW entity, kind = call[p].req.kind, by = call[p].req.by,
           entity = IF kind = "removeUser" THEN call[p].req.whom ELSE call[p].id
    PROVE  Holds(kind, by, entity)'
<1>1. Forward
  BY ForwardStep
<1>2. call[p] \in Call /\ DOMAIN call = Handlers /\ call[p].step = "write"
  BY DEF TypeInv, CallsOK, CallOK, CreateRow, RescheduleRow, UpdateStatus, EditRow, DeleteUser,
     CanWrite, At
<1>3. ~Answer(p)
  BY <1>2 DEF Answer, Committed, Goto, Idle, Call
<1>4. kind \in RowKinds \cup {"create"} => call[p].id \in ResIds /\ entity = call[p].id
  BY <1>2 DEF TypeInv, CallsOK, CallOK, RowKinds
<1>5. DOMAIN res = ResIds /\ \A r \in ResIds : res[r] \in Row
  BY DEF TypeInv, RowsOK, RowOK
<1>6. CASE CreateRow(p)
  BY <1>3, <1>4, <1>5, <1>6 DEF CreateRow, Holds, Doing
<1>7. CASE RescheduleRow(p) \/ EditRow(p)
  <2>1. Stored(call[p].id) /\ kind \in {"reschedule", "edit"}
    BY <1>3, <1>7 DEF RescheduleRow, EditRow, Doing
  <2>2. QED
    BY <1>1, <1>4, <2>1 DEF Forward, Holds, Stored, RowKinds
<1>8. CASE UpdateStatus(p)
  <2>1. kind \in {"cancel", "reject", "remove"} /\ Stored(call[p].id)
        /\ call[p].id \in ResIds /\ entity = call[p].id
    BY <1>3, <1>4, <1>8 DEF UpdateStatus, Doing, RowKinds
  <2>2. PICK status \in {"deleted", "cancelled"} : res' = [res EXCEPT ![call[p].id].status = status]
    BY <1>3, <1>8 DEF UpdateStatus
  <2>3. /\ res'[call[p].id].status \in {"deleted", "cancelled"}
        /\ res'[call[p].id].userId = res[call[p].id].userId
    BY <1>5, <2>1, <2>2 DEF Row
  <2>4. kind = "cancel" => res[call[p].id].userId = by
    BY <1>2, <2>1 DEF AuditInv, Cancelling, At, Doing
  <2>5. QED
    BY <2>1, <2>3, <2>4 DEF Holds, Active, Stored
<1>9. CASE DeleteUser(p)
  BY <1>3, <1>9 DEF DeleteUser, Holds, Doing, RowKinds
<1>10. QED
  BY <1>6, <1>7, <1>8, <1>9

\* A cancellation reaches its update with the row it has just read.
LEMMA CancelAfterRead ==
    ASSUME TypeInv, [Next]_vars, NEW p \in Handlers, Cancelling(p)'
    PROVE  \/ call'[p] = call[p]
           \/ /\ res' = res /\ Stored(call'[p].id)
              /\ res[call'[p].id].userId = call'[p].req.by
<1>1. DOMAIN call = Handlers /\ \A q \in Handlers : call[q] \in Call
  BY DEF TypeInv, CallsOK, CallOK
<1>2. call'[p].step = "write" /\ call'[p].req.kind = "cancel"
  BY DEF Cancelling, At, Doing
<1>3. ASSUME NEW q \in Handlers, Answer(q) PROVE call'[p] = call[p]
  BY <1>1, <1>2, <1>3 DEF Answer, Idle
<1>4. ASSUME NEW q \in Handlers, NEW s \in Steps, Goto(q, s), s # "write" \/ ~Doing(q, {"cancel"})
      PROVE  call'[p] = call[p]
  BY <1>1, <1>2, <1>4 DEF Goto, Doing, Call
<1>5. ASSUME NEW q \in Handlers, NEW req \in Requests, Receiving(q, req) PROVE call'[p] = call[p]
  <2>1. PICK step, id, goal : /\ Receive(q, req, step, id, goal)
                              /\ step = "write" => req.kind = "setRoom"
    BY <1>5 DEF Receiving, ReceiveCreate, ReceiveOnRow, ReceiveRemoveUser, ReceiveSetRoom
  <2>2. QED
    BY <1>1, <1>2, <2>1 DEF Receive
<1>6. ASSUME NEW q \in Handlers, ReadReservation(q), call'[p] # call[p]
      PROVE  res' = res /\ Stored(call'[p].id) /\ res[call'[p].id].userId = call'[p].req.by
  <2>1. CASE Answer(q)
    BY <1>3, <1>6, <2>1
  <2>2. CASE \E goal : call' = [call EXCEPT ![q].step = "room", ![q].goal = goal]
    BY <1>1, <1>2, <1>6, <2>2 DEF Call
  <2>3. CASE Goto(q, "write") /\ MayGoOn(call[q].req, res[call[q].id])
    <3>1. p = q /\ call'[p].id = call[p].id /\ call'[p].req = call[p].req
      BY <1>1, <1>6, <2>3 DEF Goto, Call
    <3>2. QED
      BY <1>2, <1>6, <2>3, <3>1 DEF ReadReservation, MayGoOn, Stored
  <2>4. QED
    BY <1>6, <2>1, <2>2, <2>3 DEF ReadReservation, Goto
<1>7. ASSUME NEW q \in Handlers, FindRoom(q) \/ BuildParticipants(q) \/ BeginTransaction(q) \/ FindUser(q)
      PROVE  call'[p] = call[p]
  <2>1. \/ Answer(q)
        \/ \E s \in {"people", "begin", "clash"} : Goto(q, s)
        \/ Goto(q, "write") /\ ~Doing(q, {"cancel"})
    BY <1>7 DEF FindRoom, BuildParticipants, BeginTransaction, FindUser, Doing
  <2>2. QED
    BY <1>3, <1>4, <2>1 DEF Steps
<1>8. ASSUME NEW q \in Handlers, FindClash(q) PROVE call'[p] = call[p]
  <2>1. ~Doing(q, {"cancel"})
    BY <1>8 DEF FindClash, TypeInv, CallsOK, CallOK, At, Doing, Bookers
  <2>2. QED
    BY <1>3, <1>4, <1>8, <2>1 DEF FindClash, Steps
<1>9. ASSUME NEW q \in Handlers,
             CreateRow(q) \/ RescheduleRow(q) \/ UpdateStatus(q) \/ EditRow(q) \/ DeleteUser(q)
             \/ SetRoomActive(q) \/ LogAudit(q) \/ WaitTimeout(q) \/ DatabaseError(q)
      PROVE  call'[p] = call[p]
  <2>1. Answer(q) \/ Goto(q, "audit")
    BY <1>9 DEF CreateRow, RescheduleRow, UpdateStatus, EditRow, DeleteUser, SetRoomActive,
       LogAudit, WaitTimeout, DatabaseError, Committed
  <2>2. QED
    BY <1>3, <1>4, <2>1 DEF Steps
<1>10. CASE Restart
  BY <1>2, <1>10 DEF Restart, Idle
<1>11. CASE UNCHANGED call
  BY <1>11
<1>12. QED
  BY <1>5, <1>6, <1>7, <1>8, <1>9, <1>10, <1>11 DEF Next, vars, Advance, Tick

LEMMA EntriesStep ==
    ASSUME TypeInv, FreshKeys, AuditInv, [Next]_vars, NEW e \in audit'
    PROVE  Holds(e.action, e.actor, e.entity)'
<1>1. Forward
  BY ForwardStep
<1>2. ASSUME NEW d \in audit PROVE Holds(d.action, d.actor, d.entity)'
  <2>1. Holds(d.action, d.actor, d.entity)
    BY DEF AuditInv
  <2>2. QED
    BY <1>1, <2>1 DEF Forward, Holds, RowKinds, Active, Stored
<1>3. CASE UNCHANGED audit
  BY <1>2, <1>3
<1>4. ASSUME NEW q \in Handlers, LogAudit(q) PROVE Holds(e.action, e.actor, e.entity)'
  <2> DEFINE req == call[q].req
             entry == [actor |-> req.by, action |-> req.kind,
                       entity |-> IF req.kind = "removeUser" THEN req.whom ELSE call[q].id]
  <2>1. CASE e \in audit
    BY <1>2, <2>1
  <2>2. CASE e = entry
    <3>1. Holds(req.kind, req.by, IF req.kind = "removeUser" THEN req.whom ELSE call[q].id)
      BY <1>4 DEF AuditInv, LogAudit, Doing
    <3>2. e.action = req.kind /\ e.actor = req.by
          /\ e.entity = IF req.kind = "removeUser" THEN req.whom ELSE call[q].id
      BY <2>2
    <3>3. Holds(e.action, e.actor, e.entity)
      BY <3>1, <3>2 DEF Holds
    <3>4. QED
      BY <1>1, <3>3 DEF Forward, Holds, RowKinds, Active, Stored
  <2>3. QED
    BY <1>4, <2>1, <2>2 DEF LogAudit
<1>5. ASSUME NEW q \in Handlers, DeleteUser(q), ~UNCHANGED audit
      PROVE  Holds(e.action, e.actor, e.entity)'
  <2> DEFINE u == call[q].req.whom
  <2>1. PICK d \in audit : e = [d EXCEPT !.actor = IF @ = u THEN NoUser ELSE @]
    BY <1>5 DEF DeleteUser
  <2>2. d \in Entry /\ Holds(d.action, d.actor, d.entity)
    BY DEF TypeInv, AuditInv
  <2>3. e.action = d.action /\ e.entity = d.entity
    BY <2>1, <2>2 DEF Entry
  <2>4. e.actor = d.actor \/ d.actor = u
    BY <2>1, <2>2 DEF Entry
  <2>5. Holds(d.action, d.actor, d.entity)'
    BY <1>2
  <2>6. ASSUME d.actor = u, e.action = "cancel", Stored(e.entity)' PROVE FALSE
    <3>1. e.entity \in ResIds /\ res[e.entity].status # "absent"
      BY <2>2, <2>3, <2>6 DEF Holds, RowKinds
    <3>2. Stored(e.entity) /\ res[e.entity].userId = u
      BY <1>1, <2>2, <2>3, <2>6, <3>1 DEF Forward, Holds, Stored
    <3>3. res'[e.entity] = NoRow("gone")
      BY <1>5, <3>1, <3>2 DEF DeleteUser
    <3>4. QED
      BY <2>6, <3>3 DEF Stored, NoRow
  <2>7. QED
    BY <2>3, <2>4, <2>5, <2>6 DEF Holds
<1>6. UNCHANGED audit \/ \E q \in Handlers : LogAudit(q) \/ DeleteUser(q)
  BY DEF Next, vars, Receiving, ReceiveCreate, ReceiveOnRow, ReceiveRemoveUser, ReceiveSetRoom,
     Receive, Advance, ReadReservation, FindRoom, BuildParticipants, BeginTransaction, FindClash,
     CreateRow, RescheduleRow, UpdateStatus, EditRow, FindUser, SetRoomActive, WaitTimeout,
     DatabaseError, Restart, Tick
<1>7. QED
  BY <1>3, <1>4, <1>5, <1>6

LEMMA AuditStep ==
    ASSUME TypeInv, FreshKeys, AuditInv, [Next]_vars
    PROVE  AuditInv'
<1>1. Forward
  BY ForwardStep
<1>2. \A e \in audit' : Holds(e.action, e.actor, e.entity)'
  BY EntriesStep
<1>3. ASSUME NEW p \in Handlers, At(p, "audit")', NEW kind, NEW by, NEW entity,
             kind = call'[p].req.kind, by = call'[p].req.by,
             entity = IF kind = "removeUser" THEN call'[p].req.whom ELSE call'[p].id
      PROVE  Holds(kind, by, entity)'
  <2>1. CASE call'[p] = call[p]
    <3>1. Holds(kind, by, entity)
      BY <1>3, <2>1 DEF AuditInv, At, Doing, Holds
    <3>2. QED
      BY <1>1, <3>1, HoldsStays
  <2>2. CASE /\ CreateRow(p) \/ RescheduleRow(p) \/ UpdateStatus(p) \/ EditRow(p) \/ DeleteUser(p)
             /\ Committed(p) /\ call'[p] = [call[p] EXCEPT !.step = "audit"]
    <3>1. call'[p].req = call[p].req /\ call'[p].id = call[p].id
      BY <2>2 DEF TypeInv, CallsOK, CallOK, Call
    <3>2. QED
      BY <1>3, <2>2, <3>1, WrittenHolds
  <2>3. QED
    BY <1>3, <2>1, <2>2, AuditAfterWrite
<1>4. ASSUME NEW p \in Handlers, Cancelling(p)'
      PROVE  /\ res'[call'[p].id].status # "absent"
             /\ Stored(call[p].id)' => res'[call'[p].id].userId = call'[p].req.by
  <2>1. CASE call'[p] = call[p]
    <3>1. /\ res[call[p].id].status # "absent" /\ call[p].id \in ResIds
          /\ Stored(call[p].id) => res[call[p].id].userId = call[p].req.by
      BY <1>4, <2>1 DEF AuditInv, Cancelling, At, Doing, TypeInv, CallsOK, CallOK, RowKinds
    <3> DEFINE r == call[p].id
    <3>2. /\ res'[r].status # "absent"
          /\ res'[r].status \in {"active", "cancelled", "deleted"} =>
                Stored(r) /\ res'[r].userId = res[r].userId
      BY <1>1, <3>1 DEF Forward, Stored
    <3>3. QED
      BY <2>1, <3>1, <3>2 DEF Stored
  <2>2. CASE /\ res' = res /\ Stored(call'[p].id)
             /\ res[call'[p].id].userId = call'[p].req.by
    BY <2>2 DEF Stored
  <2>3. QED
    BY <1>4, <2>1, <2>2, CancelAfterRead
<1>5. ASSUME NEW p \in Handlers, At(p, "audit")'
      PROVE  Holds(call[p].req.kind, call[p].req.by,
                   IF Doing(p, {"removeUser"}) THEN call[p].req.whom ELSE call[p].id)'
  <2>1. PICK kind, by, entity : /\ kind = call'[p].req.kind /\ by = call'[p].req.by
            /\ entity = IF kind = "removeUser" THEN call'[p].req.whom ELSE call'[p].id
    OBVIOUS
  <2>2. Holds(kind, by, entity)'
    BY <1>3, <1>5, <2>1
  <2>3. QED
    BY <2>1, <2>2 DEF Holds, Doing
<1>6. QED
  BY <1>2, <1>4, <1>5 DEF AuditInv

LEMMA AuditInit == Init => FreshKeys /\ AuditInv
BY DEF Init, FreshKeys, AuditInv, Creating, Cancelling, At, Idle

LEMMA AuditInvImplies == AuditInv => AuditSound
BY DEF AuditInv, AuditSound, Holds

\* Whatever the audit log says of a reservation or an account did happen and was
\* never undone, although entries are written after the fact, may be missing,
\* and lose their actors (AuditSound).
THEOREM AuditLogSound == Spec => []AuditSound
<1>1. TypeInv /\ FreshKeys /\ AuditInv /\ [Next]_vars => FreshKeys' /\ AuditInv'
  BY FreshStep, AuditStep
<1>2. QED
  BY <1>1, AuditInit, AuditInvImplies, AlwaysTyped, PTL DEF Spec

--------------------------------------------------------------------------------
(* Reservations implements the abstract book of SlotBook: the initial states  *)
(* map to the empty book, and every step of a handler maps to one step of the *)
(* book or leaves it as it is.                                                *)

\* What the types say of the abstract state.
LEMMA BookTypes ==
    ASSUME TypeInv
    PROVE  /\ DOMAIN res = ResIds
           /\ \A r \in ResIds :
                /\ res[r] \in Row
                /\ Active(r) => res[r].slot \in Slot /\ res[r].slot # NoSlot
BY NullsAssumption DEF TypeInv, RowsOK, RowOK, Active

\* A step after which every reservation holds what it held, and has ended if it had.
LEMMA SameBook ==
    ASSUME \A r \in ResIds :
                /\ Active(r)' <=> Active(r)
                /\ Active(r) => res'[r].slot = res[r].slot
                /\ res'[r].status \in {"cancelled", "deleted", "gone"}
                   <=> res[r].status \in {"cancelled", "deleted", "gone"}
    PROVE  bookAt' = bookAt /\ bookEnded' = bookEnded
<1>1. bookAt' = bookAt
  BY DEF bookAt
<1>2. bookEnded' = bookEnded
  BY DEF bookEnded
<1>3. QED
  BY <1>1, <1>2

\* The slot a handler writes is free, thanks to the index or to the lock.
LEMMA WriterFindsFree ==
    ASSUME BookingInv, NEW q \in Handlers, CanWrite(q), Doing(q, Bookers),
           ~TakenInIndex(call[q].goal, call[q].id)
    PROVE  ~Taken(call[q].goal, call[q].id)
BY DefenceAssumption DEF BookingInv, ClashCheckHolds, CanWrite, TakenInIndex

LEMMA CreateBooks ==
    ASSUME BookingInv, FreshKeys, NEW q \in Handlers, CreateRow(q), ~UNCHANGED res
    PROVE  \E b \in ResIds, s \in Slot : Book!Book(b, s)
<1>0. PICK id, s : id = call[q].id /\ s = call[q].goal
  OBVIOUS
<1>1. id \in ResIds /\ s \in Slot /\ s # NoSlot
  BY <1>0, NullsAssumption DEF BookingInv, TypeInv, CallsOK, CallOK, CreateRow, CanWrite, At, Doing, Bookers
<1>2. res[id].status = "absent"
  BY <1>0 DEF FreshKeys, Creating, CreateRow, CanWrite, At
<1>3. ~Taken(s, id)
  BY <1>0, WriterFindsFree DEF CreateRow, Doing, Bookers
<1>4. \A r \in ResIds : IF r = id THEN res'[r].status = "active" /\ res'[r].slot = s
                                  ELSE res'[r] = res[r]
  BY <1>0, <1>1, BookTypes DEF BookingInv, CreateRow
<1>5. id \notin bookEnded /\ bookAt[id] = NoSlot
  BY <1>1, <1>2 DEF bookEnded, bookAt, Active
<1>6. \A b \in ResIds : bookAt[b] # s
  BY <1>1, <1>2, <1>3 DEF bookAt, Taken, Active
<1>7. bookAt' = [bookAt EXCEPT ![id] = s]
  BY <1>1, <1>4 DEF bookAt, Active
<1>8. bookEnded' = bookEnded
  BY <1>1, <1>2, <1>4 DEF bookEnded
<1>9. Book!Book(id, s)
  BY <1>5, <1>6, <1>7, <1>8 DEF Book!Book, Book!Free, bookAt, bookEnded
<1>10. QED
  BY <1>1, <1>9

LEMMA RescheduleMoves ==
    ASSUME BookingInv, NEW q \in Handlers, RescheduleRow(q), ~UNCHANGED res
    PROVE  \/ bookAt' = bookAt /\ bookEnded' = bookEnded
           \/ \E b \in ResIds, s \in Slot : Book!Move(b, s)
<1>0. PICK id, s : id = call[q].id /\ s = call[q].goal
  OBVIOUS
<1>1. id \in ResIds /\ s \in Slot /\ s # NoSlot
  BY <1>0, NullsAssumption DEF BookingInv, TypeInv, CallsOK, CallOK, RescheduleRow, CanWrite, At, Doing,
     RowKinds, Bookers
<1>2. \A r \in ResIds : /\ res'[r].status = res[r].status
                        /\ res'[r].slot = IF r = id THEN s ELSE res[r].slot
  <2>1. res' = [res EXCEPT ![id].slot = s] /\ DOMAIN res = ResIds /\ \A r \in ResIds : res[r] \in Row
    BY <1>0, BookTypes DEF BookingInv, RescheduleRow
  <2>2. QED
    BY <1>1, <2>1 DEF Row
<1>3. CASE ~Active(id) \/ res[id].slot = s
  BY <1>2, <1>3, SameBook DEF Active
<1>4. CASE Active(id) /\ res[id].slot # s
  <2>1. ~TakenInIndex(s, id)
    BY <1>0, <1>4 DEF RescheduleRow
  <2>2. ~Taken(s, id)
    BY <1>0, <2>1, WriterFindsFree DEF RescheduleRow, Doing, Bookers
  <2>3. \A b \in ResIds : bookAt[b] # s
    BY <1>1, <1>4, <2>2 DEF bookAt, Taken, Active
  <2>4. bookAt[id] # NoSlot
    BY <1>1, <1>4, BookTypes DEF bookAt, BookingInv
  <2>5. bookAt' = [bookAt EXCEPT ![id] = s]
    BY <1>1, <1>2, <1>4 DEF bookAt, Active
  <2>6. bookEnded' = bookEnded
    BY <1>2 DEF bookEnded
  <2>7. Book!Move(id, s)
    BY <2>3, <2>4, <2>5, <2>6 DEF Book!Move, Book!Free, bookAt, bookEnded
  <2>8. QED
    BY <1>1, <2>7
<1>5. QED
  BY <1>3, <1>4

\* Cancelling, rejecting and removing end one booking; the cascade of a removed
\* account ends all of its bookings at once.
LEMMA OthersEnd ==
    ASSUME BookingInv, NEW q \in Handlers, UpdateStatus(q) \/ DeleteUser(q), ~UNCHANGED res
    PROVE  \E B \in SUBSET ResIds : Book!End(B)
<1>0. PICK B \in SUBSET ResIds : B = {r \in ResIds : Active(r) /\ res'[r].status # "active"}
  OBVIOUS
<1>1. \A r \in ResIds : (Kept(r) /\ res'[r].slot = res[r].slot) \/ Ended(r) \/ Gone(r)
  BY EndSteps DEF BookingInv
<1>2. \A r \in ResIds : Active(r) => res[r].slot # NoSlot
  BY BookTypes DEF BookingInv
<1>3. \A b \in B : bookAt[b] # NoSlot
  BY <1>0, <1>2 DEF bookAt
<1>4. bookAt' = [b \in ResIds |-> IF b \in B THEN NoSlot ELSE bookAt[b]]
  <2>1. ASSUME NEW r \in ResIds
        PROVE  bookAt'[r] = IF r \in B THEN NoSlot ELSE bookAt[r]
    BY <1>0, <1>1 DEF bookAt, Kept, Ended, Gone, Active, Stored
  <2>2. QED
    BY <2>1 DEF bookAt
<1>5. bookEnded' = bookEnded \cup B
  BY <1>0, <1>1 DEF bookEnded, Kept, Ended, Gone, Active, Stored
<1>6. Book!End(B)
  BY <1>3, <1>4, <1>5 DEF Book!End, bookAt, bookEnded
<1>7. QED
  BY <1>6

LEMMA BookStep ==
    ASSUME BookingInv, FreshKeys, [Next]_vars
    PROVE  [Book!Next]_Book!vars
<1>1. CASE bookAt' = bookAt /\ bookEnded' = bookEnded
  BY <1>1 DEF Book!vars, bookAt, bookEnded
<1>2. CASE UNCHANGED res
  BY <1>1, <1>2, SameBook DEF Active
<1>3. CASE ~UNCHANGED res
  <2>1. PICK q \in Handlers : CreateRow(q) \/ RescheduleRow(q) \/ UpdateStatus(q) \/ DeleteUser(q)
    BY <1>3, Writers
  <2>2. CASE CreateRow(q)
    BY <1>3, <2>2, CreateBooks DEF Book!Next
  <2>3. CASE RescheduleRow(q)
    BY <1>1, <1>3, <2>3, RescheduleMoves DEF Book!Next
  <2>4. CASE UpdateStatus(q) \/ DeleteUser(q)
    BY <1>3, <2>4, OthersEnd DEF Book!Next
  <2>5. QED
    BY <2>1, <2>2, <2>3, <2>4
<1>4. QED
  BY <1>2, <1>3

LEMMA BookInit == Init => Book!Init
BY DEF Init, Book!Init, bookAt, bookEnded, Active, NoRow

\* However handlers interleave, fail or restart, what they do to the slots is
\* what the abstract book does: a slot has one holder, and a reservation that
\* has ended never holds a slot again (ImplementsSlotBook).
THEOREM ReservationsImplementSlotBook == Spec => ImplementsSlotBook
<1>1. BookingInv /\ FreshKeys /\ [Next]_vars => [Book!Next]_Book!vars
  BY BookStep
<1>2. BookingInv /\ FreshKeys /\ [Next]_vars => FreshKeys'
  BY FreshStep DEF BookingInv
<1>3. Init => FreshKeys
  BY AuditInit
<1>4. QED
  BY <1>1, <1>2, <1>3, BookInit, BookingInit, BookingStep, PTL DEF Spec, ImplementsSlotBook, Book!Spec

----------------------------------------------------------------------------
(* A request for availability reckons with other people's steps; the handlers *)
(* take no others.                                                            *)

\* Who changes the clock and the rooms.
LEMMA ClockAndRooms ==
    ASSUME [Next]_vars
    PROVE  \/ UNCHANGED <<now, open>>
           \/ Tick /\ UNCHANGED <<open, res>>
           \/ \E q \in Handlers : SetRoomActive(q) /\ UNCHANGED <<now, res>>
<1>1. ASSUME NEW q \in Handlers, NEW req \in Requests, Receiving(q, req)
      PROVE  UNCHANGED <<now, open>>
  BY <1>1 DEF Receiving, ReceiveCreate, ReceiveOnRow, ReceiveRemoveUser, ReceiveSetRoom, Receive
<1>2. ASSUME NEW q \in Handlers, Advance(q) \/ DatabaseError(q), ~SetRoomActive(q)
      PROVE  UNCHANGED <<now, open>>
  BY <1>2 DEF Advance, ReadReservation, FindRoom, BuildParticipants, BeginTransaction, FindClash,
     CreateRow, RescheduleRow, UpdateStatus, EditRow, FindUser, DeleteUser, LogAudit, WaitTimeout,
     DatabaseError
<1>3. \A q \in Handlers : SetRoomActive(q) => UNCHANGED <<now, res>>
  BY DEF SetRoomActive
<1>4. CASE Restart \/ Tick \/ UNCHANGED vars
  BY <1>4 DEF Restart, Tick, vars
<1>5. QED
  BY <1>1, <1>2, <1>3, <1>4 DEF Next

\* A slot that is held after a step is one that buildSlots offers.
LEMMA HeldIsOffered ==
    ASSUME TypeInv', NEW b \in ResIds, NEW s \in Slot, bookAt'[b] = s
    PROVE  s \in Others!Slot
<1>1. s # NoSlot
  BY NullsAssumption
<1>2. Active(b)' /\ res'[b].slot = s
  BY <1>1 DEF bookAt
<1>3. IsSlotHour(s.hour)
  BY <1>2 DEF TypeInv, RowsOK, RowOK, Active, Fits
<1>4. \A h \in Hours : IsSlotHour(h) => h \in StartHour..(EndHour - 1)
  BY NumbersAssumption, HoursAssumption DEF IsSlotHour
<1>5. QED
  BY <1>3, <1>4 DEF Slot, Others!Slot

\* With nobody asking there is nothing to note.
LEMMA NothingToNote == \A S : Others!Note(S)
BY DEF Others!Note

LEMMA OthersStep ==
    ASSUME BookingInv, FreshKeys, [Next]_vars
    PROVE  [Others!Next]_Others!vars
<1>1. TypeInv /\ TypeInv'
  BY TypeStep DEF BookingInv
<1>2. CASE Tick /\ UNCHANGED <<open, res>>
  <2>1. bookAt' = bookAt /\ bookEnded' = bookEnded
    BY <1>2, SameBook DEF Active
  <2>2. Others!Tick(now')
    BY <1>2, <2>1, NothingToNote DEF Tick, Others!Tick, Others!book
  <2>3. QED
    BY <1>2, <2>2 DEF Tick, Others!Next
<1>3. ASSUME NEW q \in Handlers, SetRoomActive(q), UNCHANGED <<now, res>>
      PROVE  \E r \in Rooms : Others!SetRoom(r)
  <2>1. call[q].req.slot.room \in Rooms
    BY <1>1, <1>3, RequestsAssumption DEF TypeInv, CallsOK, CallOK, SetRoomActive, CanWrite, At, Doing
  <2>2. bookAt' = bookAt /\ bookEnded' = bookEnded
    BY <1>3, SameBook DEF Active
  <2>3. Others!SetRoom(call[q].req.slot.room)
    BY <1>3, <2>2, NothingToNote DEF SetRoomActive, Others!SetRoom, Others!book
  <2>4. QED
    BY <2>1, <2>3
<1>4. CASE UNCHANGED <<now, open>>
  <2>1. ASSUME NEW b \in ResIds, NEW s \in Slot, Book!Book(b, s) \/ Book!Move(b, s)
        PROVE  Others!Next
    <3>1. bookAt'[b] = s
      BY <2>1 DEF Book!Book, Book!Move, bookAt
    <3>2. s \in Others!Slot
      BY <1>1, <3>1, HeldIsOffered
    <3>3. Others!Take(b, s)
      BY <1>4, <2>1, NothingToNote DEF Others!Take, Others!Book!Book, Others!Book!Move,
         Others!Book!Free, Book!Book, Book!Move, Book!Free
    <3>4. QED
      BY <3>2, <3>3 DEF Others!Next
  <2>2. ASSUME NEW B \in SUBSET ResIds, Book!End(B)
        PROVE  Others!Next
    <3>1. Others!Release(B)
      BY <1>4, <2>2 DEF Others!Release, Others!Book!End, Book!End
    <3>2. QED
      BY <3>1 DEF Others!Next
  <2>3. CASE UNCHANGED Book!vars
    BY <1>4, <2>3 DEF Book!vars, Others!vars
  <2>4. QED
    BY <2>1, <2>2, <2>3, BookStep DEF Book!Next
<1>5. QED
  BY <1>2, <1>3, <1>4, ClockAndRooms DEF Others!Next

LEMMA OthersInit == Init => Others!Init
BY BookInit DEF Init, Book!Init, Others!Init, Others!Book!Init

\* Whatever the handlers do to slots and rooms, and the clock with them, is a step that
\* a request for availability reckons with; above all, what create and update let
\* through is a slot that buildSlots offers (ActsAsOthers).  Hence OfferHolds of
\* Availability holds among them.
THEOREM ReservationsActAsOthers == Spec => ActsAsOthers
<1>1. BookingInv /\ FreshKeys /\ [Next]_vars => [Others!Next]_Others!vars
  BY OthersStep
<1>2. BookingInv /\ FreshKeys /\ [Next]_vars => FreshKeys'
  BY FreshStep DEF BookingInv
<1>3. Init => FreshKeys
  BY AuditInit
<1>4. QED
  BY <1>1, <1>2, <1>3, OthersInit, BookingInit, BookingStep, PTL DEF Spec, ActsAsOthers, Others!Spec
====
