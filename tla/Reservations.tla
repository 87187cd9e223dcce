---- MODULE Reservations ----
(* The booking core of the backend: the handlers that create, cancel, edit,   *)
(* reschedule, reject and remove reservations, and the two handlers that pull *)
(* the ground from under them (an account is deleted, a room is switched      *)
(* off), interleaved over one database.                                       *)
(*                                                                            *)
(* Node runs the handlers in one thread and interleaves them at every await,  *)
(* so each action below is what a handler does between two awaits, around one *)
(* database call.  What a handler remembers across an await is its record in  *)
(* call; everything else is the tables.                                       *)
EXTENDS TehranTime

CONSTANTS
    Users, Admins,          \* accounts, and those with the admin role
    Rooms, Days, Hours,
    ResIds,                 \* primary keys of reservations, never reused
    Handlers,               \* requests the server works on at a time
    Requests,               \* the requests clients send
    Instants,               \* the instants the clock is observed at
    SerialTx,               \* an interactive transaction owns the database's
                            \* write lock from its BEGIN to its end (SQLite)
    UniqueIndex,            \* uniq_active_slot was created at boot
    Faults,                 \* statements may fail and the server may restart
    NoUser, NoRes, NoSlot, NoHandler, NoRequest, Same

Slot == [room: Rooms, day: Days, hour: Hours]

\* UpdateReservationDto leaves out the parts it does not change.
PartialSlot == [room: Rooms \cup {Same}, day: Days \cup {Same}, hour: Hours \cup {Same}]

RowKinds == {"cancel", "edit", "reschedule", "reject", "remove"}
AdminKinds == {"edit", "reschedule", "reject", "remove", "removeUser", "setRoom"}
Kinds == RowKinds \cup AdminKinds \cup {"create"}
Bookers == {"create", "reschedule"}     \* the kinds that claim a slot

\* One shape for all requests; a kind ignores the fields it has no use for.
Request == [kind: Kinds, by: Users, id: ResIds \cup {NoRes}, slot: PartialSlot,
            mentions: SUBSET Users, whom: Users \cup {NoUser}, open: BOOLEAN]

ASSUME RequestsAssumption ==
    /\ Requests \subseteq Request
    /\ Admins \subseteq Users
    /\ \A r \in Requests :
        /\ r.kind \in RowKinds => r.id \in ResIds
        /\ r.kind = "create" => r.slot \in Slot
        /\ r.kind = "removeUser" => r.whom \in Users
        /\ r.kind = "setRoom" => r.slot.room \in Rooms
ASSUME NumbersAssumption ==
    Instants \subseteq Nat /\ Instants # {} /\ Days \subseteq Nat /\ Hours \subseteq Nat
ASSUME NullsAssumption ==
    /\ NoUser \notin Users /\ NoRes \notin ResIds /\ NoSlot \notin Slot
    /\ NoHandler \notin Handlers /\ NoRequest \notin Requests
    /\ Same \notin Rooms \cup Days \cup Hours
\* Either layer of the defence is present; the deployment has both.
ASSUME DefenceAssumption ==
    SerialTx \in BOOLEAN /\ UniqueIndex \in BOOLEAN /\ (SerialTx \/ UniqueIndex)
ASSUME FaultsAssumption == Faults \in BOOLEAN

VARIABLES
    now,      \* the clock
    users,    \* accounts that exist
    open,     \* rooms with isActive
    res,      \* the reservations table with its participants
    audit,    \* the audit_logs table
    tx,       \* the handler whose transaction owns the write lock
    call      \* what each handler is doing

vars == <<now, users, open, res, audit, tx, call>>

\* A key is "absent" until its row is inserted and "gone" once a cascade
\* deleted it; the other statuses are the column's values.
Statuses == {"absent", "active", "cancelled", "deleted", "gone"}
Row == [status: Statuses, userId: Users \cup {NoUser}, slot: Slot \cup {NoSlot},
        people: SUBSET (Users \cup {NoUser})]
NoRow(status) == [status |-> status, userId |-> NoUser, slot |-> NoSlot, people |-> {}]
Stored(r) == res[r].status \in {"active", "cancelled", "deleted"}
Active(r) == res[r].status = "active"

\* An audit action is named by the kind of request that logs it.
Entry == [actor: Users \cup {NoUser}, action: Kinds, entity: ResIds \cup Users \cup {NoRes, NoUser}]

Steps == {"idle", "read", "room", "people", "begin", "clash", "write", "audit"}
Call == [step: Steps, req: Requests \cup {NoRequest}, id: ResIds \cup {NoRes},
         goal: PartialSlot \cup {NoSlot}]
Idle == [step |-> "idle", req |-> NoRequest, id |-> NoRes, goal |-> NoSlot]

TypeOK ==
    /\ now \in Instants
    /\ users \subseteq Users
    /\ open \subseteq Rooms
    /\ res \in [ResIds -> Row]
    /\ audit \subseteq Entry
    /\ tx \in Handlers \cup {NoHandler}
    /\ call \in [Handlers -> Call]

Init ==
    /\ now \in Instants
    /\ users = Users
    /\ open = Rooms
    /\ res = [r \in ResIds |-> NoRow("absent")]
    /\ audit = {}
    /\ tx = NoHandler
    /\ call = [q \in Handlers |-> Idle]

----------------------------------------------------------------------------
(* Helpers of the handlers.                                                 *)

At(q, step) == call[q].step = step
Doing(q, kinds) == call[q].req.kind \in kinds

Goto(q, step) == call' = [call EXCEPT ![q].step = step]

\* The handler returns or throws: its transaction, if it has one, ends.
Answer(q) ==
    /\ call' = [call EXCEPT ![q] = Idle]
    /\ tx' = IF tx = q THEN NoHandler ELSE tx

\* A write statement needs the write lock nobody else's transaction holds; the
\* handler that wrote goes on to the audit entry, its transaction committed.
CanWrite(q) == At(q, "write") /\ tx \in {NoHandler, q}
Committed(q) ==
    /\ Goto(q, "audit")
    /\ tx' = IF tx = q THEN NoHandler ELSE tx

\* The checks create and update share.
Bookable(slot, t) ==
    /\ IsAllowedDay(slot.day)
    /\ IsWithinBookingWindow(slot.day, t)
    /\ IsSlotHour(slot.hour)

\* Some other active reservation holds the slot: the query of the clash check,
\* and the condition uniq_active_slot refuses.
Taken(slot, id) == \E r \in ResIds \ {id} : Active(r) /\ res[r].slot = slot
IndexMissing(slot, id) == FALSE                      \* mutant: index not created
TakenInIndex(slot, id) == UniqueIndex /\ Taken(slot, id)

\* dto.roomId ?? current.roomId, and so on.
FillIn(part, slot) ==
    [room |-> IF part.room = Same THEN slot.room ELSE part.room,
     day  |-> IF part.day = Same THEN slot.day ELSE part.day,
     hour |-> IF part.hour = Same THEN slot.hour ELSE part.hour]

\* The guards in front of every handler: the account still exists, and has the
\* admin role where the route asks for it.
Authorised(req) == req.by \in users /\ (req.kind \in AdminKinds => req.by \in Admins)

Receive(q, req, step, id, goal) ==
    /\ At(q, "idle") /\ Authorised(req)
    /\ call' = [call EXCEPT ![q] = [step |-> step, req |-> req, id |-> id, goal |-> goal]]
    /\ UNCHANGED <<now, users, open, res, audit, tx>>

----------------------------------------------------------------------------
(* Arrival of a request.  One that fails the checks made before the first    *)
(* await is answered at once and leaves no trace.                            *)

\* ReservationsService.create up to its first query.
ReceiveCreate(q, req) ==
    /\ req.kind = "create"
    /\ Bookable(req.slot, now)
    /\ ~IsSlotPast(req.slot.day, req.slot.hour, now)
    \* A new uuid: no row has it, nor will the row of another create.
    /\ \E r \in ResIds :
        /\ res[r].status = "absent"
        /\ \A p \in Handlers : call[p].id # r
        /\ Receive(q, req, "room", r, req.slot)

ReceiveOnRow(q, req) == req.kind \in RowKinds /\ Receive(q, req, "read", req.id, NoSlot)

\* AdminUsersService.remove: an admin cannot remove their own account.
ReceiveRemoveUser(q, req) ==
    req.kind = "removeUser" /\ req.whom # req.by /\ Receive(q, req, "read", NoRes, NoSlot)

\* RoomsService.update; ensureExists always finds the room, rooms are never deleted.
ReceiveSetRoom(q, req) == req.kind = "setRoom" /\ Receive(q, req, "write", NoRes, NoSlot)

----------------------------------------------------------------------------
(* The handlers between their awaits.                                        *)

\* Mutants: cancel forgets whose reservation it is; update checks the slot the
\* row has instead of the one it is moved to.
AnyoneCancels(req, row) ==
    /\ row.status \in {"active", "cancelled", "deleted"}
    /\ req.kind = "cancel" =>
        row.status = "active" /\ ~IsSlotPast(row.slot.day, row.slot.hour, now)
    /\ req.kind = "reschedule" => Bookable(FillIn(req.slot, row.slot), now)
ChecksOldSlot(req, row) ==
    /\ row.status \in {"active", "cancelled", "deleted"}
    /\ req.kind = "cancel" =>
        /\ row.userId = req.by
        /\ row.status = "active"
        /\ ~IsSlotPast(row.slot.day, row.slot.hour, now)
    /\ req.kind = "reschedule" => Bookable(row.slot, now)

\* What cancel and update check on the row they have just read.
MayGoOn(req, row) ==
    /\ row.status \in {"active", "cancelled", "deleted"}
    /\ req.kind = "cancel" =>
        /\ row.userId = req.by
        /\ row.status = "active"
        /\ ~IsSlotPast(row.slot.day, row.slot.hour, now)
    /\ req.kind = "reschedule" => Bookable(FillIn(req.slot, row.slot), now)

\* findUnique of cancel, update, reject and remove.
ReadReservation(q) ==
    LET req == call[q].req
        row == res[call[q].id]
    IN  /\ At(q, "read") /\ Doing(q, RowKinds)
        /\ \/ /\ MayGoOn(req, row)
              /\ call' = IF req.kind = "reschedule"
                         THEN [call EXCEPT ![q].step = "room", ![q].goal = FillIn(req.slot, row.slot)]
                         ELSE [call EXCEPT ![q].step = "write"]
              /\ UNCHANGED tx
           \/ ~MayGoOn(req, row) /\ Answer(q)
        /\ UNCHANGED <<now, users, open, res, audit>>

\* room.findFirst with isActive, in create and in a reschedule.
FindRoom(q) ==
    /\ At(q, "room")
    /\ \/ /\ call[q].goal.room \in open
          /\ Goto(q, IF call[q].req.mentions # {} /\ Doing(q, {"create"}) THEN "people" ELSE "begin")
          /\ UNCHANGED tx
       \/ call[q].goal.room \notin open /\ Answer(q)
    /\ UNCHANGED <<now, users, open, res, audit>>

\* buildParticipants looks the mentioned accounts up.
BuildParticipants(q) ==
    /\ At(q, "people")
    /\ \/ call[q].req.mentions \subseteq users /\ Goto(q, "begin") /\ UNCHANGED tx
       \/ ~(call[q].req.mentions \subseteq users) /\ Answer(q)
    /\ UNCHANGED <<now, users, open, res, audit>>

\* Mutant: a deferred BEGIN that takes no lock.
BeginDeferred(q) == At(q, "begin") /\ Goto(q, "clash") /\ UNCHANGED <<now, users, open, res, audit, tx>>

BeginTransaction(q) ==
    /\ At(q, "begin")
    /\ SerialTx => tx = NoHandler
    /\ tx' = IF SerialTx THEN q ELSE tx
    /\ Goto(q, "clash")
    /\ UNCHANGED <<now, users, open, res, audit>>

\* Mutants: no check; a refusal that leaves the transaction open.
NoClashCheck(q) ==
    At(q, "clash") /\ Goto(q, "write") /\ UNCHANGED <<now, users, open, res, audit, tx>>
ClashKeepsLock(q) ==
    /\ At(q, "clash")
    /\ call' = IF Taken(call[q].goal, call[q].id) THEN [call EXCEPT ![q] = Idle]
               ELSE [call EXCEPT ![q].step = "write"]
    /\ UNCHANGED <<now, users, open, res, audit, tx>>

\* tx.reservation.findFirst
FindClash(q) ==
    /\ At(q, "clash")
    /\ \/ ~Taken(call[q].goal, call[q].id) /\ Goto(q, "write") /\ UNCHANGED tx
       \/ Taken(call[q].goal, call[q].id) /\ Answer(q)
    /\ UNCHANGED <<now, users, open, res, audit>>

\* Mutant: a database without foreign keys.
CreateUnchecked(q) ==
    LET refused == TakenInIndex(call[q].goal, call[q].id)
    IN  /\ CanWrite(q) /\ Doing(q, {"create"})
        /\ \/ refused /\ Answer(q) /\ UNCHANGED res
           \/ /\ ~refused
              /\ res' = [res EXCEPT ![call[q].id] =
                    [status |-> "active", userId |-> call[q].req.by, slot |-> call[q].goal,
                     people |-> call[q].req.mentions]]
              /\ Committed(q)
        /\ UNCHANGED <<now, users, open, audit>>

\* tx.reservation.create: the index answers P2002, a foreign key P2003.
CreateRow(q) ==
    LET req == call[q].req
        refused == \/ TakenInIndex(call[q].goal, call[q].id)
                   \/ ~(req.mentions \cup {req.by} \subseteq users)
    IN  /\ CanWrite(q) /\ Doing(q, {"create"})
        /\ \/ refused /\ Answer(q) /\ UNCHANGED res
           \/ /\ ~refused
              /\ res' = [res EXCEPT ![call[q].id] =
                    [status |-> "active", userId |-> req.by, slot |-> call[q].goal,
                     people |-> req.mentions]]
              /\ Committed(q)
        /\ UNCHANGED <<now, users, open, audit>>

\* Mutant: a reschedule that makes the reservation active again.
RescheduleRevives(q) ==
    /\ CanWrite(q) /\ Doing(q, {"reschedule"})
    /\ Stored(call[q].id) /\ ~TakenInIndex(call[q].goal, call[q].id)
    /\ res' = [res EXCEPT ![call[q].id].slot = call[q].goal, ![call[q].id].status = "active"]
    /\ Committed(q)
    /\ UNCHANGED <<now, users, open, audit>>

\* tx.reservation.update: P2025 when a cascade took the row; the index only
\* looks at active rows.
RescheduleRow(q) ==
    LET id == call[q].id
        refused == ~Stored(id) \/ (Active(id) /\ TakenInIndex(call[q].goal, id))
    IN  /\ CanWrite(q) /\ Doing(q, {"reschedule"})
        /\ \/ refused /\ Answer(q) /\ UNCHANGED res
           \/ ~refused /\ res' = [res EXCEPT ![id].slot = call[q].goal] /\ Committed(q)
        /\ UNCHANGED <<now, users, open, audit>>

\* Mutant: a status the column does not know, as accounts have one.
WritesRejected(q) ==
    /\ CanWrite(q) /\ Doing(q, {"cancel", "reject", "remove"})
    /\ Stored(call[q].id)
    /\ res' = [res EXCEPT ![call[q].id].status = IF Doing(q, {"reject"}) THEN "rejected" ELSE "cancelled"]
    /\ Committed(q)
    /\ UNCHANGED <<now, users, open, audit>>

\* The update by primary key of cancel, reject and remove: it looks at nothing
\* the handler read before.
UpdateStatus(q) ==
    LET id == call[q].id
        status == IF Doing(q, {"remove"}) THEN "deleted" ELSE "cancelled"
    IN  /\ CanWrite(q) /\ Doing(q, {"cancel", "reject", "remove"})
        /\ \/ ~Stored(id) /\ Answer(q) /\ UNCHANGED res
           \/ Stored(id) /\ res' = [res EXCEPT ![id].status = status] /\ Committed(q)
        /\ UNCHANGED <<now, users, open, audit>>

\* Title, description and head count are not modelled, the row's existence is.
EditRow(q) ==
    /\ CanWrite(q) /\ Doing(q, {"edit"})
    /\ \/ ~Stored(call[q].id) /\ Answer(q)
       \/ Stored(call[q].id) /\ Committed(q)
    /\ UNCHANGED <<now, users, open, res, audit>>

\* getOrThrow of AdminUsersService.remove.
FindUser(q) ==
    /\ At(q, "read") /\ Doing(q, {"removeUser"})
    /\ \/ call[q].req.whom \in users /\ Goto(q, "write") /\ UNCHANGED tx
       \/ call[q].req.whom \notin users /\ Answer(q)
    /\ UNCHANGED <<now, users, open, res, audit>>

\* user.delete: the schema cascades to the account's reservations and sets the
\* other references to it to null.
Forget(u, S) == IF u \in S THEN (S \ {u}) \cup {NoUser} ELSE S
DeleteUser(q) ==
    LET u == call[q].req.whom
    IN  /\ CanWrite(q) /\ Doing(q, {"removeUser"})
        /\ \/ u \notin users /\ Answer(q) /\ UNCHANGED <<users, res, audit>>
           \/ /\ u \in users
              /\ users' = users \ {u}
              /\ res' = [r \in ResIds |->
                    IF res[r].userId = u THEN NoRow("gone")
                    ELSE [res[r] EXCEPT !.people = Forget(u, @)]]
              /\ audit' = {[e EXCEPT !.actor = IF @ = u THEN NoUser ELSE @] : e \in audit}
              /\ Committed(q)
        /\ UNCHANGED <<now, open>>

\* room.update of isActive; existing reservations of the room stay.
SetRoomActive(q) ==
    LET req == call[q].req
    IN  /\ CanWrite(q) /\ Doing(q, {"setRoom"})
        /\ open' = IF req.open THEN open \cup {req.slot.room} ELSE open \ {req.slot.room}
        /\ Answer(q)
        /\ UNCHANGED <<now, users, res, audit>>

\* AuditService.log swallows every error, such as an actor who is gone.
LogAudit(q) ==
    LET req == call[q].req
        entry == [actor |-> req.by, action |-> req.kind,
                  entity |-> IF req.kind = "removeUser" THEN req.whom ELSE call[q].id]
    IN  /\ At(q, "audit") /\ tx = NoHandler
        /\ audit' = IF req.by \in users THEN audit \cup {entry} ELSE audit
        /\ Answer(q)
        /\ UNCHANGED <<now, users, open, res>>

----------------------------------------------------------------------------
(* What the handlers do not choose.                                          *)

WaitsForever(q) == FALSE                             \* mutant: no maxWait
\* Prisma gives up waiting for the write lock (maxWait, busy timeout).
WaitTimeout(q) ==
    /\ call[q].step \in {"begin", "write", "audit"}
    /\ tx \notin {NoHandler, q}
    /\ Answer(q)
    /\ UNCHANGED <<now, users, open, res, audit>>

\* Any statement may fail, and an open transaction is then rolled back: it has
\* written nothing, its only write is its last statement.
DatabaseError(q) ==
    /\ Faults /\ ~At(q, "idle")
    /\ Answer(q)
    /\ UNCHANGED <<now, users, open, res, audit>>

\* The process dies and comes back: the tables survive, the handlers do not.
Restart ==
    /\ Faults
    /\ call' = [q \in Handlers |-> Idle]
    /\ tx' = NoHandler
    /\ UNCHANGED <<now, users, open, res, audit>>

Tick ==
    /\ now' \in {t \in Instants : t > now}
    /\ UNCHANGED <<users, open, res, audit, tx, call>>

Receiving(q, req) ==
    ReceiveCreate(q, req) \/ ReceiveOnRow(q, req) \/ ReceiveRemoveUser(q, req) \/ ReceiveSetRoom(q, req)

Advance(q) ==
    \/ ReadReservation(q) \/ FindRoom(q) \/ BuildParticipants(q)
    \/ BeginTransaction(q) \/ FindClash(q) \/ CreateRow(q) \/ RescheduleRow(q)
    \/ UpdateStatus(q) \/ EditRow(q) \/ FindUser(q) \/ DeleteUser(q)
    \/ SetRoomActive(q) \/ LogAudit(q) \/ WaitTimeout(q)

Next ==
    \/ \E q \in Handlers, req \in Requests : Receiving(q, req)
    \/ \E q \in Handlers : Advance(q) \/ DatabaseError(q)
    \/ Restart \/ Tick

Spec == Init /\ [][Next]_vars

\* The event loop runs every handler whose database call has returned, and
\* Prisma answers every call or gives up on it.
Fairness == \A q \in Handlers : WF_vars(Advance(q))
FairSpec == Spec /\ Fairness

----------------------------------------------------------------------------
(* Correctness.                                                              *)

\* README, "each slot of each room has only one active reservation": two
\* create or update handlers that both saw the slot free never both get it.
NoDoubleBooking ==
    \A r, s \in ResIds :
        r # s /\ Active(r) /\ Active(s) => res[r].slot # res[s].slot

\* The comment on create: a write transaction already holds the database lock,
\* so what the clash check saw is still so when the row is written, and the
\* index never has to refuse.
ClashCheckHolds ==
    \A q \in Handlers :
        SerialTx /\ At(q, "write") /\ Doing(q, Bookers) => ~Taken(call[q].goal, call[q].id)

\* The owner and the mentioned accounts of a stored reservation exist, although
\* create looks them up long before it writes and an admin may delete them in
\* between or at any time later.
ReferencesExist ==
    \A r \in ResIds : Stored(r) =>
        res[r].userId \in users /\ res[r].people \subseteq users \cup {NoUser}

\* No reservation sits on a closed weekday, outside opening hours or beyond the
\* booking window: a reschedule that names one part of the slot is checked
\* together with the parts it takes over from the row.
Fits(slot, t) ==
    IsAllowedDay(slot.day) /\ slot.day <= Today(t) + MaxDaysAhead /\ IsSlotHour(slot.hour)
StoredSlotsBookable == \A r \in ResIds : Stored(r) => Fits(res[r].slot, now)

\* The audit log never tells of something that did not happen or was undone: a
\* created reservation was inserted, a cancelled, rejected or removed one is
\* never active again, only the owner cancelled it, a removed account is gone.
AuditSound ==
    \A e \in audit :
        /\ e.action = "create" => res[e.entity].status # "absent"
        /\ e.action \in {"cancel", "reject", "remove"} => ~Active(e.entity)
        /\ e.action = "cancel" /\ Stored(e.entity) => res[e.entity].userId = e.actor
        /\ e.action = "removeUser" => e.entity \notin users

\* What the tables say of slots: a reservation holds its slot while it is active, and
\* has ended once it was active and is not any more.
bookAt == [r \in ResIds |-> IF Active(r) THEN res[r].slot ELSE NoSlot]
bookEnded == {r \in ResIds : res[r].status \in {"cancelled", "deleted", "gone"}}

\* The handlers, tables and lock implement the abstract book.
Book == INSTANCE SlotBook WITH Bookings <- ResIds, Slots <- Slot, at <- bookAt, ended <- bookEnded
ImplementsSlotBook == Book!Spec

\* All that goes on here, clock and rooms included, is what a request for availability
\* reckons with: create and update write slots that buildSlots knows, one at a time.
Others == INSTANCE Availability WITH
    Bookings <- ResIds, Readers <- {}, at <- bookAt, ended <- bookEnded, ask <- <<>>, news <- <<>>
ActsAsOthers == Others!Spec

\* Every request is answered, whoever holds the lock and however often the slot
\* it wants is contended.
EventuallyAnswered == \A q \in Handlers : ~At(q, "idle") ~> At(q, "idle")

\* No handler keeps the write lock: every way out of the transaction ends it.
LockReleased == \A q \in Handlers : tx = q ~> tx # q

----------------------------------------------------------------------------
(* What the documentation says and the code does not do.                     *)

\* README: a user can only cancel before the meeting starts.  It holds of the
\* row and the clock at the check, not at the update one await later.
CancelledBeforeStart ==
    [][\A q \in Handlers :
        UpdateStatus(q) /\ Doing(q, {"cancel"}) /\ res' # res =>
            LET slot == res[call[q].id].slot
            IN  ~IsSlotPast(slot.day, slot.hour, now)]_vars

\* README: removals and rejections by an admin are recorded in the audit log.
AdminActionsAudited ==
    [][\A q \in Handlers :
        LogAudit(q) /\ Doing(q, {"reject", "remove"}) =>
            \E e \in audit' : e.action = call[q].req.kind /\ e.entity = call[q].id]_vars

\* The comments on UpdateReservationDto and update: a reschedule names room, date
\* and hour together.  Then the slot it writes is never assembled from a row that
\* has changed since it was read, and no other admin's move is undone.
ReschedulesAreWhole ==
    [][\A q \in Handlers :
        RescheduleRow(q) /\ res' # res =>
            call[q].goal = FillIn(call[q].req.slot, res[call[q].id].slot)]_vars
====
