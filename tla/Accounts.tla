---- MODULE Accounts ----
(* Accounts and rooms: registration, sign-in, profile, what admins do to        *)
(* accounts and to room names, and the seed at every start.  A request is a     *)
(* handler that keeps what it read between two awaits while others change the   *)
(* tables; the guards look at its sender once, when it arrives.  The audit      *)
(* entry that ends an admin's request is in Reservations.tla: nothing here      *)
(* reads it, and its failure is swallowed.                                      *)
EXTENDS Integers

CONSTANTS
    MaxAccounts,    \* bounds how many accounts are ever created
    Mobiles, SeedMobile,
    RoomIds,
    Names,          \* room names as sent, spaces included
    Trim,           \* the name a sent name is stored as
    SeedNames,
    Handlers,
    Requests,       \* what is asked of the server: narrows the inputs
    NoMobile, NoName, NoRoom

ASSUME AccountsAssumption == MaxAccounts \in Nat \ {0}
ASSUME TrimAssumption == Trim \in [Names -> Names] /\ \A n \in Names : Trim[Trim[n]] = Trim[n]
ASSUME SeedAssumption == SeedMobile \in Mobiles /\ SeedNames \subseteq Names
                         /\ \A n \in SeedNames : Trim[n] = n
ASSUME NullsAssumption == NoMobile \notin Mobiles /\ NoName \notin Names /\ NoRoom \notin RoomIds

VARIABLES
    account,    \* users
    tokens,     \* accounts with a row in refresh_tokens
    bearers,    \* history: accounts an access token was ever signed for
    rooms,      \* rooms: the stored name of each
    call        \* handlers

vars == <<account, tokens, bearers, rooms, call>>

--------------------------------------------------------------------------------
(* Tables and requests.                                                         *)

\* Accounts in the order of their creation; 0 stands for nobody.
Ids == 1..MaxAccounts
Nobody == 0

Statuses == {"absent", "pending", "active", "rejected", "gone"}
Account == [status : Statuses, role : {"user", "admin"}, mobile : Mobiles \cup {NoMobile}]
Row(status, role, mobile) == [status |-> status, role |-> role, mobile |-> mobile]
Absent == Row("absent", "user", NoMobile)
Gone == Row("gone", "user", NoMobile)

AdminKinds == {"approve", "reject", "makeAdmin", "revokeAdmin", "remove"}
RoomKinds == {"createRoom", "renameRoom"}
Request == [kind : AdminKinds \cup RoomKinds \cup {"register", "login", "profile"},
            by : Ids \cup {Nobody}, whom : Ids \cup {Nobody}, mobile : Mobiles \cup {NoMobile},
            room : RoomIds \cup {NoRoom}, name : Names \cup {NoName}]

\* What the DTOs let through.
ASSUME RequestsAssumption ==
    /\ Requests \subseteq Request
    /\ \A r \in Requests :
         /\ r.kind \in {"register", "login"} => r.mobile \in Mobiles
         /\ r.kind \in RoomKinds => r.name \in Names
         /\ r.kind = "renameRoom" => r.room \in RoomIds
         /\ r.kind = "createRoom" => r.room = NoRoom

Exists(i) == i \in Ids /\ account[i].status \notin {"absent", "gone"}

\* Where a handler is, the role its sender had when the guards looked ("user" on a
\* public route), and what it has read: the account, or that the name is free.
Idle == [pc |-> "idle", req |-> [kind |-> "login", by |-> Nobody, whom |-> Nobody, mobile |-> NoMobile,
                                 room |-> NoRoom, name |-> NoName], role |-> "user", id |-> Nobody, seen |-> Absent]
Call == [pc : {"idle", "find", "write"}, req : Request, role : {"user", "admin"},
         id : Ids \cup {Nobody}, seen : Account]

At(q, pc) == call[q].pc = pc
Doing(q, kinds) == call[q].req.kind \in kinds
Go(q, pc) == call' = [call EXCEPT ![q].pc = pc]
Done(q) == call' = [call EXCEPT ![q] = Idle]

\* The unique columns users.mobile and rooms.name.
MobileTaken(m) == \E i \in Ids : account[i].mobile = m
NameTaken(n, self) == \E r \in RoomIds \ {self} : rooms[r] = n

\* A new account gets the next id.
AddAccount(row) ==
    \E i \in Ids :
        /\ account[i].status = "absent" /\ \A j \in Ids : j < i => account[j].status # "absent"
        /\ account' = [account EXCEPT ![i] = row]

\* seed: rooms and the default admin, each only where its key is missing.
SeededRooms(r) == \A n \in SeedNames : \E k \in RoomIds : r[k] = n
UniqueNames(r) == \A j, k \in RoomIds : j # k /\ r[j] # NoName => r[j] # r[k]
Init ==
    /\ account = [i \in Ids |-> IF i = 1 THEN Row("active", "admin", SeedMobile) ELSE Absent]
    /\ tokens = {} /\ bearers = {}
    /\ rooms \in [RoomIds -> SeedNames \cup {NoName}]
    /\ SeededRooms(rooms) /\ UniqueNames(rooms)
    /\ call = [q \in Handlers |-> Idle]

--------------------------------------------------------------------------------
(* Requests arrive.                                                             *)

Receive(q, r, role) ==
    /\ At(q, "idle")
    /\ call' = [call EXCEPT ![q] = [Idle EXCEPT !.pc = "find", !.req = r, !.role = role]]
    /\ UNCHANGED <<account, tokens, bearers, rooms>>

ReceivePublic(q, r) == r.kind \in {"register", "login"} /\ Receive(q, r, "user")

\* Mutant: the roles of the routes are not looked at.
PassesAnyRole(r) ==
    /\ r.by \in bearers /\ Exists(r.by) /\ account[r.by].status = "active"
    /\ r.kind \in {"revokeAdmin", "remove"} => r.whom # r.by

\* The guards: the token's account exists, is approved and has the role the
\* route asks for.  An admin does not revoke or remove themself.
Passes(r) ==
    /\ r.by \in bearers /\ Exists(r.by) /\ account[r.by].status = "active"
    /\ r.kind \in AdminKinds \cup RoomKinds => account[r.by].role = "admin"
    /\ r.kind \in {"revokeAdmin", "remove"} => r.whom # r.by

ReceiveGuarded(q, r) ==
    r.kind \notin {"register", "login"} /\ Passes(r) /\ Receive(q, r, account[r.by].role)

--------------------------------------------------------------------------------
(* Registration and sign-in.                                                    *)

\* findUnique: register goes on without an account, login with one.
FindMobile(q) ==
    LET m == call[q].req.mobile IN
    /\ At(q, "find") /\ Doing(q, {"register", "login"})
    /\ IF Doing(q, {"login"}) /\ MobileTaken(m)
       THEN LET i == CHOOSE j \in Ids : account[j].mobile = m
            IN call' = [call EXCEPT ![q] = [@ EXCEPT !.pc = "write", !.id = i, !.seen = account[i]]]
       ELSE IF Doing(q, {"register"}) /\ ~MobileTaken(m) THEN Go(q, "write") ELSE Done(q)
    /\ UNCHANGED <<account, tokens, bearers, rooms>>

\* Mutant: users.mobile is not unique in the database.
CreateUnchecked(q) ==
    /\ At(q, "write") /\ Doing(q, {"register"})
    /\ AddAccount(Row("pending", "user", call[q].req.mobile))
    /\ Done(q)
    /\ UNCHANGED <<tokens, bearers, rooms>>

\* register, after the password is hashed.
CreateAccount(q) ==
    /\ At(q, "write") /\ Doing(q, {"register"})
    /\ IF MobileTaken(call[q].req.mobile) THEN UNCHANGED account
       ELSE AddAccount(Row("pending", "user", call[q].req.mobile))
    /\ Done(q)
    /\ UNCHANGED <<tokens, bearers, rooms>>

\* Mutant: login does not look at pending.
IssueToPending(q) ==
    LET i == call[q].id IN
    /\ At(q, "write") /\ Doing(q, {"login"})
    /\ IF call[q].seen.status # "rejected" /\ Exists(i)
       THEN tokens' = tokens \cup {i} /\ bearers' = bearers \cup {i}
       ELSE UNCHANGED <<tokens, bearers>>
    /\ Done(q)
    /\ UNCHANGED <<account, rooms>>

\* login, after the password was compared: the status is the one read before, and
\* the new token's foreign key asks for the account.
IssueTokens(q) ==
    LET i == call[q].id IN
    /\ At(q, "write") /\ Doing(q, {"login"})
    /\ IF call[q].seen.status = "active" /\ Exists(i)
       THEN tokens' = tokens \cup {i} /\ bearers' = bearers \cup {i}
       ELSE UNCHANGED <<tokens, bearers>>
    /\ Done(q)
    /\ UNCHANGED <<account, rooms>>

--------------------------------------------------------------------------------
(* Accounts.                                                                    *)

\* getOrThrow, and updateProfile's findUnique.
FindAccount(q) ==
    LET i == IF Doing(q, {"profile"}) THEN call[q].req.by ELSE call[q].req.whom IN
    /\ At(q, "find") /\ Doing(q, AdminKinds \cup {"profile"})
    /\ IF Exists(i) THEN call' = [call EXCEPT ![q] = [@ EXCEPT !.pc = "write", !.id = i, !.seen = account[i]]]
       ELSE Done(q)
    /\ UNCHANGED <<account, tokens, bearers, rooms>>

Changed(a, kind) ==
    CASE kind = "approve"     -> [a EXCEPT !.status = "active"]
      [] kind = "reject"      -> [a EXCEPT !.status = "rejected"]
      [] kind = "makeAdmin"   -> [a EXCEPT !.role = "admin", !.status = "active"]
      [] kind = "revokeAdmin" -> [a EXCEPT !.role = "user"]

\* user.update by primary key; it fails when the account is gone by now.
UpdateAccount(q) ==
    LET i == call[q].id IN
    /\ At(q, "write") /\ Doing(q, AdminKinds \ {"remove"})
    /\ IF Exists(i)
       THEN account' = [account EXCEPT ![i] = Changed(@, call[q].req.kind)]
       ELSE UNCHANGED account
    /\ Done(q)
    /\ UNCHANGED <<tokens, bearers, rooms>>

\* Mutant: refresh_tokens rows are not deleted with their account.
DeleteKeepsTokens(q) ==
    LET i == call[q].id IN
    /\ At(q, "write") /\ Doing(q, {"remove"})
    /\ IF Exists(i) THEN account' = [account EXCEPT ![i] = Gone] ELSE UNCHANGED account
    /\ Done(q)
    /\ UNCHANGED <<tokens, bearers, rooms>>

\* Mutant: a soft delete with a status the column does not know.
DeleteMarksGone(q) ==
    LET i == call[q].id IN
    /\ At(q, "write") /\ Doing(q, {"remove"})
    /\ IF Exists(i) THEN account' = [account EXCEPT ![i].status = "deleted"] ELSE UNCHANGED account
    /\ Done(q)
    /\ UNCHANGED <<tokens, bearers, rooms>>

\* user.delete: refresh tokens go with the account.
DeleteAccount(q) ==
    LET i == call[q].id IN
    /\ At(q, "write") /\ Doing(q, {"remove"})
    /\ IF Exists(i)
       THEN account' = [account EXCEPT ![i] = Gone] /\ tokens' = tokens \ {i}
       ELSE UNCHANGED <<account, tokens>>
    /\ Done(q)
    /\ UNCHANGED <<bearers, rooms>>

\* updateProfile writes names and password, columns this module does not keep.
UpdateProfile(q) ==
    /\ At(q, "write") /\ Doing(q, {"profile"})
    /\ Done(q)
    /\ UNCHANGED <<account, tokens, bearers, rooms>>

--------------------------------------------------------------------------------
(* Rooms.                                                                       *)

\* The check looks for the name as it was sent.  A room is never deleted, so one
\* that ensureExists finds stays.
FindName(q) ==
    LET r == call[q].req IN
    /\ At(q, "find") /\ Doing(q, RoomKinds)
    /\ IF NameTaken(r.name, r.room) \/ (Doing(q, {"renameRoom"}) /\ rooms[r.room] = NoName)
       THEN Done(q) ELSE Go(q, "write")
    /\ UNCHANGED <<account, tokens, bearers, rooms>>

\* Mutant: the name is stored as sent.
WriteUntrimmed(q) ==
    LET r == call[q].req IN
    /\ At(q, "write") /\ Doing(q, RoomKinds)
    /\ IF NameTaken(r.name, r.room) THEN UNCHANGED rooms
       ELSE \E k \in RoomIds :
              /\ IF Doing(q, {"createRoom"}) THEN rooms[k] = NoName ELSE k = r.room
              /\ rooms' = [rooms EXCEPT ![k] = r.name]
    /\ Done(q)
    /\ UNCHANGED <<account, tokens, bearers>>

\* The write stores it trimmed, and the unique column compares that.
WriteRoom(q) ==
    LET r == call[q].req IN
    /\ At(q, "write") /\ Doing(q, RoomKinds)
    /\ IF NameTaken(Trim[r.name], r.room) THEN UNCHANGED rooms
       ELSE \E k \in RoomIds :
              /\ IF Doing(q, {"createRoom"}) THEN rooms[k] = NoName ELSE k = r.room
              /\ rooms' = [rooms EXCEPT ![k] = Trim[r.name]]
    /\ Done(q)
    /\ UNCHANGED <<account, tokens, bearers>>

--------------------------------------------------------------------------------
(* Failures.                                                                    *)

\* A statement fails: the handler answers 500.
StatementFails(q) ==
    /\ call[q].pc \in {"find", "write"}
    /\ Done(q)
    /\ UNCHANGED <<account, tokens, bearers, rooms>>

\* The process dies and starts again: docker-entrypoint.sh seeds before it serves.
Restart ==
    /\ call' = [q \in Handlers |-> Idle]
    /\ IF MobileTaken(SeedMobile) THEN UNCHANGED account
       ELSE AddAccount(Row("active", "admin", SeedMobile))
    /\ rooms' \in {r \in [RoomIds -> Names \cup {NoName}] :
                     /\ SeededRooms(r) /\ UniqueNames(r)
                     /\ \A k \in RoomIds : r[k] # rooms[k] => rooms[k] = NoName /\ r[k] \in SeedNames}
    /\ UNCHANGED <<tokens, bearers>>

Arrive(q) == \E r \in Requests : ReceivePublic(q, r) \/ ReceiveGuarded(q, r)
Advance(q) ==
    \/ FindMobile(q) \/ CreateAccount(q) \/ IssueTokens(q)
    \/ FindAccount(q) \/ UpdateAccount(q) \/ DeleteAccount(q) \/ UpdateProfile(q)
    \/ FindName(q) \/ WriteRoom(q) \/ StatementFails(q)

Next == (\E q \in Handlers : Arrive(q) \/ Advance(q)) \/ Restart

Spec == Init /\ [][Next]_vars

--------------------------------------------------------------------------------
(* Properties.                                                                  *)

TypeOK ==
    /\ account \in [Ids -> Account]
    /\ tokens \subseteq Ids /\ bearers \subseteq Ids
    /\ rooms \in [RoomIds -> Names \cup {NoName}]
    /\ call \in [Handlers -> Call]

\* Two registrations that both found a mobile number free, or one that races the
\* removal of the number's account, never make two accounts of one number
\* (register looks first and creates after a slow hash).
MobilesUnique ==
    \A i, j \in Ids : i # j /\ Exists(i) /\ Exists(j) => account[i].mobile # account[j].mobile

\* Two rooms never have names that a reader cannot tell apart, although the check
\* compares the name as sent, blanks included, and runs an await before the write.
RoomNamesDistinct ==
    \A r, k \in RoomIds :
        r # k /\ rooms[r] # NoName /\ rooms[k] # NoName => Trim[rooms[r]] # Trim[rooms[k]]

\* README, "an unapproved user cannot log in": an account that no admin has decided
\* on holds no tokens, whatever was registered, removed and registered again under
\* its mobile while a login compared passwords.
PendingKeptOut == \A i \in Ids : account[i].status = "pending" => i \notin bearers

\* A refresh token never outlives its account, also when the account is removed
\* while a login that has read it still compares passwords.
TokensHaveAccounts == \A i \in tokens : Exists(i)

\* README.md:90, "only an admin gives or takes the role": the role and the status of an
\* existing account change only to what a request on it asks for whose sender was an
\* admin when the guards looked, whoever lost or took which role in the meantime,
\* never by a user's request and never as a side effect of another one.
OrderedBy(q, i) ==
    /\ Doing(q, AdminKinds \ {"remove"}) /\ call[q].req.whom = i /\ call[q].role = "admin"
    /\ account'[i] = Changed(account[i], call[q].req.kind)
RightsFromAdmins ==
    [][\A i \in Ids :
        Exists(i) /\ Exists(i)' /\ (account[i].role # account'[i].role \/ account[i].status # account'[i].status)
        => \E q \in Handlers : OrderedBy(q, i)]_vars
====
