---- MODULE AccountsProofs ----
(* Proofs about Accounts, for every number of accounts, mobiles, rooms, names,  *)
(* handlers and requests.                                                       *)
EXTENDS Accounts, TLAPS

\* What an account number stands for once somebody has decided on it.
Decided(i) == account[i].status \notin {"absent", "pending"}

\* A handler at work has a request of the list, an admin's one where the route asks
\* for an admin, and has found an account it may go on with; a login that read
\* "active" read it of a decided account.
CallOK(c) ==
    /\ c \in Call
    /\ c.pc # "idle" =>
        /\ c.req \in Requests
        /\ c.req.kind \in AdminKinds => c.role = "admin"
    /\ c.pc = "write" =>
        /\ c.req.kind \in AdminKinds \cup {"login", "profile"} => c.id \in Ids
        /\ c.req.kind \in AdminKinds => c.id = c.req.whom
        /\ c.req.kind = "login" /\ c.seen.status = "active" => Decided(c.id)

CallsOK == \A q \in Handlers : CallOK(call[q])
BearersDecided == \A i \in bearers : Decided(i)
RoomsTrimmed == \A r \in RoomIds : rooms[r] # NoName => Trim[rooms[r]] = rooms[r]

IInv ==
    /\ TypeOK /\ CallsOK
    /\ MobilesUnique /\ BearersDecided /\ TokensHaveAccounts
    /\ RoomsTrimmed /\ UniqueNames(rooms)

\* Nobody is not an account.
LEMMA NobodyNoId == Nobody \notin Ids /\ Ids \subseteq Nat /\ 1 \in Ids
BY AccountsAssumption DEF Nobody, Ids

LEMMA RowTypes ==
    /\ Absent \in Account /\ Gone \in Account
    /\ \A m \in Mobiles : Row("pending", "user", m) \in Account /\ Row("active", "admin", m) \in Account
BY DEF Absent, Gone, Row, Account, Statuses

LEMMA IdleOK == Idle \in Call /\ CallOK(Idle)
BY RowTypes DEF Idle, Call, CallOK, Request, AdminKinds, RoomKinds

\* The seed leaves a state in order.
LEMMA InitInv == Init => IInv
<1> SUFFICES ASSUME Init PROVE IInv
  OBVIOUS
<1>1. TypeOK
  BY RowTypes, IdleOK, SeedAssumption DEF Init, TypeOK
<1>2. CallsOK
  BY IdleOK DEF Init, CallsOK
<1>3. MobilesUnique
  BY DEF Init, MobilesUnique, Exists, Absent, Row
<1>4. BearersDecided /\ TokensHaveAccounts
  BY DEF Init, BearersDecided, TokensHaveAccounts
<1>5. RoomsTrimmed /\ UniqueNames(rooms)
  BY SeedAssumption DEF Init, RoomsTrimmed
<1>6. QED
  BY <1>1, <1>2, <1>3, <1>4, <1>5 DEF IInv

--------------------------------------------------------------------------------
(* Handlers.                                                                    *)

\* A handler that changes only its own record, to one that is in order, while every
\* decision stands, keeps every handler in order.
LEMMA OwnCall ==
    ASSUME IInv, NEW q \in Handlers, NEW c, call' = [call EXCEPT ![q] = c], CallOK(c)',
           \A i \in Ids : Decided(i) => Decided(i)'
    PROVE  CallsOK' /\ call' \in [Handlers -> Call]
<1>1. ASSUME NEW p \in Handlers PROVE CallOK(call[p])'
  <2>1. CASE p = q
    BY <2>1 DEF IInv, TypeOK
  <2>2. CASE p # q
    <3>1. call'[p] = call[p] /\ CallOK(call[p])
      BY <2>2 DEF IInv, CallsOK, TypeOK
    <3>2. QED
      BY <3>1 DEF CallOK, AdminKinds
  <2>3. QED
    BY <2>1, <2>2
<1>2. c \in Call
  BY DEF CallOK
<1>3. QED
  BY <1>1, <1>2 DEF CallsOK, IInv, TypeOK

LEMMA DoneOK ==
    ASSUME IInv, NEW q \in Handlers, Done(q), \A i \in Ids : Decided(i) => Decided(i)'
    PROVE  CallsOK' /\ call' \in [Handlers -> Call]
<1>1. CallOK(Idle)'
  BY IdleOK DEF CallOK, Idle
<1>2. QED
  BY <1>1, OwnCall DEF Done

\* A step of a handler that leaves every table alone.
LEMMA TablesKept ==
    ASSUME IInv, UNCHANGED <<account, tokens, bearers, rooms>>, CallsOK', call' \in [Handlers -> Call]
    PROVE  IInv'
BY DEF IInv, TypeOK, MobilesUnique, BearersDecided, Decided, TokensHaveAccounts, Exists, RoomsTrimmed, UniqueNames

LEMMA DecidedKept == ASSUME UNCHANGED account PROVE \A i \in Ids : Decided(i) => Decided(i)'
BY DEF Decided

LEMMA ReceiveInv ==
    ASSUME IInv, NEW q \in Handlers, NEW r \in Requests, ReceivePublic(q, r) \/ ReceiveGuarded(q, r)
    PROVE  IInv'
<1> DEFINE c(role) == [Idle EXCEPT !.pc = "find", !.req = r, !.role = role]
<1>1. PICK role \in {"user", "admin"} :
        /\ Receive(q, r, role)
        /\ r.kind \in AdminKinds => role = "admin"
  <2>1. CASE ReceivePublic(q, r)
    BY <2>1 DEF ReceivePublic, AdminKinds
  <2>2. CASE ReceiveGuarded(q, r)
    <3>1. r.by \in Ids /\ account[r.by].role \in {"user", "admin"}
      BY <2>2 DEF ReceiveGuarded, Passes, Exists, IInv, TypeOK, Account
    <3>2. QED
      BY <2>2, <3>1 DEF ReceiveGuarded, Passes
  <2>3. QED
    BY <2>1, <2>2
<1>2. PICK d : d = c(role)
  OBVIOUS
<1>3. call' = [call EXCEPT ![q] = d] /\ UNCHANGED <<account, tokens, bearers, rooms>>
  BY <1>1, <1>2 DEF Receive
<1>4. d \in Call /\ d.req = r /\ d.pc = "find" /\ d.role = role
  BY <1>2, IdleOK, RequestsAssumption DEF Call, Idle
<1>5. CallOK(d)'
  BY <1>1, <1>4 DEF CallOK
<1>6. QED
  BY <1>3, <1>5, OwnCall, TablesKept, DecidedKept

\* A handler that moves on to its write with what it has read.
LEMMA GoOnOK ==
    ASSUME IInv, NEW q \in Handlers, At(q, "find"), UNCHANGED <<account, tokens, bearers, rooms>>,
           NEW i \in Ids \cup {Nobody}, NEW a \in Account,
           call' = [call EXCEPT ![q] = [@ EXCEPT !.pc = "write", !.id = i, !.seen = a]],
           Doing(q, AdminKinds \cup {"login", "profile"}) => i \in Ids,
           Doing(q, AdminKinds) => i = call[q].req.whom,
           Doing(q, {"login"}) /\ a.status = "active" => Decided(i)
    PROVE  IInv'
<1>0. PICK c : c = [call[q] EXCEPT !.pc = "write", !.id = i, !.seen = a]
  OBVIOUS
<1>1. call[q] \in Call /\ CallOK(call[q]) /\ call[q].pc = "find"
  BY DEF IInv, TypeOK, CallsOK, At
<1>2. c \in Call /\ c.req = call[q].req /\ c.role = call[q].role /\ c.id = i /\ c.seen = a /\ c.pc = "write"
  BY <1>0, <1>1 DEF Call
<1>3. CallOK(c)'
  BY <1>1, <1>2 DEF CallOK, Doing, Decided
<1>4. call' = [call EXCEPT ![q] = c]
  BY <1>0 DEF IInv, TypeOK
<1>5. QED
  BY <1>3, <1>4, OwnCall, TablesKept, DecidedKept

\* Nobody's record is touched and the handler is done.
LEMMA DoneInv ==
    ASSUME IInv, NEW q \in Handlers, Done(q), UNCHANGED <<account, tokens, bearers, rooms>>
    PROVE  IInv'
BY DoneOK, TablesKept, DecidedKept

\* A handler that has found what it looked for free.
LEMMA GoInv ==
    ASSUME IInv, NEW q \in Handlers, At(q, "find"), Go(q, "write"),
           Doing(q, RoomKinds \cup {"register"}), UNCHANGED <<account, tokens, bearers, rooms>>
    PROVE  IInv'
<1>0. PICK c : c = [call[q] EXCEPT !.pc = "write"]
  OBVIOUS
<1>1. call[q] \in Call /\ CallOK(call[q]) /\ call[q].pc = "find"
  BY DEF IInv, TypeOK, CallsOK, At
<1>2. c \in Call /\ c.req = call[q].req /\ c.role = call[q].role /\ c.pc = "write"
  BY <1>0, <1>1 DEF Call
<1>3. CallOK(c)'
  BY <1>1, <1>2 DEF CallOK, Doing, AdminKinds, RoomKinds
<1>4. call' = [call EXCEPT ![q] = c]
  BY <1>0 DEF Go
<1>5. QED
  BY <1>3, <1>4, OwnCall, TablesKept, DecidedKept

LEMMA FindMobileInv == ASSUME IInv, NEW q \in Handlers, FindMobile(q) PROVE IInv'
<1> DEFINE m == call[q].req.mobile
           i == CHOOSE j \in Ids : account[j].mobile = m
<1>1. CASE Doing(q, {"login"}) /\ MobileTaken(m)
  <2>1. i \in Ids /\ account[i].mobile = m
    BY <1>1 DEF MobileTaken
  <2>2. account[i] \in Account
    BY <2>1 DEF IInv, TypeOK
  <2>3. account[i].status = "active" => Decided(i)
    BY DEF Decided
  <2>4. call' = [call EXCEPT ![q] = [@ EXCEPT !.pc = "write", !.id = i, !.seen = account[i]]]
    BY <1>1 DEF FindMobile
  <2>5. At(q, "find") /\ ~Doing(q, AdminKinds) /\ UNCHANGED <<account, tokens, bearers, rooms>>
    BY <1>1 DEF FindMobile, Doing, AdminKinds
  <2> HIDE DEF i
  <2>6. QED
    BY <2>1, <2>2, <2>3, <2>4, <2>5, GoOnOK
<1>2. CASE ~(Doing(q, {"login"}) /\ MobileTaken(m))
  BY <1>2, GoInv, DoneInv DEF FindMobile, Doing
<1>3. QED
  BY <1>1, <1>2

LEMMA FindAccountInv == ASSUME IInv, NEW q \in Handlers, FindAccount(q) PROVE IInv'
<1> DEFINE i == IF Doing(q, {"profile"}) THEN call[q].req.by ELSE call[q].req.whom
<1>1. CASE Exists(i)
  <2>1. i \in Ids /\ account[i] \in Account
    BY <1>1 DEF Exists, IInv, TypeOK
  <2>2. At(q, "find") /\ ~Doing(q, {"login"}) /\ (Doing(q, AdminKinds) => i = call[q].req.whom)
    BY DEF FindAccount, Doing, AdminKinds
  <2>3. call' = [call EXCEPT ![q] = [@ EXCEPT !.pc = "write", !.id = i, !.seen = account[i]]]
        /\ UNCHANGED <<account, tokens, bearers, rooms>>
    BY <1>1 DEF FindAccount
  <2> HIDE DEF i
  <2>4. QED
    BY <2>1, <2>2, <2>3, GoOnOK
<1>2. CASE ~Exists(i)
  BY <1>2, DoneInv DEF FindAccount
<1>3. QED
  BY <1>1, <1>2

LEMMA FindNameInv == ASSUME IInv, NEW q \in Handlers, FindName(q) PROVE IInv'
<1>1. CASE Done(q)
  BY <1>1, DoneInv DEF FindName
<1>2. CASE Go(q, "write")
  BY <1>2, GoInv DEF FindName, Doing
<1>3. QED
  BY <1>1, <1>2 DEF FindName

--------------------------------------------------------------------------------
(* Writes.                                                                      *)

\* An account added under a free mobile number.
LEMMA AddAccountOK ==
    ASSUME IInv, NEW row \in Account, row.status \in {"pending", "active"},
           ~MobileTaken(row.mobile), AddAccount(row), UNCHANGED <<tokens, bearers>>
    PROVE  /\ account' \in [Ids -> Account]
           /\ MobilesUnique' /\ BearersDecided' /\ TokensHaveAccounts'
           /\ \A i \in Ids : Decided(i) => Decided(i)'
<1>1. PICK n \in Ids : account[n].status = "absent" /\ account' = [account EXCEPT ![n] = row]
  BY DEF AddAccount
<1>2. account \in [Ids -> Account] /\ tokens \subseteq Ids /\ bearers \subseteq Ids
  BY DEF IInv, TypeOK
<1>3. account'[n] = row /\ \A i \in Ids \ {n} : account'[i] = account[i]
  BY <1>1, <1>2
<1>4. account' \in [Ids -> Account]
  BY <1>1, <1>2
<1>5. \A i \in Ids : i # n => (Exists(i)' <=> Exists(i)) /\ (Decided(i)' <=> Decided(i))
  BY <1>3 DEF Exists, Decided
<1>6. ~Exists(n) /\ ~Decided(n)
  BY <1>1 DEF Exists, Decided
<1>7. MobilesUnique'
  BY <1>3, <1>5 DEF IInv, MobilesUnique, MobileTaken
<1>8. BearersDecided'
  BY <1>2, <1>5, <1>6 DEF IInv, BearersDecided
<1>9. TokensHaveAccounts'
  BY <1>2, <1>5, <1>6 DEF IInv, TokensHaveAccounts
<1>10. QED
  BY <1>4, <1>5, <1>6, <1>7, <1>8, <1>9

\* A step that leaves the rooms alone.
LEMMA AccountsStep ==
    ASSUME IInv, account' \in [Ids -> Account], tokens' \subseteq Ids, bearers' \subseteq Ids,
           MobilesUnique', BearersDecided', TokensHaveAccounts', UNCHANGED rooms,
           CallsOK', call' \in [Handlers -> Call]
    PROVE  IInv'
BY DEF IInv, TypeOK, RoomsTrimmed, UniqueNames

LEMMA CreateAccountInv == ASSUME IInv, NEW q \in Handlers, CreateAccount(q) PROVE IInv'
<1> DEFINE m == call[q].req.mobile
           row == Row("pending", "user", m)
<1>1. CASE MobileTaken(m)
  BY <1>1, DoneInv DEF CreateAccount
<1>2. CASE ~MobileTaken(m)
  <2>1. call[q].req \in Requests /\ m \in Mobiles
    BY RequestsAssumption DEF IInv, CallsOK, CallOK, CreateAccount, At, Doing
  <2>2. row \in Account /\ row.status = "pending" /\ row.mobile = m
    BY <2>1, RowTypes DEF Row
  <2>3. AddAccount(row) /\ Done(q) /\ UNCHANGED <<tokens, bearers, rooms>>
    BY <1>2 DEF CreateAccount
  <2> HIDE DEF row
  <2>4. /\ account' \in [Ids -> Account]
        /\ MobilesUnique' /\ BearersDecided' /\ TokensHaveAccounts'
        /\ \A i \in Ids : Decided(i) => Decided(i)'
    BY <1>2, <2>2, <2>3, AddAccountOK
  <2>5. CallsOK' /\ call' \in [Handlers -> Call]
    BY <2>3, <2>4, DoneOK
  <2>6. QED
    BY <2>3, <2>4, <2>5, AccountsStep DEF IInv, TypeOK
<1>3. QED
  BY <1>1, <1>2

LEMMA IssueTokensInv == ASSUME IInv, NEW q \in Handlers, IssueTokens(q) PROVE IInv'
<1> DEFINE i == call[q].id
<1>1. CASE call[q].seen.status = "active" /\ Exists(i)
  <2>1. tokens' = tokens \cup {i} /\ bearers' = bearers \cup {i} /\ Done(q) /\ UNCHANGED <<account, rooms>>
    BY <1>1 DEF IssueTokens
  <2>2. i \in Ids /\ Decided(i)
    BY <1>1 DEF IInv, CallsOK, CallOK, IssueTokens, At, Doing, Exists
  <2>3. BearersDecided' /\ TokensHaveAccounts'
    BY <1>1, <2>1, <2>2 DEF IInv, BearersDecided, TokensHaveAccounts, Decided, Exists
  <2>4. CallsOK' /\ call' \in [Handlers -> Call]
    BY <2>1, DoneOK, DecidedKept
  <2>5. MobilesUnique'
    BY <2>1 DEF IInv, MobilesUnique, Exists
  <2>6. QED
    BY <2>1, <2>2, <2>3, <2>4, <2>5, AccountsStep DEF IInv, TypeOK
<1>2. CASE ~(call[q].seen.status = "active" /\ Exists(i))
  BY <1>2, DoneInv DEF IssueTokens
<1>3. QED
  BY <1>1, <1>2

\* What an admin changes about an account that exists.
LEMMA ChangedType ==
    ASSUME NEW a \in Account, NEW kind \in AdminKinds \ {"remove"}, a.status \notin {"absent", "gone"}
    PROVE  /\ Changed(a, kind) \in Account
           /\ Changed(a, kind).status \in {"pending", "active", "rejected"}
           /\ Changed(a, kind).mobile = a.mobile
           /\ a.status # "pending" => Changed(a, kind).status # "pending"
BY DEF Changed, Account, Statuses, AdminKinds

LEMMA UpdateAccountInv == ASSUME IInv, NEW q \in Handlers, UpdateAccount(q) PROVE IInv'
<1> DEFINE i == call[q].id
<1>1. CASE Exists(i)
  <2>0. PICK a : a = Changed(account[i], call[q].req.kind)
    OBVIOUS
  <2>1. account' = [account EXCEPT ![i] = a] /\ Done(q) /\ UNCHANGED <<tokens, bearers, rooms>>
    BY <1>1, <2>0 DEF UpdateAccount
  <2>2. account \in [Ids -> Account] /\ i \in Ids /\ account[i].status \notin {"absent", "gone"}
    BY <1>1 DEF IInv, TypeOK, Exists
  <2>3. call[q].req.kind \in AdminKinds \ {"remove"}
    BY DEF UpdateAccount, Doing
  <2>4. /\ a \in Account /\ a.status \in {"pending", "active", "rejected"} /\ a.mobile = account[i].mobile
        /\ account[i].status # "pending" => a.status # "pending"
    BY <2>0, <2>2, <2>3, ChangedType
  <2>5. account' \in [Ids -> Account] /\ account'[i] = a /\ \A j \in Ids \ {i} : account'[j] = account[j]
    BY <2>1, <2>2, <2>4
  <2>6. \A j \in Ids : (Exists(j)' <=> Exists(j)) /\ (Decided(j) => Decided(j)') /\ account'[j].mobile = account[j].mobile
    BY <2>2, <2>4, <2>5 DEF Exists, Decided
  <2>7. MobilesUnique' /\ BearersDecided' /\ TokensHaveAccounts'
    BY <2>1, <2>6 DEF IInv, TypeOK, MobilesUnique, BearersDecided, TokensHaveAccounts
  <2>8. CallsOK' /\ call' \in [Handlers -> Call]
    BY <2>1, <2>6, DoneOK
  <2>9. QED
    BY <2>1, <2>5, <2>7, <2>8, AccountsStep DEF IInv, TypeOK
<1>2. CASE ~Exists(i)
  BY <1>2, DoneInv DEF UpdateAccount
<1>3. QED
  BY <1>1, <1>2

LEMMA DeleteAccountInv == ASSUME IInv, NEW q \in Handlers, DeleteAccount(q) PROVE IInv'
<1> DEFINE i == call[q].id
<1>1. CASE Exists(i)
  <2>1. account' = [account EXCEPT ![i] = Gone] /\ tokens' = tokens \ {i} /\ Done(q) /\ UNCHANGED <<bearers, rooms>>
    BY <1>1 DEF DeleteAccount
  <2>2. account \in [Ids -> Account] /\ i \in Ids
    BY <1>1 DEF IInv, TypeOK, Exists
  <2>3. account' \in [Ids -> Account] /\ account'[i] = Gone /\ \A j \in Ids \ {i} : account'[j] = account[j]
    BY <2>1, <2>2, RowTypes
  <2>4. Gone.status = "gone"
    BY DEF Gone, Row
  <2>5. \A j \in Ids : (Exists(j)' <=> Exists(j) /\ j # i) /\ (Decided(j) => Decided(j)')
    BY <2>2, <2>3, <2>4 DEF Exists, Decided
  <2>6. MobilesUnique' /\ BearersDecided' /\ TokensHaveAccounts'
    BY <2>1, <2>3, <2>5 DEF IInv, TypeOK, MobilesUnique, BearersDecided, TokensHaveAccounts
  <2>7. CallsOK' /\ call' \in [Handlers -> Call]
    BY <2>1, <2>5, DoneOK
  <2>8. QED
    BY <2>1, <2>3, <2>6, <2>7, AccountsStep DEF IInv, TypeOK
<1>2. CASE ~Exists(i)
  BY <1>2, DoneInv DEF DeleteAccount
<1>3. QED
  BY <1>1, <1>2

\* A step that leaves the accounts and the handlers' findings alone.
LEMMA RoomsStep ==
    ASSUME IInv, UNCHANGED <<account, tokens, bearers>>, rooms' \in [RoomIds -> Names \cup {NoName}],
           RoomsTrimmed', UniqueNames(rooms)', CallsOK', call' \in [Handlers -> Call]
    PROVE  IInv'
BY DEF IInv, TypeOK, MobilesUnique, BearersDecided, Decided, TokensHaveAccounts, Exists

LEMMA WriteRoomInv == ASSUME IInv, NEW q \in Handlers, WriteRoom(q) PROVE IInv'
<1> DEFINE r == call[q].req
<1>1. CASE NameTaken(Trim[r.name], r.room)
  BY <1>1, DoneInv DEF WriteRoom
<1>2. CASE ~NameTaken(Trim[r.name], r.room)
  <2>0. PICK n : n = Trim[r.name]
    OBVIOUS
  <2>1. PICK k \in RoomIds : /\ IF Doing(q, {"createRoom"}) THEN rooms[k] = NoName ELSE k = r.room
                             /\ rooms' = [rooms EXCEPT ![k] = n]
    BY <1>2, <2>0 DEF WriteRoom
  <2>2. r \in Requests /\ r.name \in Names /\ (Doing(q, {"createRoom"}) => r.room = NoRoom)
    BY RequestsAssumption DEF IInv, CallsOK, CallOK, WriteRoom, At, Doing
  <2>3. n \in Names /\ Trim[n] = n /\ n # NoName
    BY <2>0, <2>2, TrimAssumption, NullsAssumption
  <2>4. rooms \in [RoomIds -> Names \cup {NoName}]
    BY DEF IInv, TypeOK
  <2>5. rooms'[k] = n /\ \A j \in RoomIds \ {k} : rooms'[j] = rooms[j]
    BY <2>1, <2>4
  <2>6. \A j \in RoomIds \ {k} : rooms[j] # n
    BY <1>2, <2>0, <2>1, <2>2, <2>3, NullsAssumption DEF NameTaken
  <2>7. RoomsTrimmed'
    BY <2>3, <2>5 DEF IInv, RoomsTrimmed
  <2>8. UniqueNames(rooms)'
    BY <2>5, <2>6 DEF IInv, UniqueNames
  <2>9. Done(q) /\ UNCHANGED <<account, tokens, bearers>>
    BY DEF WriteRoom
  <2>10. CallsOK' /\ call' \in [Handlers -> Call]
    BY <2>9, DoneOK, DecidedKept
  <2>11. rooms' \in [RoomIds -> Names \cup {NoName}]
    BY <2>1, <2>3, <2>4
  <2>12. QED
    BY <2>7, <2>8, <2>9, <2>10, <2>11, RoomsStep
<1>3. QED
  BY <1>1, <1>2

LEMMA RestartInv == ASSUME IInv, Restart PROVE IInv'
<1> DEFINE row == Row("active", "admin", SeedMobile)
<1>1. call' = [q \in Handlers |-> Idle] /\ UNCHANGED <<tokens, bearers>>
  BY DEF Restart
<1>2. CallsOK' /\ call' \in [Handlers -> Call]
  BY <1>1, IdleOK DEF CallsOK, CallOK, Idle
<1>3. /\ account' \in [Ids -> Account]
      /\ MobilesUnique' /\ BearersDecided' /\ TokensHaveAccounts'
  <2>1. CASE MobileTaken(SeedMobile)
    <3>1. UNCHANGED account
      BY <2>1 DEF Restart
    <3>2. QED
      BY <1>1, <3>1 DEF IInv, TypeOK, MobilesUnique, BearersDecided, Decided, TokensHaveAccounts, Exists
  <2>2. CASE ~MobileTaken(SeedMobile)
    <3>1. row \in Account /\ row.status = "active" /\ row.mobile = SeedMobile
      BY RowTypes, SeedAssumption DEF Row
    <3>2. AddAccount(row)
      BY <2>2 DEF Restart
    <3> HIDE DEF row
    <3>3. QED
      BY <1>1, <2>2, <3>1, <3>2, AddAccountOK
  <2>3. QED
    BY <2>1, <2>2
<1>4. rooms' \in [RoomIds -> Names \cup {NoName}] /\ UniqueNames(rooms)'
  BY DEF Restart, UniqueNames
<1>5. RoomsTrimmed'
  BY SeedAssumption DEF Restart, IInv, RoomsTrimmed
<1>6. QED
  BY <1>1, <1>2, <1>3, <1>4, <1>5 DEF IInv, TypeOK

--------------------------------------------------------------------------------
(* The theorems.                                                                *)

LEMMA NextInv == IInv /\ [Next]_vars => IInv'
<1> SUFFICES ASSUME IInv, [Next]_vars PROVE IInv'
  OBVIOUS
<1>1. CASE UNCHANGED vars
  <2>1. UNCHANGED <<account, tokens, bearers, rooms, call>>
    BY <1>1 DEF vars
  <2>2. CallsOK'
    BY <2>1 DEF IInv, CallsOK, CallOK, Decided
  <2>3. call' \in [Handlers -> Call]
    BY <2>1 DEF IInv, TypeOK
  <2>4. QED
    BY <2>1, <2>2, <2>3, TablesKept
<1>2. ASSUME NEW q \in Handlers, Arrive(q) PROVE IInv'
  BY <1>2, ReceiveInv DEF Arrive
<1>3. ASSUME NEW q \in Handlers, Advance(q) PROVE IInv'
  <2>1. CASE FindMobile(q)
    BY <2>1, FindMobileInv
  <2>2. CASE CreateAccount(q)
    BY <2>2, CreateAccountInv
  <2>3. CASE IssueTokens(q)
    BY <2>3, IssueTokensInv
  <2>4. CASE FindAccount(q)
    BY <2>4, FindAccountInv
  <2>5. CASE UpdateAccount(q)
    BY <2>5, UpdateAccountInv
  <2>6. CASE DeleteAccount(q)
    BY <2>6, DeleteAccountInv
  <2>7. CASE UpdateProfile(q)
    BY <2>7, DoneInv DEF UpdateProfile
  <2>8. CASE FindName(q)
    BY <2>8, FindNameInv
  <2>9. CASE WriteRoom(q)
    BY <2>9, WriteRoomInv
  <2>10. CASE StatementFails(q)
    BY <2>10, DoneInv DEF StatementFails
  <2>11. QED
    BY <1>3, <2>1, <2>2, <2>3, <2>4, <2>5, <2>6, <2>7, <2>8, <2>9, <2>10 DEF Advance
<1>4. CASE Restart
  BY <1>4, RestartInv
<1>5. QED
  BY <1>1, <1>2, <1>3, <1>4 DEF Next

\* Every reachable state has its types, whatever the constants.
THEOREM TypesHold == Spec => []TypeOK
<1>1. IInv => TypeOK
  BY DEF IInv
<1>2. QED
  BY InitInv, NextInv, <1>1, PTL DEF Spec

\* No mobile number ever belongs to two accounts.
THEOREM MobilesStayUnique == Spec => []MobilesUnique
<1>1. IInv => MobilesUnique
  BY DEF IInv
<1>2. QED
  BY InitInv, NextInv, <1>1, PTL DEF Spec

\* An account nobody has decided on never gets tokens.
THEOREM PendingStaysOut == Spec => []PendingKeptOut
<1>1. IInv => PendingKeptOut
  BY DEF IInv, BearersDecided, Decided, PendingKeptOut
<1>2. QED
  BY InitInv, NextInv, <1>1, PTL DEF Spec

\* No refresh token outlives its account.
THEOREM TokensStayOwned == Spec => []TokensHaveAccounts
<1>1. IInv => TokensHaveAccounts
  BY DEF IInv
<1>2. QED
  BY InitInv, NextInv, <1>1, PTL DEF Spec

\* Stored names are trimmed and unique, so no two rooms look the same.
THEOREM RoomNamesStayDistinct == Spec => []RoomNamesDistinct
<1>1. IInv => RoomNamesDistinct
  BY DEF IInv, RoomsTrimmed, UniqueNames, RoomNamesDistinct
<1>2. QED
  BY InitInv, NextInv, <1>1, PTL DEF Spec

\* A step that changes an account's role or status is the end of an admin's request.
LEMMA RightsStep ==
    ASSUME IInv, [Next]_vars, NEW i \in Ids, Exists(i), Exists(i)',
           account[i].role # account'[i].role \/ account[i].status # account'[i].status
    PROVE  \E q \in Handlers : OrderedBy(q, i)
<1>1. account[i] # account'[i]
  OBVIOUS
<1>2. ASSUME NEW row, AddAccount(row) PROVE FALSE
  BY <1>1, <1>2 DEF AddAccount, Exists, IInv, TypeOK
<1>3. ~Restart /\ ~(\E q \in Handlers : Arrive(q)) /\ account # account'
  BY <1>1, <1>2 DEF Restart, Arrive, ReceivePublic, ReceiveGuarded, Receive
<1>4. PICK q \in Handlers : Advance(q)
  BY <1>3 DEF Next, vars
<1>5. UpdateAccount(q)
  <2>1. ~DeleteAccount(q)
    BY <1>1 DEF DeleteAccount, Exists, Gone, Row, IInv, TypeOK
  <2>2. QED
    BY <1>2, <1>3, <1>4, <2>1 DEF Advance, FindMobile, CreateAccount, IssueTokens, FindAccount,
                                 UpdateProfile, FindName, WriteRoom, StatementFails
<1>6. /\ At(q, "write") /\ Doing(q, AdminKinds \ {"remove"}) /\ call[q].id = i
      /\ account' = [account EXCEPT ![i] = Changed(account[i], call[q].req.kind)]
  BY <1>1, <1>5 DEF UpdateAccount, IInv, TypeOK
<1>7. account'[i] = Changed(account[i], call[q].req.kind)
  <2>1. i \in DOMAIN account
    BY DEF IInv, TypeOK
  <2>2. QED
    BY <1>6, <2>1
<1>8. call[q].req.whom = i /\ call[q].role = "admin"
  BY <1>6 DEF IInv, CallsOK, CallOK, At, Doing
<1>9. QED
  BY <1>6, <1>7, <1>8 DEF OrderedBy

\* Roles and statuses of existing accounts change by the requests of admins alone, and
\* only to what such a request asks for.
THEOREM RightsComeFromAdmins == Spec => RightsFromAdmins
<1>1. IInv /\ [Next]_vars =>
        [\A i \in Ids :
            Exists(i) /\ Exists(i)' /\ (account[i].role # account'[i].role \/ account[i].status # account'[i].status)
            => \E q \in Handlers : OrderedBy(q, i)]_vars
  BY RightsStep
<1>2. QED
  BY InitInv, NextInv, <1>1, PTL DEF Spec, RightsFromAdmins
====
