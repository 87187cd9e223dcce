---- MODULE MCAccounts ----
(* The seeded admin, a second account that is registered, decided on, made admin  *)
(* and removed, and one more id for the mobile number to be registered again.    *)
EXTENDS Accounts, TLC

CONSTANTS m0, m1, r1, r2, v1, v1pad, v2, q1, q2

Blank == Idle.req
Public(kind, m) == [Blank EXCEPT !.kind = kind, !.mobile = m]
OnAccount(kind, by, whom) == [Blank EXCEPT !.kind = kind, !.by = by, !.whom = whom]
OnRoom(kind, by, room, name) == [Blank EXCEPT !.kind = kind, !.by = by, !.room = room, !.name = name]

AccountRequests ==
    {Public("register", m1), Public("register", m0), Public("login", m0), Public("login", m1)}
    \cup {OnAccount(k, i, 3 - i) : k \in AdminKinds, i \in {1, 2}}
    \cup {OnAccount("reject", 1, 1), OnAccount("profile", 2, Nobody)}
    \cup {OnRoom("createRoom", 1, NoRoom, v1pad), OnRoom("createRoom", 1, NoRoom, v2),
          OnRoom("renameRoom", 1, r2, v1pad), OnRoom("renameRoom", 1, r1, v2)}

Trimmed == v1 :> v1 @@ v1pad :> v1 @@ v2 :> v2
HandlerSymmetry == Permutations(Handlers)
====
