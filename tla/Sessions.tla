---- MODULE Sessions ----
(* Sign-in sessions: the token service and the routes of /auth on the server,   *)
(* the API client and the auth context in every tab of every browser.  An       *)
(* access token and the refresh token issued with it are one pair.  A call is   *)
(* an apiFetch of a tab; the part the server still works on outlives the tab's  *)
(* interest in it (page reload, lost connection).                               *)
EXTENDS Integers, FiniteSets

CONSTANTS
    Accounts, Browsers, Tabs, Calls,
    MaxPairs,       \* bounds how many pairs are ever issued
    BrowserOf,      \* the browser of a tab: its tabs share localStorage
    TabOf,          \* the tab that makes a call
    May,            \* the kinds of calls it makes: narrows what users do
    MaxFaults,      \* bounds how often an answer is lost, a statement fails, a page is reloaded
    NoAccount

ASSUME TabsAssumption == BrowserOf \in [Tabs -> Browsers] /\ TabOf \in [Calls -> Tabs]
ASSUME MayAssumption == May \in [Calls -> SUBSET {"use", "me", "login", "logout"}]
ASSUME BoundsAssumption == MaxPairs \in Nat /\ MaxFaults \in Nat
ASSUME NullAssumption == NoAccount \notin Accounts

\* Pairs in the order of their issue.
Pairs == 1..MaxPairs
NoPair == 0

VARIABLES
    pair,       \* refresh_tokens rows and the access tokens signed with them
    stored,     \* what localStorage of a browser holds
    shown,      \* the user of a tab's AuthContext
    gate,       \* `refreshing` of a tab: null, a pending promise, a rejected one
    call,       \* what each apiFetch is waiting for, and its handler
    lost,       \* history: browsers with a request whose answer was lost
    faults      \* how often something has gone wrong

vars == <<pair, stored, shown, gate, call, lost, faults>>

Owner == Accounts \cup {NoAccount}
Stored == Pairs \cup {NoPair}
Pair == [owner : Owner, parent : Stored, stale : BOOLEAN, revoked : BOOLEAN, expired : BOOLEAN]
Unissued == [owner |-> NoAccount, parent |-> NoPair, stale |-> FALSE, revoked |-> FALSE, expired |-> FALSE]

\* pc is the client's side of a call, srv its handler's; using is the refresh
\* token a request carries and dead whether that token was over when it left.
Call == [kind : {"use", "me", "login", "logout"},
         pc : {"idle", "sent", "waiting", "refreshing", "resent"},
         srv : {"none", "asked", "checked", "rotated", "answered"},
         bearer : Stored, using : Stored, got : Stored, who : Owner, dead : BOOLEAN]
Idle == [kind |-> "use", pc |-> "idle", srv |-> "none", bearer |-> NoPair,
         using |-> NoPair, got |-> NoPair, who |-> NoAccount, dead |-> FALSE]

Init ==
    /\ pair = [p \in Pairs |-> Unissued]
    /\ stored = [b \in Browsers |-> NoPair]
    /\ shown = [t \in Tabs |-> NoAccount]
    /\ gate = [t \in Tabs |-> "open"]
    /\ call = [c \in Calls |-> Idle]
    /\ lost = {}
    /\ faults = 0

Storage(c) == stored[BrowserOf[TabOf[c]]]
Issued(p) == p \in Pairs /\ pair[p].owner # NoAccount
AccessValid(p) == Issued(p) /\ ~pair[p].stale
Refreshable(p) == Issued(p) /\ ~pair[p].revoked /\ ~pair[p].expired

Fault == faults < MaxFaults /\ faults' = faults + 1

\* The tab has its answer or gives up; a handler that still runs keeps on.
LetGo(k) == IF k.srv \in {"none", "answered"} THEN Idle ELSE [k EXCEPT !.pc = "idle"]
\* The answer of a handler nobody waits for is discarded.
Answer(k, q) == IF k.pc = "idle" THEN Idle ELSE [k EXCEPT !.srv = "answered", !.got = q]

--------------------------------------------------------------------------------
(* The tab sends.                                                               *)

\* apiFetch with the access token that is stored right now; pages make such
\* calls once a user is shown.
StartUse(c) ==
    /\ call[c] = Idle /\ "use" \in May[c] /\ shown[TabOf[c]] # NoAccount
    /\ call' = [call EXCEPT ![c] = [Idle EXCEPT !.pc = "sent", !.bearer = Storage(c)]]
    /\ UNCHANGED <<pair, stored, shown, gate, lost, faults>>

\* loadMe: without an access token nobody is signed in.
LoadMe(c) ==
    /\ call[c] = Idle /\ "me" \in May[c]
    /\ IF Storage(c) = NoPair
       THEN shown' = [shown EXCEPT ![TabOf[c]] = NoAccount] /\ UNCHANGED call
       ELSE /\ call' = [call EXCEPT ![c] = [Idle EXCEPT !.kind = "me", !.pc = "sent", !.bearer = Storage(c)]]
            /\ UNCHANGED shown
    /\ UNCHANGED <<pair, stored, gate, lost, faults>>

StartLogin(c, u) ==
    /\ call[c] = Idle /\ "login" \in May[c] /\ shown[TabOf[c]] = NoAccount
    /\ call' = [call EXCEPT ![c] = [Idle EXCEPT !.kind = "login", !.pc = "sent", !.srv = "asked", !.who = u]]
    /\ UNCHANGED <<pair, stored, shown, gate, lost, faults>>

\* logout reads the refresh token first; without one there is nothing to send.
StartLogout(c) ==
    /\ call[c] = Idle /\ "logout" \in May[c] /\ shown[TabOf[c]] # NoAccount
    /\ IF Storage(c) = NoPair
       THEN shown' = [shown EXCEPT ![TabOf[c]] = NoAccount] /\ UNCHANGED call
       ELSE /\ call' = [call EXCEPT ![c] = [Idle EXCEPT !.kind = "logout", !.pc = "sent",
                                                        !.srv = "asked", !.using = Storage(c)]]
            /\ UNCHANGED shown
    /\ UNCHANGED <<pair, stored, gate, lost, faults>>

--------------------------------------------------------------------------------
(* The server works.                                                            *)

\* issueTokens: a new pair for u, issued in exchange for p.
Issue(q, u, p) ==
    /\ ~Issued(q) /\ \A r \in Pairs : r < q => Issued(r)
    /\ pair' = [pair EXCEPT ![q] = [Unissued EXCEPT !.owner = u, !.parent = p]]

\* login: credentials and status decide; a refusal issues nothing.
HandleLogin(c) ==
    /\ call[c].kind = "login" /\ call[c].srv = "asked"
    /\ \/ \E q \in Pairs :
             /\ Issue(q, call[c].who, NoPair)
             /\ call' = [call EXCEPT ![c] = Answer(@, q)]
       \/ call' = [call EXCEPT ![c] = Answer(@, NoPair)] /\ UNCHANGED pair
    /\ UNCHANGED <<stored, shown, gate, lost, faults>>

\* logout: revoke, silent when the token is unknown or revoked already.
HandleLogout(c) ==
    /\ call[c].kind = "logout" /\ call[c].srv = "asked"
    /\ pair' = [pair EXCEPT ![call[c].using].revoked = TRUE]
    /\ call' = [call EXCEPT ![c] = Answer(@, NoPair)]
    /\ UNCHANGED <<stored, shown, gate, lost, faults>>

Refreshing(c) == call[c].kind \in {"use", "me"} /\ call[c].srv # "none"

\* Mutant: the check forgets revoked.
FindIgnoresRevoked(c) ==
    /\ Refreshing(c) /\ call[c].srv = "asked"
    /\ call' = [call EXCEPT ![c] = IF ~pair[@.using].expired THEN [@ EXCEPT !.srv = "checked"]
                                   ELSE Answer(@, NoPair)]
    /\ UNCHANGED <<pair, stored, shown, gate, lost, faults>>

\* rotate, up to its first await: find the row and check it.
FindToken(c) ==
    /\ Refreshing(c) /\ call[c].srv = "asked"
    /\ call' = [call EXCEPT ![c] = IF Refreshable(@.using) THEN [@ EXCEPT !.srv = "checked"]
                                   ELSE Answer(@, NoPair)]
    /\ UNCHANGED <<pair, stored, shown, gate, lost, faults>>

\* Mutant: the new row is created before the old one is revoked.
IssueBeforeRevoke(c) ==
    /\ Refreshing(c) /\ call[c].srv = "checked"
    /\ \E q \in Pairs : Issue(q, pair[call[c].using].owner, call[c].using)
    /\ call' = [call EXCEPT ![c].srv = "rotated"]
    /\ UNCHANGED <<stored, shown, gate, lost, faults>>

\* rotate: the update goes by primary key and does not look at revoked again.
RevokeOld(c) ==
    /\ Refreshing(c) /\ call[c].srv = "checked"
    /\ pair' = [pair EXCEPT ![call[c].using].revoked = TRUE]
    /\ call' = [call EXCEPT ![c].srv = "rotated"]
    /\ UNCHANGED <<stored, shown, gate, lost, faults>>

\* refresh reads the account after rotate: when that fails, the answer is an error
\* although the new pair exists.
IssueNew(c) ==
    /\ Refreshing(c) /\ call[c].srv = "rotated"
    /\ \E q \in Pairs :
          /\ Issue(q, pair[call[c].using].owner, call[c].using)
          /\ \/ call' = [call EXCEPT ![c] = Answer(@, q)] /\ UNCHANGED faults
             \/ call' = [call EXCEPT ![c] = Answer(@, NoPair)] /\ Fault
    /\ UNCHANGED <<stored, shown, gate, lost>>

\* A statement fails: the answer is an error, what was committed stays.  So it
\* does when the bound leaves no pair to issue.
ServerFails(c) ==
    /\ call[c].srv \in {"asked", "checked", "rotated"}
    /\ Fault \/ (call[c].srv = "rotated" /\ Pairs = {q \in Pairs : Issued(q)} /\ UNCHANGED faults)
    /\ call' = [call EXCEPT ![c] = Answer(@, NoPair)]
    /\ UNCHANGED <<pair, stored, shown, gate, lost>>

\* Time matters only to tokens a browser or a request still carries.
Carried(p) == (\E b \in Browsers : stored[b] = p) \/ (\E c \in Calls : p \in {call[c].bearer, call[c].using})

AccessExpires(p) ==
    /\ AccessValid(p) /\ Carried(p)
    /\ pair' = [pair EXCEPT ![p].stale = TRUE]
    /\ UNCHANGED <<stored, shown, gate, call, lost, faults>>

\* A refresh token outlives the access token issued with it.
RefreshExpires(p) ==
    /\ Refreshable(p) /\ pair[p].stale /\ Carried(p)
    /\ pair' = [pair EXCEPT ![p].expired = TRUE]
    /\ UNCHANGED <<stored, shown, gate, call, lost, faults>>

--------------------------------------------------------------------------------
(* The tab receives.                                                            *)

\* A rejected loadMe shows nobody; another rejected call only reports its error.
ShownAfterFailure(t, failed) ==
    IF \E d \in failed : call[d].kind = "me" THEN [shown EXCEPT ![t] = NoAccount] ELSE shown

Fail(failed, t) ==
    /\ call' = [d \in Calls |-> IF d \in failed THEN LetGo(call[d]) ELSE call[d]]
    /\ shown' = ShownAfterFailure(t, failed)

\* The answer to a call with an access token, at the first or second attempt.
ReceiveData(c) ==
    /\ call[c].kind \in {"use", "me"} /\ call[c].pc \in {"sent", "resent"}
    /\ AccessValid(call[c].bearer)
    /\ call' = [call EXCEPT ![c] = Idle]
    /\ shown' = IF call[c].kind = "me" THEN [shown EXCEPT ![TabOf[c]] = pair[call[c].bearer].owner] ELSE shown
    /\ UNCHANGED <<pair, stored, gate, lost, faults>>

\* 401 at the first attempt: join the refresh under way, start one, or give up.
Receive401(c) ==
    LET t == TabOf[c] IN
    /\ call[c].kind \in {"use", "me"} /\ call[c].pc = "sent" /\ ~AccessValid(call[c].bearer)
    /\ \/ /\ gate[t] = "busy"
          /\ call' = [call EXCEPT ![c].pc = "waiting"]
          /\ UNCHANGED <<gate, shown>>
       \/ /\ gate[t] = "open" /\ Storage(c) # NoPair
          /\ gate' = [gate EXCEPT ![t] = "busy"]
          /\ call' = [call EXCEPT ![c] = [@ EXCEPT !.pc = "refreshing", !.srv = "asked",
                                                   !.using = Storage(c), !.dead = ~Refreshable(Storage(c))]]
          /\ UNCHANGED shown
       \/ /\ gate[t] = "rejected" \/ (gate[t] = "open" /\ Storage(c) = NoPair)
          /\ Fail({c}, t)
          /\ UNCHANGED gate
    /\ UNCHANGED <<pair, stored, lost, faults>>

\* The second 401 is final.
Receive401Again(c) ==
    /\ call[c].pc = "resent" /\ ~AccessValid(call[c].bearer)
    /\ Fail({c}, TabOf[c])
    /\ UNCHANGED <<pair, stored, gate, lost, faults>>

WaitingForgotten(c) == {c}                            \* mutant

\* Everyone in the tab whose call depends on the refresh c is waiting for.
Waiting(c) == {d \in Calls : TabOf[d] = TabOf[c] /\ (d = c \/ call[d].pc = "waiting")}

\* Mutant: the calls go out again but the pair is not stored.
RefreshedUnstored(c) ==
    LET q == call[c].got
    IN /\ call[c].pc = "refreshing" /\ call[c].srv = "answered" /\ q # NoPair
       /\ gate' = [gate EXCEPT ![TabOf[c]] = "open"]
       /\ call' = [d \in Calls |-> IF d \in Waiting(c)
                                   THEN [Idle EXCEPT !.kind = call[d].kind, !.pc = "resent", !.bearer = q]
                                   ELSE call[d]]
       /\ UNCHANGED <<pair, stored, shown, lost, faults>>

\* tryRefresh got a pair: store it, open the gate, send the calls again.
Refreshed(c) ==
    LET q == call[c].got
    IN /\ call[c].pc = "refreshing" /\ call[c].srv = "answered" /\ q # NoPair
       /\ stored' = [stored EXCEPT ![BrowserOf[TabOf[c]]] = q]
       /\ gate' = [gate EXCEPT ![TabOf[c]] = "open"]
       /\ call' = [d \in Calls |-> IF d \in Waiting(c)
                                   THEN [Idle EXCEPT !.kind = call[d].kind, !.pc = "resent", !.bearer = q]
                                   ELSE call[d]]
       /\ UNCHANGED <<pair, shown, lost, faults>>

\* Mutant: the result is left in the gate instead of null.
ResultInGate(c) ==
    /\ call[c].pc = "refreshing" /\ call[c].srv = "answered" /\ call[c].got = NoPair
    /\ stored' = [stored EXCEPT ![BrowserOf[TabOf[c]]] = NoPair]
    /\ gate' = [gate EXCEPT ![TabOf[c]] = "false"]
    /\ Fail(Waiting(c), TabOf[c])
    /\ UNCHANGED <<pair, lost, faults>>

\* tryRefresh got any answer but 2xx: whatever is stored by now is cleared.
RefreshRefused(c) ==
    /\ call[c].pc = "refreshing" /\ call[c].srv = "answered" /\ call[c].got = NoPair
    /\ stored' = [stored EXCEPT ![BrowserOf[TabOf[c]]] = NoPair]
    /\ gate' = [gate EXCEPT ![TabOf[c]] = "open"]
    /\ Fail(Waiting(c), TabOf[c])
    /\ UNCHANGED <<pair, lost, faults>>

ReceiveLogin(c) ==
    LET q == call[c].got
    IN /\ call[c].kind = "login" /\ call[c].pc = "sent" /\ call[c].srv = "answered"
       /\ call' = [call EXCEPT ![c] = Idle]
       /\ IF q = NoPair THEN UNCHANGED <<stored, shown>>
          ELSE /\ stored' = [stored EXCEPT ![BrowserOf[TabOf[c]]] = q]
               /\ shown' = [shown EXCEPT ![TabOf[c]] = call[c].who]
       /\ UNCHANGED <<pair, gate, lost, faults>>

\* The tokens go whatever became of the request.
FinishLogout(c) ==
    /\ stored' = [stored EXCEPT ![BrowserOf[TabOf[c]]] = NoPair]
    /\ shown' = [shown EXCEPT ![TabOf[c]] = NoAccount]
    /\ call' = [call EXCEPT ![c] = LetGo(@)]

ReceiveLogout(c) ==
    /\ call[c].kind = "logout" /\ call[c].pc = "sent" /\ call[c].srv = "answered"
    /\ FinishLogout(c)
    /\ UNCHANGED <<pair, gate, lost, faults>>

--------------------------------------------------------------------------------
(* What goes wrong in between.                                                  *)

\* fetch rejects: no network, or the server died; a handler may still run.
ConnectionLost(c) ==
    /\ Fault
    /\ \/ /\ call[c].kind \in {"use", "me"} /\ call[c].pc \in {"sent", "resent"}
          /\ Fail({c}, TabOf[c])
          /\ UNCHANGED <<stored, gate>>
       \/ /\ call[c].pc = "refreshing"
          /\ gate' = [gate EXCEPT ![TabOf[c]] = "rejected"]
          /\ Fail(Waiting(c), TabOf[c])
          /\ UNCHANGED stored
       \/ /\ call[c].kind = "login" /\ call[c].pc = "sent"
          /\ Fail({c}, TabOf[c])
          /\ UNCHANGED <<stored, gate>>
       \/ /\ call[c].kind = "logout" /\ call[c].pc = "sent"
          /\ FinishLogout(c)
          /\ UNCHANGED gate
    /\ lost' = IF call[c].pc = "refreshing" THEN lost \cup {BrowserOf[TabOf[c]]} ELSE lost
    /\ UNCHANGED pair

\* The page is loaded again (or another one in its place): module and component
\* state start afresh, localStorage and the handlers go on.
Reload(t) ==
    /\ Fault
    /\ gate' = [gate EXCEPT ![t] = "open"]
    /\ shown' = [shown EXCEPT ![t] = NoAccount]
    /\ call' = [c \in Calls |-> IF TabOf[c] = t THEN LetGo(call[c]) ELSE call[c]]
    /\ lost' = IF \E c \in Calls : TabOf[c] = t /\ call[c].pc # "idle" /\ call[c].using # NoPair
               THEN lost \cup {BrowserOf[t]} ELSE lost
    /\ UNCHANGED <<pair, stored>>

Send(c) == StartUse(c) \/ LoadMe(c) \/ StartLogout(c) \/ \E u \in Accounts : StartLogin(c, u)
Serve(c) == HandleLogin(c) \/ HandleLogout(c) \/ FindToken(c) \/ RevokeOld(c) \/ IssueNew(c) \/ ServerFails(c)
Receive(c) == ReceiveData(c) \/ Receive401(c) \/ Receive401Again(c) \/ Refreshed(c) \/ RefreshRefused(c)
              \/ ReceiveLogin(c) \/ ReceiveLogout(c)

Next ==
    \/ \E c \in Calls : Send(c) \/ Serve(c) \/ Receive(c) \/ ConnectionLost(c)
    \/ \E t \in Tabs : Reload(t)
    \/ \E p \in Pairs : AccessExpires(p) \/ RefreshExpires(p)

Spec == Init /\ [][Next]_vars

--------------------------------------------------------------------------------
(* Properties.                                                                  *)

TypeOK ==
    /\ pair \in [Pairs -> Pair]
    /\ stored \in [Browsers -> Stored]
    /\ shown \in [Tabs -> Owner]
    /\ gate \in [Tabs -> {"open", "busy", "rejected"}]
    /\ call \in [Calls -> Call]
    /\ lost \subseteq Browsers
    /\ faults \in 0..MaxFaults

\* However many calls of a page meet an expired access token at once, the page has
\* one refresh under way; a pending gate always has someone who will open it, and a
\* call never waits at a gate that nobody will open (api.ts, `refreshing`).
OneRefreshPerTab ==
    \A t \in Tabs :
        LET mine == {c \in Calls : TabOf[c] = t /\ call[c].pc = "refreshing"}
        IN /\ \A c, d \in mine : c = d
           /\ gate[t] = "busy" <=> mine # {}
           /\ (\E c \in Calls : TabOf[c] = t /\ call[c].pc = "waiting") => mine # {}

\* A refresh token that was exchanged is dead before its successor exists, whatever
\* fails or crashes in between, and the successor belongs to the same account
\* (rotate revokes first and issues then).
RotationSound ==
    \A q \in Pairs : LET p == pair[q].parent IN
        p # NoPair => pair[p].revoked /\ pair[p].owner = pair[q].owner

\* A refresh request that leaves a browser after its token was revoked or has
\* expired brings no tokens back, however long it is under way (replay).
NoReplay == \A c \in Calls : call[c].dead => call[c].got = NoPair

\* Tabs that race, users that sign out and tokens that expire never leave a browser
\* with a revoked refresh token stored and nobody in it about to replace it: only
\* an answer that was lost does (rotation without a grace period).
StoredTokenUsable ==
    \A b \in Browsers :
        stored[b] # NoPair /\ b \notin lost /\ pair[stored[b]].revoked
        => \E c \in Calls : BrowserOf[TabOf[c]] = b /\ call[c].pc # "idle" /\ call[c].using = stored[b]
====
