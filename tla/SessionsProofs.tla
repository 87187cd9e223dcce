---- MODULE SessionsProofs ----
(* Proofs about Sessions, for every number of accounts, browsers, tabs, calls,   *)
(* pairs and faults, whatever the calls may do.                                  *)
EXTENDS Sessions, TLAPS

HomeOf(c) == BrowserOf[TabOf[c]]
IssuedIn(P, p) == p \in Pairs /\ P[p].owner # NoAccount
RefreshableIn(P, p) == IssuedIn(P, p) /\ ~P[p].revoked /\ ~P[p].expired

\* What the two sides of a call know at each point, given the pairs P.
CallOK(k, P) ==
    /\ k \in Call
    /\ k.kind \in {"login", "logout"} => k.pc \in {"idle", "sent"}
    /\ k.kind \in {"use", "me"} /\ k.pc \in {"sent", "waiting", "resent"} => k.srv = "none" /\ k.using = NoPair
    /\ k.pc = "refreshing" => k.srv # "none"
    /\ k.srv \in {"checked", "rotated"} => k.kind \in {"use", "me"}
    /\ k.kind = "login" => k.using = NoPair /\ (k.srv # "none" => k.who \in Accounts)
    /\ k.kind # "login" /\ k.srv # "none" => IssuedIn(P, k.using)
    /\ k.using # NoPair => k.srv # "none"
    /\ k.srv = "rotated" => P[k.using].revoked
    /\ k.srv = "answered" => k.pc # "idle"
    /\ k.got # NoPair => k.srv = "answered" /\ IssuedIn(P, k.got)
    /\ k.dead => k.kind # "login" /\ k.got = NoPair /\ k.srv \notin {"checked", "rotated"}
                 /\ (k.srv = "asked" => ~RefreshableIn(P, k.using))

CallsOK == \A c \in Calls : CallOK(call[c], pair)

StoredIssued == \A b \in Browsers : stored[b] # NoPair => IssuedIn(pair, stored[b])

\* A parent is an issued pair that is over, of the same account.
ParentsOK ==
    \A q \in Pairs : LET p == pair[q].parent IN
        p # NoPair => IssuedIn(pair, p) /\ pair[p].revoked /\ pair[p].owner = pair[q].owner

\* A pair that is still on its way to a tab is known to nobody else.
GotFresh ==
    \A c \in Calls : LET q == call[c].got IN
        q # NoPair =>
            /\ ~pair[q].revoked
            /\ \A b \in Browsers : stored[b] # q
            /\ \A d \in Calls : call[d].using # q /\ (d # c => call[d].got # q)

\* A refresh token stays within one browser.
OneHome ==
    \A b \in Browsers : stored[b] # NoPair =>
        /\ \A d \in Browsers : stored[d] = stored[b] => d = b
        /\ \A c \in Calls : call[c].using = stored[b] => HomeOf(c) = b

\* A refresh that goes on without its tab has lost its answer; so has a logout, or
\* it has cleared the storage.
OrphansOK ==
    \A c \in Calls : call[c].pc = "idle" /\ call[c].srv # "none" =>
        \/ call[c].kind = "login" \/ HomeOf(c) \in lost
        \/ call[c].kind = "logout" /\ stored[HomeOf(c)] # call[c].using

\* The invariant but for the types and the gates.
Tokens == CallsOK /\ StoredIssued /\ ParentsOK /\ GotFresh /\ OneHome /\ OrphansOK /\ StoredTokenUsable

IInv == TypeOK /\ OneRefreshPerTab /\ Tokens

--------------------------------------------------------------------------------
(* Single records.                                                              *)

LEMMA NoPairNoId == NoPair \notin Pairs /\ NoPair \in Stored /\ Pairs \subseteq Stored
BY BoundsAssumption DEF NoPair, Pairs, Stored

LEMMA HomeType == \A c \in Calls : TabOf[c] \in Tabs /\ HomeOf(c) \in Browsers
BY TabsAssumption DEF HomeOf

LEMMA PairTypes == Unissued \in Pair /\ Unissued.owner = NoAccount
BY NoPairNoId DEF Unissued, Pair, Owner

LEMMA IdleFields ==
    /\ Idle \in Call /\ Idle.kind = "use" /\ Idle.pc = "idle" /\ Idle.srv = "none"
    /\ Idle.using = NoPair /\ Idle.got = NoPair /\ Idle.dead = FALSE
BY NoPairNoId DEF Idle, Call, Owner

LEMMA IdleOK == \A P : CallOK(Idle, P)
BY IdleFields DEF CallOK

\* Pairs are only ever added, revoked and expired.
Grows(P, Q) ==
    \A p \in Pairs : P[p].owner # NoAccount =>
        /\ Q[p].owner = P[p].owner
        /\ P[p].revoked => Q[p].revoked
        /\ P[p].expired => Q[p].expired

LEMMA CallGrows == ASSUME NEW P, NEW Q, NEW k, Grows(P, Q), CallOK(k, P) PROVE CallOK(k, Q)
<1>1. \A p : IssuedIn(P, p) => IssuedIn(Q, p)
  BY DEF Grows, IssuedIn
<1>2. \A p : IssuedIn(P, p) /\ P[p].revoked => Q[p].revoked
  BY DEF Grows, IssuedIn
<1>3. \A p : IssuedIn(P, p) /\ ~RefreshableIn(P, p) => ~RefreshableIn(Q, p)
  BY DEF Grows, IssuedIn, RefreshableIn
<1>4. k.srv = "asked" /\ k.dead => ~RefreshableIn(Q, k.using)
  BY <1>3 DEF CallOK
<1>5. k.srv = "rotated" => Q[k.using].revoked
  BY <1>2 DEF CallOK
<1>6. QED
  BY <1>1, <1>4, <1>5 DEF CallOK

\* A tab that lets go of a call leaves it idle, or a handler without a listener.
LEMMA LetGoFields ==
    ASSUME NEW P, NEW k, CallOK(k, P)
    PROVE  /\ CallOK(LetGo(k), P) /\ LetGo(k).pc = "idle" /\ LetGo(k).got = NoPair
           /\ LetGo(k).using \in {NoPair, k.using}
           /\ LetGo(k).srv # "none" => LetGo(k).kind = k.kind /\ LetGo(k).using = k.using /\ k.srv = LetGo(k).srv
<1>1. CASE k.srv \in {"none", "answered"}
  BY <1>1, IdleOK, IdleFields DEF LetGo
<1>2. CASE k.srv \notin {"none", "answered"}
  <2>0. PICK m : m = [k EXCEPT !.pc = "idle"]
    OBVIOUS
  <2>1. k \in Call
    BY DEF CallOK
  <2>2. /\ m \in Call /\ m.pc = "idle" /\ m.kind = k.kind /\ m.srv = k.srv /\ m.using = k.using
        /\ m.got = k.got /\ m.who = k.who /\ m.dead = k.dead
    BY <2>0, <2>1 DEF Call
  <2>3. k.got = NoPair
    BY <1>2 DEF CallOK
  <2>4. CallOK(m, P)
    BY <1>2, <2>2 DEF CallOK
  <2>5. LetGo(k) = m
    BY <1>2, <2>0 DEF LetGo
  <2>6. QED
    BY <2>2, <2>3, <2>4, <2>5
<1>3. QED
  BY <1>1, <1>2

\* A handler's answer reaches the call, or nobody.
LEMMA AnswerFields ==
    ASSUME NEW P, NEW k, CallOK(k, P), NEW q, q = NoPair \/ IssuedIn(P, q), k.dead => q = NoPair,
           k.srv # "none"
    PROVE  /\ CallOK(Answer(k, q), P)
           /\ k.pc = "idle" => Answer(k, q) = Idle
           /\ k.pc # "idle" => /\ Answer(k, q).pc = k.pc /\ Answer(k, q).using = k.using
                               /\ Answer(k, q).got = q /\ Answer(k, q).kind = k.kind
<1>1. CASE k.pc = "idle"
  BY <1>1, IdleOK DEF Answer
<1>2. CASE k.pc # "idle"
  <2>0. PICK m : m = [k EXCEPT !.srv = "answered", !.got = q]
    OBVIOUS
  <2>1. k \in Call /\ q \in Stored
    BY NoPairNoId DEF CallOK, IssuedIn
  <2>2. /\ m \in Call /\ m.pc = k.pc /\ m.kind = k.kind /\ m.srv = "answered" /\ m.using = k.using
        /\ m.got = q /\ m.who = k.who /\ m.dead = k.dead
    BY <2>0, <2>1 DEF Call
  <2>3. CallOK(m, P)
    BY <1>2, <2>2 DEF CallOK
  <2>4. Answer(k, q) = m
    BY <1>2, <2>0 DEF Answer
  <2>5. QED
    BY <1>2, <2>2, <2>3, <2>4
<1>3. QED
  BY <1>1, <1>2

LEMMA InitInv == Init => IInv
<1> SUFFICES ASSUME Init PROVE IInv
  OBVIOUS
<1>1. /\ \A c \in Calls : call[c] = Idle
      /\ \A b \in Browsers : stored[b] = NoPair
      /\ \A p \in Pairs : pair[p] = Unissued
      /\ \A t \in Tabs : gate[t] = "open"
  BY DEF Init
<1>2. TypeOK
  BY PairTypes, IdleFields, NoPairNoId, BoundsAssumption DEF Init, TypeOK, Owner
<1>3. CallsOK
  BY <1>1, IdleOK DEF CallsOK
<1>4. StoredIssued /\ OneHome /\ StoredTokenUsable
  BY <1>1 DEF StoredIssued, OneHome, StoredTokenUsable
<1>5. OneRefreshPerTab
  BY <1>1, IdleFields DEF OneRefreshPerTab
<1>6. ParentsOK
  BY <1>1 DEF ParentsOK, Unissued
<1>7. GotFresh /\ OrphansOK
  BY <1>1, IdleFields DEF GotFresh, OrphansOK
<1>8. QED
  BY <1>2, <1>3, <1>4, <1>5, <1>6, <1>7 DEF IInv, Tokens

--------------------------------------------------------------------------------
(* Gates.                                                                       *)

LEMMA GateKept ==
    ASSUME OneRefreshPerTab, gate' = gate,
           \A c \in Calls : /\ call'[c].pc = "refreshing" <=> call[c].pc = "refreshing"
                            /\ call'[c].pc = "waiting" => call[c].pc = "waiting"
    PROVE  OneRefreshPerTab'
BY DEF OneRefreshPerTab

\* Whoever opens a gate, or leaves it rejected, leaves nobody behind it.
LEMMA GateLeft ==
    ASSUME TypeOK, OneRefreshPerTab, NEW t \in Tabs, NEW g, g # "busy", gate' = [gate EXCEPT ![t] = g],
           \A c \in Calls : IF TabOf[c] = t THEN call'[c].pc \notin {"refreshing", "waiting"}
                            ELSE call'[c] = call[c]
    PROVE  OneRefreshPerTab'
<1>1. gate'[t] = g /\ \A s \in Tabs : s # t => gate'[s] = gate[s]
  BY DEF TypeOK
<1> SUFFICES ASSUME NEW s \in Tabs
             PROVE  LET mine == {c \in Calls : TabOf[c] = s /\ call'[c].pc = "refreshing"}
                    IN /\ \A c, d \in mine : c = d
                       /\ gate'[s] = "busy" <=> mine # {}
                       /\ (\E c \in Calls : TabOf[c] = s /\ call'[c].pc = "waiting") => mine # {}
  BY DEF OneRefreshPerTab
<1>2. CASE s = t
  <2>1. {c \in Calls : TabOf[c] = s /\ call'[c].pc = "refreshing"} = {}
    BY <1>2
  <2>2. ~\E c \in Calls : TabOf[c] = s /\ call'[c].pc = "waiting"
    BY <1>2
  <2>3. gate'[s] # "busy"
    BY <1>1, <1>2
  <2>4. QED
    BY <2>1, <2>2, <2>3
<1>3. CASE s # t
  <2>1. {c \in Calls : TabOf[c] = s /\ call'[c].pc = "refreshing"}
        = {c \in Calls : TabOf[c] = s /\ call[c].pc = "refreshing"}
    BY <1>3
  <2>2. \A c \in Calls : TabOf[c] = s => call'[c] = call[c]
    BY <1>3
  <2>3. gate'[s] = gate[s]
    BY <1>1, <1>3
  <2>4. QED
    BY <2>1, <2>2, <2>3 DEF OneRefreshPerTab
<1>4. QED
  BY <1>2, <1>3

--------------------------------------------------------------------------------
(* Steps that change neither the pairs nor a browser's storage.                 *)

Quiet(d) ==
    /\ CallOK(call'[d], pair)
    /\ call'[d].got \in {NoPair, call[d].got}
    /\ call'[d].using \in {NoPair, call[d].using, Storage(d)}
    /\ call'[d].pc = "idle" /\ call'[d].srv # "none" =>
          \/ call'[d].kind = "login" \/ HomeOf(d) \in lost'
          \/ call'[d].kind = "logout" /\ Storage(d) # call'[d].using
    /\ call[d].pc # "idle" /\ call[d].using # NoPair =>
          HomeOf(d) \in lost' \/ (call'[d].pc # "idle" /\ call'[d].using = call[d].using)

LEMMA QuietStep ==
    ASSUME Tokens, UNCHANGED <<pair, stored>>, lost \subseteq lost', \A d \in Calls : Quiet(d)
    PROVE  Tokens'
<1>1. pair' = pair /\ stored' = stored
  OBVIOUS
<1>2. CallsOK'
  BY <1>1 DEF CallsOK, Quiet
<1>3. StoredIssued' /\ ParentsOK'
  BY <1>1 DEF Tokens, StoredIssued, ParentsOK, IssuedIn
<1>4. GotFresh'
  <2> SUFFICES ASSUME NEW c \in Calls, call'[c].got # NoPair
               PROVE  /\ ~pair[call'[c].got].revoked
                      /\ \A b \in Browsers : stored[b] # call'[c].got
                      /\ \A d \in Calls : call'[d].using # call'[c].got /\ (d # c => call'[d].got # call'[c].got)
    BY <1>1 DEF GotFresh
  <2>1. call'[c].got = call[c].got
    BY DEF Quiet
  <2>2. \A d \in Calls : Storage(d) # call[c].got
    BY <2>1, HomeType DEF Tokens, GotFresh, Storage, HomeOf
  <2>3. QED
    BY <2>1, <2>2 DEF Tokens, GotFresh, Quiet
<1>5. OneHome'
  <2> SUFFICES ASSUME NEW b \in Browsers, stored[b] # NoPair
               PROVE  /\ \A d \in Browsers : stored[d] = stored[b] => d = b
                      /\ \A c \in Calls : call'[c].using = stored[b] => HomeOf(c) = b
    BY <1>1 DEF OneHome
  <2>1. \A c \in Calls : Storage(c) = stored[b] => HomeOf(c) = b
    BY HomeType DEF Tokens, OneHome, Storage, HomeOf
  <2>2. QED
    BY <2>1 DEF Tokens, OneHome, Quiet
<1>6. OrphansOK'
  BY <1>1 DEF OrphansOK, Quiet, Storage, HomeOf
<1>7. StoredTokenUsable'
  <2> SUFFICES ASSUME NEW b \in Browsers, stored[b] # NoPair, b \notin lost', pair[stored[b]].revoked
               PROVE  \E c \in Calls : HomeOf(c) = b /\ call'[c].pc # "idle" /\ call'[c].using = stored[b]
    BY <1>1 DEF StoredTokenUsable, HomeOf
  <2>1. PICK c \in Calls : HomeOf(c) = b /\ call[c].pc # "idle" /\ call[c].using = stored[b]
    BY DEF Tokens, StoredTokenUsable, HomeOf
  <2>2. QED
    BY <2>1 DEF Quiet
<1>8. QED
  BY <1>2, <1>3, <1>4, <1>5, <1>6, <1>7 DEF Tokens

LEMMA SameQuiet ==
    ASSUME Tokens, lost \subseteq lost', NEW d \in Calls, call'[d] = call[d]
    PROVE  Quiet(d)
BY DEF Tokens, CallsOK, OrphansOK, Quiet, Storage, HomeOf

LEMMA LetGoQuiet ==
    ASSUME Tokens, lost \subseteq lost', NEW d \in Calls, call'[d] = LetGo(call[d]),
           call[d].pc # "idle" /\ call[d].using # NoPair => HomeOf(d) \in lost'
    PROVE  Quiet(d)
<1>1. CallOK(call[d], pair)
  BY DEF Tokens, CallsOK
<1>2. PICK k : k = call[d]
  OBVIOUS
<1>3. PICK m : m = LetGo(k)
  OBVIOUS
<1>4. CallOK(k, pair) /\ call'[d] = m
  BY <1>1, <1>2, <1>3
<1>5. /\ CallOK(m, pair) /\ m.pc = "idle" /\ m.got = NoPair /\ m.using \in {NoPair, k.using}
      /\ m.srv # "none" => m.kind = k.kind /\ m.using = k.using /\ k.srv = m.srv
  BY <1>3, <1>4, LetGoFields
<1>6. m.srv # "none" =>
          \/ m.kind = "login" \/ HomeOf(d) \in lost'
          \/ m.kind = "logout" /\ Storage(d) # m.using
  <2> SUFFICES ASSUME m.srv # "none", m.kind # "login", HomeOf(d) \notin lost'
               PROVE  m.kind = "logout" /\ Storage(d) # m.using
    OBVIOUS
  <2>1. k.kind = m.kind /\ m.using = k.using /\ k.srv # "none"
    BY <1>5
  <2>2. k.using # NoPair
    BY <2>1, <1>4, NoPairNoId DEF CallOK, IssuedIn
  <2>3. k.pc = "idle" /\ HomeOf(d) \notin lost
    BY <2>2, <1>2
  <2>4. QED
    BY <2>1, <2>3, <1>2 DEF Tokens, OrphansOK, Storage, HomeOf
<1>7. QED
  BY <1>2, <1>4, <1>5, <1>6 DEF Quiet

LEMMA AnswerQuiet ==
    ASSUME Tokens, lost' = lost, NEW d \in Calls, call[d].srv # "none", call'[d] = Answer(call[d], NoPair)
    PROVE  Quiet(d) /\ call'[d].pc = call[d].pc
<1>1. PICK k : k = call[d]
  OBVIOUS
<1>2. PICK m : m = Answer(k, NoPair)
  OBVIOUS
<1>3. CallOK(k, pair) /\ call'[d] = m /\ k.srv # "none"
  BY <1>1, <1>2 DEF Tokens, CallsOK
<1>4. /\ CallOK(m, pair)
      /\ k.pc = "idle" => m = Idle
      /\ k.pc # "idle" => m.pc = k.pc /\ m.using = k.using /\ m.got = NoPair
  BY <1>2, <1>3, AnswerFields
<1>5. CASE k.pc = "idle"
  BY <1>1, <1>3, <1>4, <1>5, IdleFields DEF Quiet
<1>6. CASE k.pc # "idle"
  BY <1>1, <1>3, <1>4, <1>6 DEF Quiet
<1>7. QED
  BY <1>5, <1>6

--------------------------------------------------------------------------------
(* Steps that change what a browser stores: nothing, or the pair a call got.    *)

StoreStep(c, v) ==
    /\ UNCHANGED pair
    /\ stored' = [stored EXCEPT ![HomeOf(c)] = v]
    /\ v = NoPair \/ (v = call[c].got /\ call'[c].got = NoPair)
    /\ \A d \in Calls :
          /\ CallOK(call'[d], pair)
          /\ call'[d].got \in {NoPair, call[d].got}
          /\ call'[d].using \in {NoPair, call[d].using}
          /\ HomeOf(d) # HomeOf(c) => call'[d] = call[d]
          /\ call'[d].pc = "idle" /\ call'[d].srv # "none" =>
                call'[d] = call[d] \/ (v = NoPair /\ call'[d].kind = "logout" /\ call'[d].using # NoPair)

LEMMA StoreTokens ==
    ASSUME TypeOK, Tokens, lost \subseteq lost', NEW c \in Calls, NEW v, StoreStep(c, v)
    PROVE  Tokens'
<1>0. PICK h : h = HomeOf(c)
  OBVIOUS
<1>1. /\ pair' = pair /\ h \in Browsers /\ stored'[h] = v
      /\ \A b \in Browsers : b # h => stored'[b] = stored[b]
  BY <1>0, HomeType DEF StoreStep, TypeOK
<1>2. CallsOK'
  BY <1>1 DEF CallsOK, StoreStep
<1>3. v # NoPair =>
          /\ IssuedIn(pair, v) /\ ~pair[v].revoked /\ \A b \in Browsers : stored[b] # v
          /\ \A d \in Calls : call[d].using # v /\ (d # c => call[d].got # v)
  BY DEF StoreStep, Tokens, GotFresh, CallsOK, CallOK
<1>4. StoredIssued' /\ ParentsOK'
  BY <1>1, <1>3 DEF Tokens, StoredIssued, ParentsOK, IssuedIn
<1>5. GotFresh'
  <2> SUFFICES ASSUME NEW d \in Calls, call'[d].got # NoPair
               PROVE  /\ ~pair[call'[d].got].revoked
                      /\ \A b \in Browsers : stored'[b] # call'[d].got
                      /\ \A e \in Calls : call'[e].using # call'[d].got /\ (e # d => call'[e].got # call'[d].got)
    BY <1>1 DEF GotFresh
  <2>1. call'[d].got = call[d].got
    BY DEF StoreStep
  <2>2. v # call[d].got
    BY <2>1, <1>3 DEF StoreStep
  <2>3. \A b \in Browsers : stored'[b] # call[d].got
    BY <1>1, <2>1, <2>2 DEF Tokens, GotFresh
  <2>4. QED
    BY <2>1, <2>3 DEF StoreStep, Tokens, GotFresh
<1>6. OneHome'
  <2> SUFFICES ASSUME NEW b \in Browsers, stored'[b] # NoPair
               PROVE  /\ \A d \in Browsers : stored'[d] = stored'[b] => d = b
                      /\ \A e \in Calls : call'[e].using = stored'[b] => HomeOf(e) = b
    BY DEF OneHome
  <2>1. CASE b = h
    BY <1>1, <1>3, <2>1 DEF StoreStep
  <2>2. CASE b # h
    BY <1>1, <1>3, <2>2 DEF StoreStep, Tokens, OneHome
  <2>3. QED
    BY <2>1, <2>2
<1>7. OrphansOK'
  <2> SUFFICES ASSUME NEW d \in Calls, call'[d].pc = "idle", call'[d].srv # "none",
                      call'[d].kind # "login", HomeOf(d) \notin lost'
               PROVE  call'[d].kind = "logout" /\ stored'[HomeOf(d)] # call'[d].using
    BY DEF OrphansOK
  <2>1. CASE call'[d] = call[d]
    <3>1. call[d].kind = "logout" /\ stored[HomeOf(d)] # call[d].using
      BY <2>1 DEF Tokens, OrphansOK
    <3>2. call[d].using # NoPair
      BY <2>1, NoPairNoId DEF Tokens, CallsOK, CallOK, IssuedIn
    <3>3. QED
      BY <2>1, <3>1, <3>2, <1>1, <1>3, HomeType
  <2>2. CASE call'[d] # call[d]
    BY <2>2, <1>0, <1>1 DEF StoreStep
  <2>3. QED
    BY <2>1, <2>2
<1>8. StoredTokenUsable'
  <2> SUFFICES ASSUME NEW b \in Browsers, stored'[b] # NoPair, b \notin lost', pair[stored'[b]].revoked
               PROVE  \E d \in Calls : HomeOf(d) = b /\ call'[d].pc # "idle" /\ call'[d].using = stored'[b]
    BY <1>1 DEF StoredTokenUsable, HomeOf
  <2>1. b # h
    BY <1>1, <1>3
  <2>2. PICK d \in Calls : HomeOf(d) = b /\ call[d].pc # "idle" /\ call[d].using = stored[b]
    BY <2>1, <1>1 DEF Tokens, StoredTokenUsable, HomeOf
  <2>3. QED
    BY <2>1, <2>2, <1>0, <1>1 DEF StoreStep
<1>9. QED
  BY <1>2, <1>4, <1>5, <1>6, <1>7, <1>8 DEF Tokens

--------------------------------------------------------------------------------
(* Steps that change the pairs.                                                 *)

LEMMA IssuedGrows ==
    ASSUME NEW P, NEW Q, Grows(P, Q)
    PROVE  \A p : IssuedIn(P, p) => IssuedIn(Q, p) /\ Q[p].owner = P[p].owner /\ (P[p].revoked => Q[p].revoked)
BY DEF Grows, IssuedIn

\* A token somebody uses has been issued.
LEMMA UsedIssued ==
    ASSUME Tokens, NEW d \in Calls
    PROVE  /\ call[d].using # NoPair => IssuedIn(pair, call[d].using)
           /\ call[d].got # NoPair => IssuedIn(pair, call[d].got)
BY DEF Tokens, CallsOK, CallOK

\* A new pair that c alone gets to know, or nobody: a is what c is answered.
LEMMA IssueTokens ==
    ASSUME TypeOK, Tokens, UNCHANGED <<stored, lost>>, NEW c \in Calls, NEW q \in Pairs, NEW p, NEW u \in Accounts,
           NEW a \in {q, NoPair}, Issue(q, u, p), call[c].srv # "none", ~call[c].dead,
           call' = [call EXCEPT ![c] = Answer(@, a)],
           p = NoPair \/ (IssuedIn(pair, p) /\ pair[p].revoked /\ pair[p].owner = u)
    PROVE  Tokens' /\ pair' \in [Pairs -> Pair] /\ (call'[c].pc = call[c].pc)
<1>1. /\ pair' \in [Pairs -> Pair]
      /\ pair'[q].owner = u /\ pair'[q].parent = p /\ ~pair'[q].revoked
      /\ \A r \in Pairs : r # q => pair'[r] = pair[r]
  <2>1. PICK n : n = [Unissued EXCEPT !.owner = u, !.parent = p]
    OBVIOUS
  <2>2. p \in Stored
    BY NoPairNoId DEF IssuedIn
  <2>3. n \in Pair /\ n.owner = u /\ n.parent = p /\ n.revoked = FALSE
    BY <2>1, <2>2 DEF Unissued, Pair, Owner
  <2>4. pair' = [pair EXCEPT ![q] = n]
    BY <2>1 DEF Issue
  <2>5. QED
    BY <2>3, <2>4 DEF TypeOK
<1>2. u # NoAccount /\ ~IssuedIn(pair, q) /\ IssuedIn(pair', q)
  BY <1>1, NullAssumption DEF Issue, Issued, IssuedIn
<1>3. Grows(pair, pair')
  BY <1>1, <1>2 DEF Grows, IssuedIn
<1>4. \A d \in Calls : d # c => call'[d] = call[d]
  BY DEF TypeOK
<1>5. /\ CallOK(call'[c], pair')
      /\ call[c].pc = "idle" => call'[c] = Idle
      /\ call[c].pc # "idle" => call'[c].pc = call[c].pc /\ call'[c].using = call[c].using /\ call'[c].got = a
  <2>1. PICK k : k = call[c]
    OBVIOUS
  <2>2. PICK P : P = pair'
    OBVIOUS
  <2>3. call'[c] = Answer(k, a)
    BY <2>1 DEF TypeOK
  <2>4. CallOK(k, P)
    BY <2>1, <2>2, <1>3, CallGrows DEF Tokens, CallsOK
  <2>5. (a = NoPair \/ IssuedIn(P, a)) /\ k.srv # "none" /\ ~k.dead
    BY <2>1, <2>2, <1>2
  <2>6. PICK m : m = Answer(k, a)
    OBVIOUS
  <2>7. /\ CallOK(m, P) /\ (k.pc = "idle" => m = Idle)
        /\ k.pc # "idle" => m.pc = k.pc /\ m.using = k.using /\ m.got = a
    BY <2>4, <2>5, <2>6, AnswerFields
  <2>8. QED
    BY <2>1, <2>2, <2>3, <2>6, <2>7
<1>6. CallsOK'
  BY <1>3, <1>4, <1>5, CallGrows DEF Tokens, CallsOK
<1>7. StoredIssued'
  BY <1>3, IssuedGrows DEF Tokens, StoredIssued
<1>8. ParentsOK'
  <2> SUFFICES ASSUME NEW r \in Pairs, pair'[r].parent # NoPair
               PROVE  /\ IssuedIn(pair', pair'[r].parent) /\ pair'[pair'[r].parent].revoked
                      /\ pair'[pair'[r].parent].owner = pair'[r].owner
    BY DEF ParentsOK
  <2>1. CASE r = q
    BY <2>1, <1>1, <1>3, IssuedGrows
  <2>2. CASE r # q
    BY <2>2, <1>1, <1>3, IssuedGrows DEF Tokens, ParentsOK
  <2>3. QED
    BY <2>1, <2>2
<1>9. /\ \A b \in Browsers : stored'[b] = stored[b] /\ stored[b] # q
      /\ \A d \in Calls : call[d].using # q /\ call[d].got # q
      /\ \A d \in Calls : call'[d].using \in {NoPair, call[d].using}
      /\ \A d \in Calls : d # c => call'[d].got = call[d].got
      /\ call'[c].got \in {NoPair, q} /\ q # NoPair
  BY <1>2, <1>4, <1>5, UsedIssued, IdleFields, NoPairNoId DEF Tokens, StoredIssued
<1>10. GotFresh'
  <2> SUFFICES ASSUME NEW d \in Calls, call'[d].got # NoPair
               PROVE  /\ ~pair'[call'[d].got].revoked
                      /\ \A b \in Browsers : stored'[b] # call'[d].got
                      /\ \A e \in Calls : call'[e].using # call'[d].got /\ (e # d => call'[e].got # call'[d].got)
    BY DEF GotFresh
  <2>1. CASE d = c
    BY <2>1, <1>1, <1>9
  <2>2. CASE d # c
    <3>1. call'[d].got = call[d].got /\ call[d].got \in Pairs /\ call[d].got # q
      BY <2>2, <1>9, UsedIssued DEF IssuedIn
    <3>2. QED
      BY <3>1, <1>1, <1>9 DEF Tokens, GotFresh
  <2>3. QED
    BY <2>1, <2>2
<1>11. OneHome'
  BY <1>9 DEF Tokens, OneHome
<1>12. OrphansOK'
  BY <1>4, <1>5, IdleFields DEF Tokens, OrphansOK
<1>13. StoredTokenUsable'
  <2> SUFFICES ASSUME NEW b \in Browsers, stored[b] # NoPair, b \notin lost, pair'[stored[b]].revoked
               PROVE  \E d \in Calls : HomeOf(d) = b /\ call'[d].pc # "idle" /\ call'[d].using = stored[b]
    BY DEF StoredTokenUsable, HomeOf
  <2>1. pair[stored[b]].revoked
    BY <1>1, <1>9 DEF Tokens, StoredIssued, IssuedIn
  <2>2. PICK d \in Calls : HomeOf(d) = b /\ call[d].pc # "idle" /\ call[d].using = stored[b]
    BY <2>1 DEF Tokens, StoredTokenUsable, HomeOf
  <2>3. QED
    BY <2>2, <1>4, <1>5
<1>14. call'[c].pc = call[c].pc
  BY <1>5, IdleFields
<1>15. QED
  BY <1>1, <1>6, <1>7, <1>8, <1>10, <1>11, <1>12, <1>13, <1>14 DEF Tokens

\* The token that a request carries is revoked.
LEMMA RevokePair ==
    ASSUME TypeOK, NEW p \in Pairs, pair' = [pair EXCEPT ![p].revoked = TRUE]
    PROVE  /\ pair' \in [Pairs -> Pair] /\ pair'[p].revoked /\ Grows(pair, pair')
           /\ \A r \in Pairs : pair'[r].owner = pair[r].owner /\ pair'[r].parent = pair[r].parent
           /\ \A r \in Pairs : r # p => pair'[r] = pair[r]
<1>1. PICK n : n = [pair[p] EXCEPT !.revoked = TRUE]
  OBVIOUS
<1>2. /\ n \in Pair /\ n.revoked = TRUE /\ n.owner = pair[p].owner /\ n.parent = pair[p].parent
      /\ n.expired = pair[p].expired
  BY <1>1 DEF TypeOK, Pair
<1>3. pair' = [pair EXCEPT ![p] = n]
  BY <1>1
<1>4. pair' \in [Pairs -> Pair] /\ pair'[p] = n /\ \A r \in Pairs : r # p => pair'[r] = pair[r]
  BY <1>2, <1>3 DEF TypeOK
<1>5. Grows(pair, pair')
  BY <1>2, <1>4 DEF Grows
<1>6. QED
  BY <1>2, <1>4, <1>5

LEMMA RevokeTokens ==
    ASSUME TypeOK, Tokens, UNCHANGED <<stored, lost>>, NEW c \in Calls,
           pair' = [pair EXCEPT ![call[c].using].revoked = TRUE], IssuedIn(pair, call[c].using),
           call[c].kind # "login", call[c].srv # "none",
           CallOK(call'[c], pair'), call'[c].got = NoPair, call'[c].using \in {NoPair, call[c].using},
           call[c].pc # "idle" => call'[c].pc # "idle" /\ call'[c].using = call[c].using,
           call'[c].pc = "idle" /\ call'[c].srv # "none" =>
               call[c].pc = "idle" /\ call'[c].kind = call[c].kind /\ call'[c].using = call[c].using,
           \A d \in Calls : d # c => call'[d] = call[d]
    PROVE  Tokens'
<1>0. PICK p : p = call[c].using
  OBVIOUS
<1>1. /\ p \in Pairs /\ pair'[p].revoked /\ Grows(pair, pair')
      /\ \A r \in Pairs : pair'[r].owner = pair[r].owner /\ pair'[r].parent = pair[r].parent
      /\ \A r \in Pairs : r # p => pair'[r] = pair[r]
  BY <1>0, RevokePair DEF IssuedIn
<1>2. CallsOK'
  BY <1>1, CallGrows DEF Tokens, CallsOK
<1>3. StoredIssued'
  BY <1>1, IssuedGrows DEF Tokens, StoredIssued
<1>4. ParentsOK'
  <2> SUFFICES ASSUME NEW r \in Pairs, pair'[r].parent # NoPair
               PROVE  /\ IssuedIn(pair', pair'[r].parent) /\ pair'[pair'[r].parent].revoked
                      /\ pair'[pair'[r].parent].owner = pair'[r].owner
    BY DEF ParentsOK
  <2>1. PICK o : o = pair[r].parent
    OBVIOUS
  <2>2. pair'[r].parent = o /\ IssuedIn(pair, o) /\ pair[o].revoked /\ pair[o].owner = pair[r].owner
    BY <1>1, <2>1 DEF Tokens, ParentsOK
  <2>3. IssuedIn(pair', o) /\ pair'[o].revoked /\ pair'[o].owner = pair[o].owner
    BY <1>1, <2>2, IssuedGrows
  <2>4. pair'[r].owner = pair[r].owner
    BY <1>1
  <2>5. QED
    BY <2>2, <2>3, <2>4
<1>5. GotFresh'
  <2> SUFFICES ASSUME NEW d \in Calls, call'[d].got # NoPair
               PROVE  /\ ~pair'[call'[d].got].revoked
                      /\ \A b \in Browsers : stored[b] # call'[d].got
                      /\ \A e \in Calls : call'[e].using # call'[d].got /\ (e # d => call'[e].got # call'[d].got)
    BY DEF GotFresh
  <2>1. d # c /\ call'[d] = call[d]
    OBVIOUS
  <2>2. call[d].got # p /\ call[d].got \in Pairs
    BY <2>1, <1>0, UsedIssued DEF Tokens, GotFresh, IssuedIn
  <2>3. QED
    BY <2>1, <2>2, <1>1 DEF Tokens, GotFresh
<1>6. OneHome'
  BY DEF Tokens, OneHome
<1>7. OrphansOK'
  BY DEF Tokens, OrphansOK
<1>8. StoredTokenUsable'
  <2> SUFFICES ASSUME NEW b \in Browsers, stored[b] # NoPair, b \notin lost, pair'[stored[b]].revoked
               PROVE  \E d \in Calls : HomeOf(d) = b /\ call'[d].pc # "idle" /\ call'[d].using = stored[b]
    BY DEF StoredTokenUsable, HomeOf
  <2>1. CASE stored[b] = p
    <3>1. HomeOf(c) = b
      BY <2>1, <1>0 DEF Tokens, OneHome
    <3>2. call[c].pc # "idle"
      BY <2>1, <3>1, <1>0 DEF Tokens, OrphansOK
    <3>3. QED
      BY <2>1, <3>1, <3>2, <1>0
  <2>2. CASE stored[b] # p
    <3>1. pair[stored[b]].revoked
      BY <2>2, <1>1 DEF Tokens, StoredIssued, IssuedIn
    <3>2. PICK d \in Calls : HomeOf(d) = b /\ call[d].pc # "idle" /\ call[d].using = stored[b]
      BY <3>1 DEF Tokens, StoredTokenUsable, HomeOf
    <3>3. d # c
      BY <3>2, <2>2, <1>0
    <3>4. QED
      BY <3>2, <3>3
  <2>3. QED
    BY <2>1, <2>2
<1>9. QED
  BY <1>2, <1>3, <1>4, <1>5, <1>6, <1>7, <1>8 DEF Tokens

\* Time passes for p: owner, parent and revoked stay.
LEMMA ExpireTokens ==
    ASSUME TypeOK, Tokens, UNCHANGED <<stored, call, lost>>, NEW p \in Pairs, NEW n \in Pair,
           n.owner = pair[p].owner, n.parent = pair[p].parent, n.revoked = pair[p].revoked,
           pair[p].expired => n.expired, pair' = [pair EXCEPT ![p] = n]
    PROVE  Tokens' /\ pair' \in [Pairs -> Pair]
<1>1. /\ pair' \in [Pairs -> Pair] /\ Grows(pair, pair')
      /\ \A r \in Pairs : /\ pair'[r].owner = pair[r].owner /\ pair'[r].parent = pair[r].parent
                          /\ pair'[r].revoked = pair[r].revoked
  BY DEF TypeOK, Grows
<1>2. CallsOK'
  BY <1>1, CallGrows DEF Tokens, CallsOK
<1>3. StoredIssued' /\ ParentsOK'
  BY <1>1 DEF Tokens, StoredIssued, ParentsOK, IssuedIn
<1>4. GotFresh'
  <2>1. \A d \in Calls : call[d].got # NoPair => pair'[call[d].got].revoked = pair[call[d].got].revoked
    BY <1>1, UsedIssued DEF IssuedIn
  <2>2. QED
    BY <2>1 DEF Tokens, GotFresh
<1>5. OneHome' /\ OrphansOK'
  BY DEF Tokens, OneHome, OrphansOK
<1>6. StoredTokenUsable'
  BY <1>1 DEF Tokens, StoredTokenUsable, StoredIssued, IssuedIn
<1>7. QED
  BY <1>1, <1>2, <1>3, <1>4, <1>5, <1>6 DEF Tokens

--------------------------------------------------------------------------------
(* The tab sends.                                                               *)

LEMMA FaultType == ASSUME TypeOK PROVE Fault => faults' \in 0..MaxFaults
BY BoundsAssumption DEF Fault, TypeOK

LEMMA StorageType == ASSUME TypeOK PROVE \A c \in Calls : Storage(c) \in Stored
BY HomeType DEF TypeOK, Storage, HomeOf

\* A change of one call that is quiet.
LEMMA OneQuiet ==
    ASSUME TypeOK, Tokens, UNCHANGED <<pair, stored>>, lost \subseteq lost', NEW c \in Calls, NEW m,
           call' = [call EXCEPT ![c] = m], Quiet(c)
    PROVE  Tokens' /\ call' \in [Calls -> Call] /\ call'[c] = m /\ \A d \in Calls : d # c => call'[d] = call[d]
<1>1. call'[c] = m /\ \A d \in Calls : d # c => call'[d] = call[d]
  BY DEF TypeOK
<1>2. \A d \in Calls : Quiet(d)
  BY <1>1, SameQuiet
<1>3. Tokens'
  BY <1>2, QuietStep
<1>4. m \in Call
  BY <1>1 DEF Quiet, CallOK
<1>5. QED
  BY <1>1, <1>3, <1>4 DEF TypeOK

LEMMA Started ==
    ASSUME IInv, NEW c \in Calls, NEW m, call[c] = Idle, call' = [call EXCEPT ![c] = m],
           CallOK(m, pair), m.pc = "sent", m.got = NoPair, m.using \in {NoPair, Storage(c)},
           UNCHANGED <<pair, stored, shown, gate, lost, faults>>
    PROVE  IInv'
<1>1. call'[c] = m
  BY DEF IInv, TypeOK
<1>2. Quiet(c)
  BY <1>1, IdleFields DEF Quiet
<1>3. Tokens' /\ call' \in [Calls -> Call] /\ \A d \in Calls : d # c => call'[d] = call[d]
  BY <1>2, OneQuiet DEF IInv
<1>4. OneRefreshPerTab'
  BY <1>1, <1>3, IdleFields, GateKept DEF IInv
<1>5. TypeOK'
  BY <1>3 DEF IInv, TypeOK
<1>6. QED
  BY <1>3, <1>4, <1>5 DEF IInv

LEMMA OnlyShown ==
    ASSUME IInv, NEW t \in Tabs, NEW u \in Owner, shown' = [shown EXCEPT ![t] = u],
           UNCHANGED <<pair, stored, gate, call, lost, faults>>
    PROVE  IInv'
<1>1. \A d \in Calls : Quiet(d)
  BY SameQuiet DEF IInv
<1>2. Tokens'
  BY <1>1, QuietStep DEF IInv
<1>3. OneRefreshPerTab'
  BY GateKept DEF IInv
<1>4. TypeOK'
  BY DEF IInv, TypeOK
<1>5. QED
  BY <1>2, <1>3, <1>4 DEF IInv

LEMMA StartUseInv == ASSUME IInv, NEW c \in Calls, StartUse(c) PROVE IInv'
<1>1. PICK m : m = [Idle EXCEPT !.pc = "sent", !.bearer = Storage(c)]
  OBVIOUS
<1>2. /\ m \in Call /\ m.kind = "use" /\ m.pc = "sent" /\ m.srv = "none" /\ m.using = NoPair
      /\ m.got = NoPair /\ m.dead = FALSE
  BY <1>1, StorageType, NoPairNoId DEF IInv, Idle, Call, Owner
<1>3. CallOK(m, pair)
  BY <1>2 DEF CallOK
<1>4. QED
  BY <1>1, <1>2, <1>3, Started DEF StartUse

LEMMA LoadMeInv == ASSUME IInv, NEW c \in Calls, LoadMe(c) PROVE IInv'
<1>1. CASE Storage(c) = NoPair
  BY <1>1, HomeType, OnlyShown DEF LoadMe, Owner
<1>2. CASE Storage(c) # NoPair
  <2>1. PICK m : m = [Idle EXCEPT !.kind = "me", !.pc = "sent", !.bearer = Storage(c)]
    OBVIOUS
  <2>2. /\ m \in Call /\ m.kind = "me" /\ m.pc = "sent" /\ m.srv = "none" /\ m.using = NoPair
        /\ m.got = NoPair /\ m.dead = FALSE
    BY <2>1, StorageType, NoPairNoId DEF IInv, Idle, Call, Owner
  <2>3. CallOK(m, pair)
    BY <2>2 DEF CallOK
  <2>4. QED
    BY <1>2, <2>1, <2>2, <2>3, Started DEF LoadMe
<1>3. QED
  BY <1>1, <1>2

LEMMA StartLoginInv == ASSUME IInv, NEW c \in Calls, NEW u \in Accounts, StartLogin(c, u) PROVE IInv'
<1>1. PICK m : m = [Idle EXCEPT !.kind = "login", !.pc = "sent", !.srv = "asked", !.who = u]
  OBVIOUS
<1>2. /\ m \in Call /\ m.kind = "login" /\ m.pc = "sent" /\ m.srv = "asked" /\ m.using = NoPair
      /\ m.got = NoPair /\ m.dead = FALSE /\ m.who = u
  BY <1>1, NoPairNoId DEF Idle, Call, Owner
<1>3. CallOK(m, pair)
  BY <1>2 DEF CallOK
<1>4. QED
  BY <1>1, <1>2, <1>3, Started DEF StartLogin

LEMMA StartLogoutInv == ASSUME IInv, NEW c \in Calls, StartLogout(c) PROVE IInv'
<1>1. CASE Storage(c) = NoPair
  BY <1>1, HomeType, OnlyShown DEF StartLogout, Owner
<1>2. CASE Storage(c) # NoPair
  <2>1. PICK m : m = [Idle EXCEPT !.kind = "logout", !.pc = "sent", !.srv = "asked", !.using = Storage(c)]
    OBVIOUS
  <2>2. /\ m \in Call /\ m.kind = "logout" /\ m.pc = "sent" /\ m.srv = "asked" /\ m.using = Storage(c)
        /\ m.got = NoPair /\ m.dead = FALSE
    BY <2>1, StorageType, NoPairNoId DEF IInv, Idle, Call, Owner
  <2>3. IssuedIn(pair, Storage(c))
    BY <1>2, HomeType DEF IInv, Tokens, StoredIssued, Storage, HomeOf
  <2>4. CallOK(m, pair)
    BY <2>2, <2>3 DEF CallOK
  <2>5. QED
    BY <1>2, <2>1, <2>2, <2>4, Started DEF StartLogout
<1>3. QED
  BY <1>1, <1>2

--------------------------------------------------------------------------------
(* The server works.                                                            *)

LEMMA Answered ==
    ASSUME IInv, NEW c \in Calls, call[c].srv # "none", call' = [call EXCEPT ![c] = Answer(@, NoPair)],
           UNCHANGED <<pair, stored, shown, gate, lost>>, faults' \in 0..MaxFaults
    PROVE  IInv'
<1>1. PICK m : m = Answer(call[c], NoPair)
  OBVIOUS
<1>2. call' = [call EXCEPT ![c] = m] /\ call'[c] = Answer(call[c], NoPair)
  BY <1>1 DEF IInv, TypeOK
<1>3. Quiet(c) /\ call'[c].pc = call[c].pc
  BY <1>2, AnswerQuiet DEF IInv
<1>4. Tokens' /\ call' \in [Calls -> Call] /\ \A d \in Calls : d # c => call'[d] = call[d]
  BY <1>2, <1>3, OneQuiet DEF IInv
<1>5. OneRefreshPerTab'
  BY <1>3, <1>4, GateKept DEF IInv
<1>6. TypeOK'
  BY <1>4 DEF IInv, TypeOK
<1>7. QED
  BY <1>4, <1>5, <1>6 DEF IInv

LEMMA HandleLoginInv == ASSUME IInv, NEW c \in Calls, HandleLogin(c) PROVE IInv'
<1>0. CallOK(call[c], pair) /\ call[c].kind = "login" /\ call[c].srv = "asked"
  BY DEF IInv, Tokens, CallsOK, HandleLogin
<1>1. CASE \E q \in Pairs : Issue(q, call[c].who, NoPair) /\ call' = [call EXCEPT ![c] = Answer(@, q)]
  <2>1. PICK q \in Pairs : Issue(q, call[c].who, NoPair) /\ call' = [call EXCEPT ![c] = Answer(@, q)]
    BY <1>1
  <2>2. call[c].who \in Accounts /\ ~call[c].dead
    BY <1>0 DEF CallOK
  <2>3. UNCHANGED <<stored, shown, gate, lost, faults>>
    BY DEF HandleLogin
  <2>4. PICK u \in Accounts : u = call[c].who
    BY <2>2
  <2>5. Tokens' /\ pair' \in [Pairs -> Pair] /\ call'[c].pc = call[c].pc
    BY <1>0, <2>1, <2>2, <2>3, <2>4, IssueTokens DEF IInv
  <2>6. /\ \A d \in Calls : d # c => call'[d] = call[d]
        /\ call' \in [Calls -> Call]
    BY <2>1, <2>5 DEF IInv, TypeOK, Tokens, CallsOK, CallOK
  <2>7. OneRefreshPerTab'
    BY <2>3, <2>5, <2>6, GateKept DEF IInv
  <2>8. TypeOK'
    BY <2>3, <2>5, <2>6 DEF IInv, TypeOK
  <2>9. QED
    BY <2>5, <2>7, <2>8 DEF IInv
<1>2. CASE call' = [call EXCEPT ![c] = Answer(@, NoPair)] /\ UNCHANGED pair
  BY <1>0, <1>2, Answered DEF HandleLogin, IInv, TypeOK
<1>3. QED
  BY <1>1, <1>2 DEF HandleLogin

LEMMA HandleLogoutInv == ASSUME IInv, NEW c \in Calls, HandleLogout(c) PROVE IInv'
<1>1. PICK k : k = call[c]
  OBVIOUS
<1>2. CallOK(k, pair) /\ k.kind = "logout" /\ k.srv = "asked" /\ IssuedIn(pair, k.using)
  BY <1>1 DEF IInv, Tokens, CallsOK, HandleLogout, CallOK
<1>3. /\ pair' \in [Pairs -> Pair] /\ Grows(pair, pair')
  BY <1>1, <1>2, RevokePair DEF HandleLogout, IInv, IssuedIn
<1>4. PICK P : P = pair'
  OBVIOUS
<1>5. PICK m : m = Answer(k, NoPair)
  OBVIOUS
<1>6. CallOK(k, P)
  BY <1>2, <1>3, <1>4, CallGrows
<1>7. /\ CallOK(m, P) /\ (k.pc = "idle" => m = Idle)
      /\ k.pc # "idle" => m.pc = k.pc /\ m.using = k.using /\ m.got = NoPair
  BY <1>2, <1>5, <1>6, AnswerFields
<1>8. /\ call'[c] = m /\ call' = [call EXCEPT ![c] = m]
      /\ \A d \in Calls : d # c => call'[d] = call[d]
  BY <1>1, <1>5 DEF HandleLogout, IInv, TypeOK
<1>9. m.pc = k.pc /\ m.got = NoPair /\ m.using \in {NoPair, k.using} /\ (k.pc = "idle" => m.srv = "none")
  BY <1>7, IdleFields
<1>10. Tokens'
  <2>1. UNCHANGED <<stored, lost>> /\ pair' = [pair EXCEPT ![call[c].using].revoked = TRUE]
    BY DEF HandleLogout
  <2>2. CallOK(call'[c], pair')
    BY <1>4, <1>7, <1>8
  <2>3. /\ call'[c].got = NoPair /\ call'[c].using \in {NoPair, call[c].using}
        /\ call[c].pc # "idle" => call'[c].pc # "idle" /\ call'[c].using = call[c].using
        /\ ~(call'[c].pc = "idle" /\ call'[c].srv # "none")
    BY <1>1, <1>7, <1>8, <1>9
  <2>4. call[c].kind # "login" /\ call[c].srv # "none" /\ IssuedIn(pair, call[c].using)
    BY <1>1, <1>2
  <2>5. TypeOK /\ Tokens
    BY DEF IInv
  <2>6. QED
    BY <1>8, <2>1, <2>2, <2>3, <2>4, <2>5, RevokeTokens
<1>11. OneRefreshPerTab'
  BY <1>1, <1>8, <1>9, GateKept DEF HandleLogout, IInv
<1>12. TypeOK'
  BY <1>3, <1>7, <1>8 DEF HandleLogout, IInv, TypeOK, CallOK
<1>13. QED
  BY <1>10, <1>11, <1>12 DEF IInv

LEMMA FindTokenInv == ASSUME IInv, NEW c \in Calls, FindToken(c) PROVE IInv'
<1>1. PICK k : k = call[c]
  OBVIOUS
<1>2. CallOK(k, pair) /\ k.kind \in {"use", "me"} /\ k.srv = "asked"
  BY <1>1 DEF IInv, Tokens, CallsOK, FindToken, Refreshing
<1>3. CASE ~Refreshable(k.using)
  <2>1. call' = [call EXCEPT ![c] = Answer(@, NoPair)]
    BY <1>1, <1>3 DEF FindToken, IInv, TypeOK
  <2>2. QED
    BY <1>1, <1>2, <2>1, Answered DEF FindToken, IInv, TypeOK
<1>4. CASE Refreshable(k.using)
  <2>1. PICK m : m = [k EXCEPT !.srv = "checked"]
    OBVIOUS
  <2>2. k \in Call /\ ~k.dead /\ k.got = NoPair
    BY <1>2, <1>4 DEF CallOK, Refreshable, RefreshableIn, Issued, IssuedIn
  <2>3. /\ m \in Call /\ m.pc = k.pc /\ m.kind = k.kind /\ m.srv = "checked" /\ m.using = k.using
        /\ m.got = NoPair /\ m.dead = k.dead
    BY <2>1, <2>2 DEF Call
  <2>4. CallOK(m, pair)
    BY <1>2, <2>2, <2>3 DEF CallOK
  <2>5. call' = [call EXCEPT ![c] = m] /\ call'[c] = m
    BY <1>1, <1>4, <2>1 DEF FindToken, IInv, TypeOK
  <2>6. UNCHANGED <<pair, stored, shown, gate, lost, faults>>
    BY DEF FindToken
  <2>7. k.pc = "idle" => HomeOf(c) \in lost
    BY <1>1, <1>2 DEF IInv, Tokens, OrphansOK
  <2>8. Quiet(c)
    BY <1>1, <2>3, <2>4, <2>5, <2>6, <2>7 DEF Quiet
  <2>9. Tokens' /\ call' \in [Calls -> Call] /\ \A d \in Calls : d # c => call'[d] = call[d]
    BY <2>5, <2>6, <2>8, OneQuiet DEF IInv
  <2>10. OneRefreshPerTab'
    BY <1>1, <2>3, <2>5, <2>6, <2>9, GateKept DEF IInv
  <2>11. TypeOK'
    BY <2>6, <2>9 DEF IInv, TypeOK
  <2>12. QED
    BY <2>9, <2>10, <2>11 DEF IInv
<1>5. QED
  BY <1>3, <1>4

LEMMA RevokeOldInv == ASSUME IInv, NEW c \in Calls, RevokeOld(c) PROVE IInv'
<1>1. PICK k : k = call[c]
  OBVIOUS
<1>2. CallOK(k, pair) /\ k.kind \in {"use", "me"} /\ k.srv = "checked" /\ IssuedIn(pair, k.using)
  BY <1>1 DEF IInv, Tokens, CallsOK, RevokeOld, Refreshing, CallOK
<1>3. pair' \in [Pairs -> Pair] /\ Grows(pair, pair') /\ pair'[k.using].revoked
  BY <1>1, <1>2, RevokePair DEF RevokeOld, IInv, IssuedIn
<1>4. PICK P : P = pair'
  OBVIOUS
<1>5. PICK m : m = [k EXCEPT !.srv = "rotated"]
  OBVIOUS
<1>6. CallOK(k, P)
  BY <1>2, <1>3, <1>4, CallGrows
<1>7. k \in Call /\ ~k.dead /\ k.got = NoPair /\ P[k.using].revoked
  BY <1>2, <1>3, <1>4 DEF CallOK
<1>8. /\ m \in Call /\ m.pc = k.pc /\ m.kind = k.kind /\ m.srv = "rotated" /\ m.using = k.using
      /\ m.got = NoPair /\ m.dead = k.dead
  BY <1>5, <1>7 DEF Call
<1>9. CallOK(m, P)
  BY <1>2, <1>6, <1>7, <1>8 DEF CallOK
<1>10. /\ call'[c] = m /\ call' = [call EXCEPT ![c] = m]
       /\ \A d \in Calls : d # c => call'[d] = call[d]
  BY <1>1, <1>5 DEF RevokeOld, IInv, TypeOK
<1>11. Tokens'
  <2>1. UNCHANGED <<stored, lost>> /\ pair' = [pair EXCEPT ![call[c].using].revoked = TRUE]
    BY DEF RevokeOld
  <2>2. CallOK(call'[c], pair')
    BY <1>4, <1>9, <1>10
  <2>3. /\ call'[c].got = NoPair /\ call'[c].using = call[c].using /\ call'[c].pc = call[c].pc
        /\ call'[c].kind = call[c].kind
    BY <1>1, <1>8, <1>10
  <2>4. call[c].kind # "login" /\ call[c].srv # "none" /\ IssuedIn(pair, call[c].using)
    BY <1>1, <1>2
  <2>5. TypeOK /\ Tokens
    BY DEF IInv
  <2>6. QED
    BY <1>10, <2>1, <2>2, <2>3, <2>4, <2>5, RevokeTokens
<1>12. OneRefreshPerTab'
  BY <1>1, <1>8, <1>10, GateKept DEF RevokeOld, IInv
<1>13. TypeOK'
  BY <1>3, <1>8, <1>10 DEF RevokeOld, IInv, TypeOK
<1>14. QED
  BY <1>11, <1>12, <1>13 DEF IInv

LEMMA IssueNewInv == ASSUME IInv, NEW c \in Calls, IssueNew(c) PROVE IInv'
<1>1. PICK k : k = call[c]
  OBVIOUS
<1>2. CallOK(k, pair) /\ k.kind \in {"use", "me"} /\ k.srv = "rotated"
  BY <1>1 DEF IInv, Tokens, CallsOK, IssueNew, Refreshing
<1>3. IssuedIn(pair, k.using) /\ pair[k.using].revoked /\ ~k.dead
  BY <1>2 DEF CallOK
<1>4. PICK q \in Pairs : /\ Issue(q, pair[k.using].owner, k.using)
                         /\ \E a \in {q, NoPair} : call' = [call EXCEPT ![c] = Answer(@, a)]
  BY <1>1 DEF IssueNew
<1>4a. PICK a \in {q, NoPair} : call' = [call EXCEPT ![c] = Answer(@, a)]
  BY <1>4
<1>5. PICK u : u = pair[k.using].owner
  OBVIOUS
<1>6. u \in Accounts
  BY <1>3, <1>5 DEF IInv, TypeOK, Pair, Owner, IssuedIn
<1>7. UNCHANGED <<stored, shown, gate, lost>> /\ faults' \in 0..MaxFaults
  BY FaultType DEF IssueNew, IInv, TypeOK
<1>8. Tokens' /\ pair' \in [Pairs -> Pair] /\ call'[c].pc = call[c].pc
  <2>1. call[c].srv # "none" /\ ~call[c].dead
    BY <1>1, <1>2, <1>3
  <2>2. Issue(q, u, k.using)
    BY <1>4, <1>5
  <2>3. QED
    BY <1>3, <1>5, <1>6, <1>7, <1>4a, <2>1, <2>2, IssueTokens DEF IInv
<1>9. /\ \A d \in Calls : d # c => call'[d] = call[d]
      /\ call' \in [Calls -> Call]
  BY <1>8, <1>4a DEF IInv, TypeOK, Tokens, CallsOK, CallOK
<1>10. OneRefreshPerTab'
  BY <1>7, <1>8, <1>9, GateKept DEF IInv
<1>11. TypeOK'
  BY <1>7, <1>8, <1>9 DEF IInv, TypeOK
<1>12. QED
  BY <1>8, <1>10, <1>11 DEF IInv

LEMMA ServerFailsInv == ASSUME IInv, NEW c \in Calls, ServerFails(c) PROVE IInv'
<1>1. faults' \in 0..MaxFaults
  BY FaultType DEF ServerFails, IInv, TypeOK
<1>2. QED
  BY <1>1, Answered DEF ServerFails

LEMMA AccessExpiresInv == ASSUME IInv, NEW p \in Pairs, AccessExpires(p) PROVE IInv'
<1>1. PICK n : n = [pair[p] EXCEPT !.stale = TRUE]
  OBVIOUS
<1>2. /\ n \in Pair /\ n.owner = pair[p].owner /\ n.parent = pair[p].parent
      /\ n.revoked = pair[p].revoked /\ n.expired = pair[p].expired
  BY <1>1 DEF IInv, TypeOK, Pair
<1>3. pair' = [pair EXCEPT ![p] = n] /\ UNCHANGED <<stored, shown, gate, call, lost, faults>>
  BY <1>1 DEF AccessExpires
<1>4. Tokens' /\ pair' \in [Pairs -> Pair]
  BY <1>2, <1>3, ExpireTokens DEF IInv
<1>5. OneRefreshPerTab' /\ TypeOK'
  BY <1>3, <1>4, GateKept DEF IInv, TypeOK
<1>6. QED
  BY <1>4, <1>5 DEF IInv

LEMMA RefreshExpiresInv == ASSUME IInv, NEW p \in Pairs, RefreshExpires(p) PROVE IInv'
<1>1. PICK n : n = [pair[p] EXCEPT !.expired = TRUE]
  OBVIOUS
<1>2. /\ n \in Pair /\ n.owner = pair[p].owner /\ n.parent = pair[p].parent
      /\ n.revoked = pair[p].revoked /\ n.expired = TRUE
  BY <1>1 DEF IInv, TypeOK, Pair
<1>3. pair' = [pair EXCEPT ![p] = n] /\ UNCHANGED <<stored, shown, gate, call, lost, faults>>
  BY <1>1 DEF RefreshExpires
<1>4. Tokens' /\ pair' \in [Pairs -> Pair]
  BY <1>2, <1>3, ExpireTokens DEF IInv
<1>5. OneRefreshPerTab' /\ TypeOK'
  BY <1>3, <1>4, GateKept DEF IInv, TypeOK
<1>6. QED
  BY <1>4, <1>5 DEF IInv

--------------------------------------------------------------------------------
(* The tab receives, or gives up.                                               *)

\* Calls that end without an answer that changes the storage.
LEMMA Failed ==
    ASSUME IInv, NEW F, UNCHANGED <<pair, stored>>, lost \subseteq lost',
           call' = [d \in Calls |-> IF d \in F THEN LetGo(call[d]) ELSE call[d]],
           \A d \in Calls : d \in F /\ call[d].pc # "idle" /\ call[d].using # NoPair => HomeOf(d) \in lost'
    PROVE  /\ Tokens' /\ call' \in [Calls -> Call]
           /\ \A d \in Calls : IF d \in F THEN call'[d].pc = "idle" ELSE call'[d] = call[d]
<1>1. \A d \in Calls : Quiet(d)
  <2> SUFFICES ASSUME NEW d \in Calls PROVE Quiet(d)
    OBVIOUS
  <2>1. CASE d \in F
    BY <2>1, LetGoQuiet DEF IInv
  <2>2. CASE d \notin F
    BY <2>2, SameQuiet DEF IInv
  <2>3. QED
    BY <2>1, <2>2
<1>2. Tokens'
  BY <1>1, QuietStep DEF IInv
<1>3. call' \in [Calls -> Call]
  BY <1>1 DEF Quiet, CallOK
<1>4. \A d \in F \cap Calls : call'[d].pc = "idle"
  <2> SUFFICES ASSUME NEW d \in F \cap Calls PROVE call'[d].pc = "idle"
    OBVIOUS
  <2>1. CallOK(call[d], pair)
    BY DEF IInv, Tokens, CallsOK
  <2>2. LetGo(call[d]).pc = "idle"
    BY <2>1, LetGoFields
  <2>3. QED
    BY <2>2
<1>5. QED
  BY <1>2, <1>3, <1>4

LEMMA FailType ==
    ASSUME TypeOK, NEW F, NEW t \in Tabs, shown' = ShownAfterFailure(t, F)
    PROVE  shown' \in [Tabs -> Owner]
BY DEF TypeOK, ShownAfterFailure, Owner

LEMMA ReceiveDataInv == ASSUME IInv, NEW c \in Calls, ReceiveData(c) PROVE IInv'
<1>1. call[c].kind \in {"use", "me"} /\ call[c].pc \in {"sent", "resent"} /\ call[c].srv = "none" /\ call[c].using = NoPair
  BY DEF IInv, Tokens, CallsOK, CallOK, ReceiveData
<1>2. UNCHANGED <<pair, stored, gate, lost, faults>>
  BY DEF ReceiveData
<1>3. call' = [d \in Calls |-> IF d \in {c} THEN LetGo(call[d]) ELSE call[d]]
  BY <1>1 DEF ReceiveData, LetGo, IInv, TypeOK
<1>4. /\ Tokens' /\ call' \in [Calls -> Call]
      /\ \A d \in Calls : IF d \in {c} THEN call'[d].pc = "idle" ELSE call'[d] = call[d]
  BY <1>1, <1>2, <1>3, Failed
<1>5. OneRefreshPerTab'
  BY <1>1, <1>2, <1>4, GateKept DEF IInv
<1>6. shown' \in [Tabs -> Owner]
  <2>1. pair[call[c].bearer].owner \in Owner
    BY DEF ReceiveData, AccessValid, Issued, IInv, TypeOK, Pair
  <2>2. QED
    BY <2>1, HomeType DEF ReceiveData, IInv, TypeOK
<1>7. TypeOK'
  BY <1>2, <1>4, <1>6 DEF IInv, TypeOK
<1>8. QED
  BY <1>4, <1>5, <1>7 DEF IInv

LEMMA Receive401Inv == ASSUME IInv, NEW c \in Calls, Receive401(c) PROVE IInv'
<1>1. PICK k : k = call[c]
  OBVIOUS
<1>2. PICK t : t = TabOf[c]
  OBVIOUS
<1>3. /\ CallOK(k, pair) /\ k.kind \in {"use", "me"} /\ k.pc = "sent" /\ t \in Tabs
      /\ UNCHANGED <<pair, stored, lost, faults>>
  BY <1>1, <1>2, HomeType DEF IInv, Tokens, CallsOK, Receive401
<1>4. k \in Call /\ k.srv = "none" /\ k.using = NoPair /\ k.got = NoPair
  BY <1>3 DEF CallOK
<1>5. CASE gate[t] = "busy" /\ call' = [call EXCEPT ![c].pc = "waiting"] /\ UNCHANGED <<gate, shown>>
  <2>1. PICK m : m = [k EXCEPT !.pc = "waiting"]
    OBVIOUS
  <2>2. /\ m \in Call /\ m.pc = "waiting" /\ m.kind = k.kind /\ m.srv = k.srv /\ m.using = k.using
        /\ m.got = k.got /\ m.dead = k.dead
    BY <1>4, <2>1 DEF Call
  <2>3. CallOK(m, pair)
    BY <1>3, <1>4, <2>2 DEF CallOK
  <2>4. call' = [call EXCEPT ![c] = m] /\ call'[c] = m
    BY <1>1, <1>5, <2>1 DEF IInv, TypeOK
  <2>5. Quiet(c)
    BY <1>1, <1>4, <2>2, <2>3, <2>4 DEF Quiet
  <2>6. Tokens' /\ call' \in [Calls -> Call] /\ \A d \in Calls : d # c => call'[d] = call[d]
    BY <1>3, <2>4, <2>5, OneQuiet DEF IInv
  <2>7. OneRefreshPerTab'
    BY <1>1, <1>2, <1>3, <1>5, <2>2, <2>4, <2>6 DEF IInv, OneRefreshPerTab
  <2>8. TypeOK'
    BY <1>3, <1>5, <2>6 DEF IInv, TypeOK
  <2>9. QED
    BY <2>6, <2>7, <2>8 DEF IInv
<1>6. CASE /\ gate[t] = "open" /\ Storage(c) # NoPair
           /\ gate' = [gate EXCEPT ![t] = "busy"]
           /\ call' = [call EXCEPT ![c] = [@ EXCEPT !.pc = "refreshing", !.srv = "asked",
                                                    !.using = Storage(c), !.dead = ~Refreshable(Storage(c))]]
           /\ UNCHANGED shown
  <2>1. PICK m : m = [k EXCEPT !.pc = "refreshing", !.srv = "asked", !.using = Storage(c),
                               !.dead = ~Refreshable(Storage(c))]
    OBVIOUS
  <2>2. (~Refreshable(Storage(c))) \in BOOLEAN /\ Storage(c) \in Stored
    BY StorageType DEF IInv, Refreshable
  <2>3. /\ m \in Call /\ m.pc = "refreshing" /\ m.kind = k.kind /\ m.srv = "asked" /\ m.using = Storage(c)
        /\ m.got = k.got /\ m.dead = ~Refreshable(Storage(c))
    BY <1>4, <2>1, <2>2 DEF Call
  <2>4. IssuedIn(pair, Storage(c))
    BY <1>6, HomeType DEF IInv, Tokens, StoredIssued, Storage, HomeOf
  <2>5. CallOK(m, pair)
    BY <1>3, <1>4, <2>3, <2>4 DEF CallOK, Refreshable, RefreshableIn, Issued, IssuedIn
  <2>6. call' = [call EXCEPT ![c] = m] /\ call'[c] = m
    BY <1>1, <1>6, <2>1 DEF IInv, TypeOK
  <2>7. Quiet(c)
    BY <1>1, <1>4, <2>3, <2>5, <2>6 DEF Quiet
  <2>8. Tokens' /\ call' \in [Calls -> Call] /\ \A d \in Calls : d # c => call'[d] = call[d]
    BY <1>3, <2>6, <2>7, OneQuiet DEF IInv
  <2>9. gate' \in [Tabs -> {"open", "busy", "rejected"}] /\ gate'[t] = "busy"
        /\ \A s \in Tabs : s # t => gate'[s] = gate[s]
    BY <1>3, <1>6 DEF IInv, TypeOK
  <2>10. OneRefreshPerTab'
    <3>1. \A d \in Calls : TabOf[d] = t => call[d].pc # "refreshing"
      BY <1>3, <1>6 DEF IInv, OneRefreshPerTab
    <3>2. call'[c].pc = "refreshing" /\ call[c].pc = "sent"
      BY <1>1, <1>3, <2>3, <2>6
    <3>3. QED
      BY <1>2, <2>8, <2>9, <3>1, <3>2 DEF IInv, OneRefreshPerTab
  <2>11. TypeOK'
    BY <1>3, <1>6, <2>8, <2>9 DEF IInv, TypeOK
  <2>12. QED
    BY <2>8, <2>10, <2>11 DEF IInv
<1>7. CASE Fail({c}, t) /\ UNCHANGED gate
  <2>1. /\ Tokens' /\ call' \in [Calls -> Call]
        /\ \A d \in Calls : IF d \in {c} THEN call'[d].pc = "idle" ELSE call'[d] = call[d]
    BY <1>1, <1>3, <1>4, <1>7, Failed DEF Fail
  <2>2. OneRefreshPerTab'
    BY <1>1, <1>3, <1>7, <2>1, GateKept DEF IInv
  <2>3. TypeOK'
    BY <1>3, <1>7, <2>1, FailType DEF IInv, TypeOK, Fail
  <2>4. QED
    BY <2>1, <2>2, <2>3 DEF IInv
<1>8. QED
  BY <1>2, <1>5, <1>6, <1>7 DEF Receive401

LEMMA Receive401AgainInv == ASSUME IInv, NEW c \in Calls, Receive401Again(c) PROVE IInv'
<1>1. call[c].pc = "resent" /\ call[c].using = NoPair
  BY DEF IInv, Tokens, CallsOK, CallOK, Receive401Again, Call
<1>2. UNCHANGED <<pair, stored, gate, lost, faults>> /\ Fail({c}, TabOf[c])
  BY DEF Receive401Again
<1>3. /\ Tokens' /\ call' \in [Calls -> Call]
      /\ \A d \in Calls : IF d \in {c} THEN call'[d].pc = "idle" ELSE call'[d] = call[d]
  BY <1>1, <1>2, Failed DEF Fail
<1>4. OneRefreshPerTab'
  BY <1>1, <1>2, <1>3, GateKept DEF IInv
<1>5. TypeOK'
  BY <1>2, <1>3, FailType, HomeType DEF IInv, TypeOK, Fail
<1>6. QED
  BY <1>3, <1>4, <1>5 DEF IInv

\* Those who wait for a refresh are calls with an access token, in the same tab.
LEMMA WaitingFields ==
    ASSUME IInv, NEW c \in Calls, call[c].pc = "refreshing", NEW d \in Waiting(c)
    PROVE  /\ d \in Calls /\ TabOf[d] = TabOf[c] /\ HomeOf(d) = HomeOf(c)
           /\ call[d].kind \in {"use", "me"} /\ call[d].pc \in {"waiting", "refreshing"}
           /\ d # c => call[d].srv = "none" /\ call[d].using = NoPair /\ call[d].pc = "waiting"
<1>1. d \in Calls /\ TabOf[d] = TabOf[c] /\ (d = c \/ call[d].pc = "waiting") /\ HomeOf(d) = HomeOf(c)
  BY DEF Waiting, HomeOf
<1>2. CallOK(call[d], pair) /\ call[d] \in Call
  BY <1>1 DEF IInv, Tokens, CallsOK, CallOK
<1>3. call[d].kind \in {"use", "me"}
  BY <1>1, <1>2 DEF CallOK, Call
<1>4. d # c => call[d].srv = "none" /\ call[d].using = NoPair
  BY <1>1, <1>2, <1>3 DEF CallOK
<1>5. QED
  BY <1>1, <1>3, <1>4

\* A tab has one refresh, so all its refreshing and waiting calls are Waiting(c).
LEMMA WaitingAll ==
    ASSUME IInv, NEW c \in Calls, call[c].pc = "refreshing", NEW d \in Calls, TabOf[d] = TabOf[c],
           call[d].pc \in {"refreshing", "waiting"}
    PROVE  d \in Waiting(c)
<1>1. call[d].pc = "refreshing" => d = c
  BY HomeType DEF IInv, OneRefreshPerTab
<1>2. QED
  BY <1>1 DEF Waiting

LEMMA RefreshedInv == ASSUME IInv, NEW c \in Calls, Refreshed(c) PROVE IInv'
<1>1. PICK q : q = call[c].got
  OBVIOUS
<1>2. /\ call[c].pc = "refreshing" /\ q # NoPair /\ UNCHANGED <<pair, shown, lost, faults>>
      /\ stored' = [stored EXCEPT ![HomeOf(c)] = q]
      /\ gate' = [gate EXCEPT ![TabOf[c]] = "open"]
      /\ call' = [d \in Calls |-> IF d \in Waiting(c)
                                  THEN [Idle EXCEPT !.kind = call[d].kind, !.pc = "resent", !.bearer = q]
                                  ELSE call[d]]
  BY <1>1 DEF Refreshed, HomeOf
<1>3. IssuedIn(pair, q) /\ q \in Stored
  BY <1>1, <1>2, NoPairNoId, UsedIssued DEF IInv, IssuedIn
<1>4. \A d \in Waiting(c) :
          /\ CallOK(call'[d], pair) /\ call'[d].pc = "resent"
          /\ call'[d].got = NoPair /\ call'[d].using = NoPair
  <2> SUFFICES ASSUME NEW d \in Waiting(c)
               PROVE  /\ CallOK(call'[d], pair) /\ call'[d].pc = "resent"
                      /\ call'[d].got = NoPair /\ call'[d].using = NoPair
    OBVIOUS
  <2>1. d \in Calls /\ call[d].kind \in {"use", "me"}
    BY <1>2, WaitingFields
  <2>2. PICK m : m = [Idle EXCEPT !.kind = call[d].kind, !.pc = "resent", !.bearer = q]
    OBVIOUS
  <2>3. /\ m \in Call /\ m.kind = call[d].kind /\ m.pc = "resent" /\ m.srv = "none"
        /\ m.using = NoPair /\ m.got = NoPair /\ m.dead = FALSE
    BY <1>3, <2>1, <2>2, NoPairNoId DEF Idle, Call, Owner
  <2>4. CallOK(m, pair)
    BY <2>1, <2>3 DEF CallOK
  <2>5. call'[d] = m
    BY <1>2, <2>1, <2>2
  <2>6. QED
    BY <2>3, <2>4, <2>5
<1>5. \A d \in Calls : d \notin Waiting(c) => call'[d] = call[d]
  BY <1>2
<1>6. c \in Waiting(c) /\ \A d \in Calls : HomeOf(d) # HomeOf(c) => d \notin Waiting(c)
  BY <1>2, WaitingFields DEF Waiting
<1>7. StoreStep(c, q)
  <2>1. call'[c].got = NoPair
    BY <1>4, <1>6
  <2>2. \A d \in Calls : d \notin Waiting(c) => CallOK(call[d], pair)
    BY DEF IInv, Tokens, CallsOK
  <2>3. QED
    BY <1>1, <1>2, <1>4, <1>5, <1>6, <2>1, <2>2 DEF StoreStep
<1>8. Tokens'
  BY <1>2, <1>7, StoreTokens DEF IInv
<1>9. OneRefreshPerTab'
  <2>1. \A d \in Waiting(c) : TabOf[d] = TabOf[c] /\ call'[d].pc \notin {"refreshing", "waiting"}
    BY <1>2, <1>4, WaitingFields
  <2>2. \A d \in Calls : d \notin Waiting(c) /\ TabOf[d] = TabOf[c] => call[d].pc \notin {"refreshing", "waiting"}
    BY <1>2, WaitingAll
  <2>3. \A d \in Calls : IF TabOf[d] = TabOf[c] THEN call'[d].pc \notin {"refreshing", "waiting"}
                         ELSE call'[d] = call[d]
    BY <2>1, <2>2, <1>5
  <2>4. QED
    BY <1>2, <2>3, GateLeft, HomeType DEF IInv
<1>10. TypeOK'
  <2>1. stored' \in [Browsers -> Stored] /\ gate' \in [Tabs -> {"open", "busy", "rejected"}]
    BY <1>2, <1>3 DEF IInv, TypeOK
  <2>2. call' \in [Calls -> Call]
    BY <1>2, <1>8 DEF Tokens, CallsOK, CallOK
  <2>3. QED
    BY <1>2, <2>1, <2>2 DEF IInv, TypeOK
<1>11. QED
  BY <1>8, <1>9, <1>10 DEF IInv

LEMMA RefreshRefusedInv == ASSUME IInv, NEW c \in Calls, RefreshRefused(c) PROVE IInv'
<1>1. /\ call[c].pc = "refreshing" /\ call[c].srv = "answered" /\ UNCHANGED <<pair, lost, faults>>
      /\ stored' = [stored EXCEPT ![HomeOf(c)] = NoPair]
      /\ gate' = [gate EXCEPT ![TabOf[c]] = "open"]
      /\ call' = [d \in Calls |-> IF d \in Waiting(c) THEN LetGo(call[d]) ELSE call[d]]
      /\ shown' = ShownAfterFailure(TabOf[c], Waiting(c))
  BY DEF RefreshRefused, HomeOf, Fail
<1>2. \A d \in Waiting(c) : call'[d] = Idle
  BY <1>1, WaitingFields DEF LetGo
<1>3. \A d \in Calls : d \notin Waiting(c) => call'[d] = call[d]
  BY <1>1
<1>4. \A d \in Calls : HomeOf(d) # HomeOf(c) => d \notin Waiting(c)
  BY <1>1, WaitingFields
<1>5. StoreStep(c, NoPair)
  <2>1. \A d \in Calls : d \notin Waiting(c) => CallOK(call[d], pair)
    BY DEF IInv, Tokens, CallsOK
  <2>2. QED
    BY <1>1, <1>2, <1>3, <1>4, <2>1, IdleOK, IdleFields DEF StoreStep
<1>6. Tokens'
  BY <1>1, <1>5, StoreTokens DEF IInv
<1>7. OneRefreshPerTab'
  <2>1. \A d \in Waiting(c) : TabOf[d] = TabOf[c] /\ call'[d].pc \notin {"refreshing", "waiting"}
    BY <1>1, <1>2, IdleFields, WaitingFields
  <2>2. \A d \in Calls : d \notin Waiting(c) /\ TabOf[d] = TabOf[c] => call[d].pc \notin {"refreshing", "waiting"}
    BY <1>1, WaitingAll
  <2>3. \A d \in Calls : IF TabOf[d] = TabOf[c] THEN call'[d].pc \notin {"refreshing", "waiting"}
                         ELSE call'[d] = call[d]
    BY <2>1, <2>2, <1>3
  <2>4. QED
    BY <1>1, <2>3, GateLeft, HomeType DEF IInv
<1>8. TypeOK'
  <2>1. stored' \in [Browsers -> Stored] /\ gate' \in [Tabs -> {"open", "busy", "rejected"}]
    BY <1>1, NoPairNoId DEF IInv, TypeOK
  <2>2. call' \in [Calls -> Call]
    BY <1>1, <1>6 DEF Tokens, CallsOK, CallOK
  <2>3. shown' \in [Tabs -> Owner]
    BY <1>1, FailType, HomeType DEF IInv
  <2>4. QED
    BY <1>1, <2>1, <2>2, <2>3 DEF IInv, TypeOK
<1>9. QED
  BY <1>6, <1>7, <1>8 DEF IInv

LEMMA ReceiveLoginInv == ASSUME IInv, NEW c \in Calls, ReceiveLogin(c) PROVE IInv'
<1>1. PICK q : q = call[c].got
  OBVIOUS
<1>2. /\ call[c].kind = "login" /\ call[c].pc = "sent" /\ call[c].srv = "answered" /\ call[c].using = NoPair
      /\ CallOK(call[c], pair)
  BY DEF IInv, Tokens, CallsOK, CallOK, ReceiveLogin
<1>3. UNCHANGED <<pair, gate, lost, faults>> /\ call'[c] = Idle /\ \A d \in Calls : d # c => call'[d] = call[d]
  BY DEF ReceiveLogin, IInv, TypeOK
<1>4. call' \in [Calls -> Call]
  BY IdleFields DEF ReceiveLogin, IInv, TypeOK
<1>5. OneRefreshPerTab'
  BY <1>2, <1>3, IdleFields, GateKept DEF IInv
<1>6. CASE q = NoPair
  <2>1. UNCHANGED <<stored, shown>>
    BY <1>1, <1>6 DEF ReceiveLogin
  <2>2. call' = [d \in Calls |-> IF d \in {c} THEN LetGo(call[d]) ELSE call[d]]
    BY <1>2 DEF ReceiveLogin, LetGo, IInv, TypeOK
  <2>3. Tokens'
    BY <1>2, <1>3, <2>1, <2>2, Failed
  <2>4. TypeOK'
    BY <1>3, <1>4, <2>1 DEF IInv, TypeOK
  <2>5. QED
    BY <1>5, <2>3, <2>4 DEF IInv
<1>7. CASE q # NoPair
  <2>1. /\ stored' = [stored EXCEPT ![HomeOf(c)] = q]
        /\ shown' = [shown EXCEPT ![TabOf[c]] = call[c].who]
    BY <1>1, <1>7 DEF ReceiveLogin, HomeOf
  <2>2. q \in Stored
    BY <1>1, <1>7, NoPairNoId, UsedIssued DEF IInv, IssuedIn
  <2>3. \A d \in Calls : CallOK(call'[d], pair)
    BY <1>3, IdleOK DEF IInv, Tokens, CallsOK
  <2>4. StoreStep(c, q)
    BY <1>1, <1>3, <2>1, <2>3, IdleFields DEF StoreStep
  <2>5. Tokens'
    BY <1>3, <2>4, StoreTokens DEF IInv
  <2>6. call[c].who \in Owner
    BY DEF IInv, TypeOK, Call
  <2>7. TypeOK'
    BY <1>3, <1>4, <2>1, <2>2, <2>6 DEF IInv, TypeOK
  <2>8. QED
    BY <1>5, <2>5, <2>7 DEF IInv
<1>8. QED
  BY <1>6, <1>7

LEMMA FinishLogoutInv ==
    ASSUME IInv, NEW c \in Calls, call[c].kind = "logout", call[c].pc = "sent", FinishLogout(c),
           UNCHANGED <<pair, gate>>, lost' = lost, faults' \in 0..MaxFaults
    PROVE  IInv'
<1>1. PICK k : k = call[c]
  OBVIOUS
<1>2. PICK m : m = LetGo(k)
  OBVIOUS
<1>3. CallOK(k, pair)
  BY <1>1 DEF IInv, Tokens, CallsOK
<1>4. /\ CallOK(m, pair) /\ m.pc = "idle" /\ m.got = NoPair /\ m.using \in {NoPair, k.using}
      /\ m.srv # "none" => m.kind = k.kind /\ m.using = k.using /\ k.srv = m.srv
  BY <1>2, <1>3, LetGoFields
<1>5. /\ call'[c] = m /\ call' = [call EXCEPT ![c] = m] /\ \A d \in Calls : d # c => call'[d] = call[d]
      /\ stored' = [stored EXCEPT ![HomeOf(c)] = NoPair]
      /\ shown' = [shown EXCEPT ![TabOf[c]] = NoAccount]
  BY <1>1, <1>2 DEF FinishLogout, IInv, TypeOK, HomeOf
<1>6. m.srv # "none" => m.kind = "logout" /\ m.using # NoPair
  BY <1>1, <1>3, <1>4, NoPairNoId DEF CallOK, IssuedIn
<1>7. \A d \in Calls : CallOK(call'[d], pair)
  BY <1>4, <1>5 DEF IInv, Tokens, CallsOK
<1>8. StoreStep(c, NoPair)
  BY <1>1, <1>4, <1>5, <1>6, <1>7 DEF StoreStep
<1>9. Tokens'
  BY <1>8, StoreTokens DEF IInv
<1>10. OneRefreshPerTab'
  BY <1>1, <1>4, <1>5, GateKept DEF IInv
<1>11. TypeOK'
  <2>1. m \in Call
    BY <1>4 DEF CallOK
  <2>2. call' \in [Calls -> Call] /\ stored' \in [Browsers -> Stored]
    BY <1>5, <2>1, NoPairNoId DEF IInv, TypeOK
  <2>3. shown' \in [Tabs -> Owner]
    BY <1>5 DEF IInv, TypeOK, Owner
  <2>4. QED
    BY <2>2, <2>3 DEF IInv, TypeOK
<1>12. QED
  BY <1>9, <1>10, <1>11 DEF IInv

LEMMA ReceiveLogoutInv == ASSUME IInv, NEW c \in Calls, ReceiveLogout(c) PROVE IInv'
<1>1. faults' \in 0..MaxFaults
  BY DEF ReceiveLogout, IInv, TypeOK
<1>2. QED
  BY <1>1, FinishLogoutInv DEF ReceiveLogout

LEMMA ConnectionLostInv == ASSUME IInv, NEW c \in Calls, ConnectionLost(c) PROVE IInv'
<1>1. /\ faults' \in 0..MaxFaults /\ UNCHANGED pair /\ lost \subseteq lost' /\ lost' \subseteq Browsers
      /\ call[c].pc = "refreshing" => HomeOf(c) \in lost'
      /\ call[c].pc # "refreshing" => lost' = lost
  BY FaultType, HomeType DEF ConnectionLost, IInv, TypeOK, HomeOf
<1>2. CallOK(call[c], pair)
  BY DEF IInv, Tokens, CallsOK
<1>3. ASSUME call[c].pc # "refreshing", call[c].using = NoPair, call[c].pc \in {"sent", "resent"},
             Fail({c}, TabOf[c]), UNCHANGED <<stored, gate>>
      PROVE  IInv'
  <2>1. /\ Tokens' /\ call' \in [Calls -> Call]
        /\ \A d \in Calls : IF d \in {c} THEN call'[d].pc = "idle" ELSE call'[d] = call[d]
    BY <1>1, <1>3, Failed DEF Fail
  <2>2. OneRefreshPerTab'
    BY <1>3, <2>1, GateKept DEF IInv
  <2>3. shown' \in [Tabs -> Owner]
    BY <1>3, FailType, HomeType DEF IInv, Fail
  <2>4. TypeOK'
    BY <1>1, <1>3, <2>1, <2>3 DEF IInv, TypeOK
  <2>5. QED
    BY <2>1, <2>2, <2>4 DEF IInv
<1>4. CASE call[c].kind \in {"use", "me"} /\ call[c].pc \in {"sent", "resent"}
           /\ Fail({c}, TabOf[c]) /\ UNCHANGED <<stored, gate>>
  BY <1>2, <1>3, <1>4 DEF CallOK
<1>5. CASE call[c].kind = "login" /\ call[c].pc = "sent" /\ Fail({c}, TabOf[c]) /\ UNCHANGED <<stored, gate>>
  BY <1>2, <1>3, <1>5 DEF CallOK
<1>6. CASE call[c].kind = "logout" /\ call[c].pc = "sent" /\ FinishLogout(c) /\ UNCHANGED gate
  BY <1>1, <1>6, FinishLogoutInv
<1>7. CASE call[c].pc = "refreshing" /\ gate' = [gate EXCEPT ![TabOf[c]] = "rejected"]
           /\ Fail(Waiting(c), TabOf[c]) /\ UNCHANGED stored
  <2>1. \A d \in Waiting(c) : call[d].using # NoPair => HomeOf(d) \in lost'
    BY <1>1, <1>7, WaitingFields
  <2>2. /\ Tokens' /\ call' \in [Calls -> Call]
        /\ \A d \in Calls : IF d \in Waiting(c) THEN call'[d].pc = "idle" ELSE call'[d] = call[d]
    BY <1>1, <1>7, <2>1, Failed DEF Fail
  <2>3. OneRefreshPerTab'
    <3>1. \A d \in Waiting(c) : TabOf[d] = TabOf[c] /\ call'[d].pc \notin {"refreshing", "waiting"}
      BY <1>7, <2>2, WaitingFields
    <3>2. \A d \in Calls : d \notin Waiting(c) /\ TabOf[d] = TabOf[c] => call[d].pc \notin {"refreshing", "waiting"}
      BY <1>7, WaitingAll
    <3>3. \A d \in Calls : IF TabOf[d] = TabOf[c] THEN call'[d].pc \notin {"refreshing", "waiting"}
                           ELSE call'[d] = call[d]
      BY <2>2, <3>1, <3>2
    <3>4. QED
      BY <1>7, <3>3, GateLeft, HomeType DEF IInv
  <2>4. shown' \in [Tabs -> Owner]
    BY <1>7, FailType, HomeType DEF IInv, Fail
  <2>5. gate' \in [Tabs -> {"open", "busy", "rejected"}]
    BY <1>7 DEF IInv, TypeOK
  <2>6. TypeOK'
    BY <1>1, <1>7, <2>2, <2>4, <2>5 DEF IInv, TypeOK
  <2>7. QED
    BY <2>2, <2>3, <2>6 DEF IInv
<1>8. QED
  BY <1>4, <1>5, <1>6, <1>7 DEF ConnectionLost

LEMMA ReloadInv == ASSUME IInv, NEW t \in Tabs, Reload(t) PROVE IInv'
<1>1. PICK F : F = {c \in Calls : TabOf[c] = t}
  OBVIOUS
<1>2. /\ faults' \in 0..MaxFaults /\ UNCHANGED <<pair, stored>> /\ lost \subseteq lost' /\ lost' \subseteq Browsers
      /\ gate' = [gate EXCEPT ![t] = "open"] /\ shown' = [shown EXCEPT ![t] = NoAccount]
      /\ call' = [d \in Calls |-> IF d \in F THEN LetGo(call[d]) ELSE call[d]]
  BY <1>1, FaultType, TabsAssumption DEF Reload, IInv, TypeOK
<1>3. \A d \in Calls : d \in F /\ call[d].pc # "idle" /\ call[d].using # NoPair => HomeOf(d) \in lost'
  BY <1>1 DEF Reload, HomeOf
<1>4. /\ Tokens' /\ call' \in [Calls -> Call]
      /\ \A d \in Calls : IF d \in F THEN call'[d].pc = "idle" ELSE call'[d] = call[d]
  BY <1>2, <1>3, Failed
<1>5. OneRefreshPerTab'
  <2>1. \A d \in Calls : IF TabOf[d] = t THEN call'[d].pc \notin {"refreshing", "waiting"}
                         ELSE call'[d] = call[d]
    BY <1>1, <1>4
  <2>2. QED
    BY <1>2, <2>1, GateLeft DEF IInv
<1>6. TypeOK'
  BY <1>2, <1>4 DEF IInv, TypeOK, Owner
<1>7. QED
  BY <1>4, <1>5, <1>6 DEF IInv

--------------------------------------------------------------------------------
(* The specification.                                                           *)

LEMMA NextInv == IInv /\ [Next]_vars => IInv'
<1> SUFFICES ASSUME IInv, [Next]_vars PROVE IInv'
  OBVIOUS
<1>1. ASSUME NEW c \in Calls, Send(c) PROVE IInv'
  BY <1>1, StartUseInv, LoadMeInv, StartLogoutInv, StartLoginInv DEF Send
<1>2. ASSUME NEW c \in Calls, Serve(c) PROVE IInv'
  BY <1>2, HandleLoginInv, HandleLogoutInv, FindTokenInv, RevokeOldInv, IssueNewInv, ServerFailsInv DEF Serve
<1>3. ASSUME NEW c \in Calls, Receive(c) PROVE IInv'
  BY <1>3, ReceiveDataInv, Receive401Inv, Receive401AgainInv, RefreshedInv, RefreshRefusedInv,
     ReceiveLoginInv, ReceiveLogoutInv DEF Receive
<1>4. CASE UNCHANGED vars
  <2>1. UNCHANGED <<pair, stored, shown, gate, call, lost, faults>>
    BY <1>4 DEF vars
  <2>2. \A d \in Calls : Quiet(d)
    BY <2>1, SameQuiet DEF IInv
  <2>3. Tokens'
    BY <2>1, <2>2, QuietStep DEF IInv
  <2>4. OneRefreshPerTab' /\ TypeOK'
    BY <2>1, GateKept DEF IInv, TypeOK
  <2>5. QED
    BY <2>3, <2>4 DEF IInv
<1>5. QED
  BY <1>1, <1>2, <1>3, <1>4, ConnectionLostInv, ReloadInv, AccessExpiresInv, RefreshExpiresInv DEF Next

LEMMA Invariant == Spec => []IInv
<1>1. QED
  BY InitInv, NextInv, PTL DEF Spec

\* Every variable of the sessions keeps its type.
THEOREM TypesHold == Spec => []TypeOK
<1>1. IInv => TypeOK
  BY DEF IInv
<1>2. QED
  BY <1>1, Invariant, PTL

\* However calls, answers, reloads and lost connections interleave, a page has one
\* refresh under way at most, and no call waits for one that nobody makes (api.ts).
THEOREM OneRefreshHolds == Spec => []OneRefreshPerTab
<1>1. IInv => OneRefreshPerTab
  BY DEF IInv
<1>2. QED
  BY <1>1, Invariant, PTL

\* A token that was exchanged is revoked before its successor exists and the
\* successor is of the same account, whatever fails (rotate in token.service.ts).
THEOREM RotationStaysSound == Spec => []RotationSound
<1>1. IInv => RotationSound
  BY DEF IInv, Tokens, ParentsOK, RotationSound
<1>2. QED
  BY <1>1, Invariant, PTL

\* A request that leaves with a token that is over never brings tokens back.
THEOREM ReplayFails == Spec => []NoReplay
<1>1. IInv => NoReplay
  BY DEF IInv, Tokens, CallsOK, CallOK, NoReplay
<1>2. QED
  BY <1>1, Invariant, PTL

\* Only a lost answer leaves a browser with a token that was revoked and that
\* nobody in the browser is about to replace or to forget.
THEOREM StoredTokenStaysUsable == Spec => []StoredTokenUsable
<1>1. IInv => StoredTokenUsable
  BY DEF IInv, Tokens
<1>2. QED
  BY <1>1, Invariant, PTL
====
