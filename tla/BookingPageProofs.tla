---- MODULE BookingPageProofs ----
(* The safety properties of BookingPage, for any dates, hours, people and       *)
(* requests under way.  That the spinners stop is liveness and left to TLC.     *)
EXTENDS BookingPage, SequenceLemmas

\* What the form and the input owe to the code around them: a dialog that is open is
\* for a slot, a title was typed into this opening, the timer runs for a text.
FormsFit ==
    /\ form.open => form.slot # None
    /\ form.title \in {None, form.slot}
    /\ input.timer => input.query # NoText

IInv == TypeOK /\ FormsFit /\ OnePostInFlight /\ PostOfItsForm /\ PeopleOnce

--------------------------------------------------------------------------------
(* Types.                                                                       *)

LEMMA FormType ==
    ASSUME TypeOK
    PROVE  /\ form \in [open : BOOLEAN, slot : Slots \cup {None}, title : Slots \cup {None},
                        people : Seq(People \cup Texts), busy : BOOLEAN, created : Slots \cup {None}]
           /\ input \in [query : Texts \cup {NoText}, timer : BOOLEAN, found : Seq(People)]
  BY DEF TypeOK, Form, Input

LEMMA BlankType == Blank \in Input
<1>1. <<>> \in Seq(People)  OBVIOUS
<1> QED  BY <1>1 DEF Blank, Input

LEMMA AnswerTypes ==
    ASSUME TypeOK, Answer
    PROVE  TypeOK'
<1>1. ASSUME NEW i \in DOMAIN loads, ReceiveAvailability(i) \/ LoadFails(i)  PROVE TypeOK'
  <2>1. i \in 1..Len(loads) /\ loads[i] \in Dates  BY DEF TypeOK
  <2>2. RemoveAt(loads, i) \in Seq(Dates)  BY <2>1, RemoveAtProperties DEF TypeOK
  <2>3. CASE ReceiveAvailability(i)
    <3>1. PICK free \in SUBSET Hours : grid' = [date |-> loads[i], free |-> free]
      BY <2>3 DEF ReceiveAvailability
    <3>2. grid' \in Grid  BY <2>1, <3>1 DEF Grid
    <3> QED  BY <2>2, <2>3, <3>2 DEF TypeOK, ReceiveAvailability, dialog
  <2>4. CASE LoadFails(i)
    BY <2>2, <2>4 DEF TypeOK, LoadFails, dialog, Grid
  <2> QED  BY <1>1, <2>3, <2>4
<1>2. ASSUME NEW i \in DOMAIN posts, ReceiveCreated(i) \/ ReceiveError(i)  PROVE TypeOK'
  <2>1. i \in 1..Len(posts) /\ posts[i] \in Post  BY DEF TypeOK
  <2>2. RemoveAt(posts, i) \in Seq(Post)  BY <2>1, RemoveAtProperties DEF TypeOK
  <2>3. posts[i].slot \in Slots /\ posts[i].reload \in Dates  BY <2>1 DEF Post
  <2>4. CASE ReceiveCreated(i)
    <3>1. Append(loads, posts[i].reload) \in Seq(Dates)  BY <2>3, AppendProperties DEF TypeOK
    <3>2. form' \in Form  BY <2>3, <2>4, FormType DEF ReceiveCreated, Form
    <3>3. input' \in Input /\ searches' \in Seq(Texts)  BY <2>4 DEF ReceiveCreated, Input, Blank
    <3> QED  BY <2>2, <2>4, <3>1, <3>2, <3>3 DEF TypeOK, ReceiveCreated, StartLoad
  <2>5. CASE ReceiveError(i)
    <3>1. form' \in Form  BY <2>5, FormType DEF ReceiveError, Form
    <3> QED  BY <2>2, <2>5, <3>1 DEF TypeOK, ReceiveError, page
  <2> QED  BY <1>2, <2>4, <2>5
<1> QED  BY <1>1, <1>2 DEF Answer

\* Whoever is added is a person or a text, and the input starts over.
LEMMA AddingTypes ==
    ASSUME TypeOK, NEW u \in People \cup Texts,
           form' = [form EXCEPT !.people = Append(form.people, u)], input' = Blank
    PROVE  form' \in Form /\ input' \in Input
<1>1. form.people \in Seq(People \cup Texts)  BY FormType
<1>2. Append(form.people, u) \in Seq(People \cup Texts)  BY <1>1, AppendProperties
<1>3. form' \in Form  BY <1>2, FormType DEF Form
<1> QED  BY <1>3, BlankType

LEMMA UseTypes ==
    ASSUME TypeOK, FormsFit, Use
    PROVE  TypeOK'
<1> USE FormType
<1>1. ASSUME NEW d \in Dates, SelectDate(d)  PROVE TypeOK'
  <2>1. Append(loads, d) \in Seq(Dates)  BY AppendProperties DEF TypeOK
  <2> QED  BY <1>1, <2>1 DEF TypeOK, SelectDate, StartLoad, dialog
<1>2. ASSUME NEW h \in Hours, SelectSlot(h)  PROVE TypeOK'
  <2>1. <<date, h>> \in Slots  BY DEF TypeOK, Slots
  <2>2. <<>> \in Seq(People \cup Texts)  OBVIOUS
  <2>3. form' \in Form  BY <1>2, <2>1, <2>2 DEF SelectSlot, Form
  <2> QED  BY <1>2, <2>3 DEF TypeOK, SelectSlot, page
<1>3. CASE Close
  <2>1. form' \in Form  BY <1>3 DEF Close, Form
  <2>2. input' \in Input /\ searches' \in Seq(Texts)  BY <1>3, BlankType DEF Close
  <2> QED  BY <1>3, <2>1, <2>2 DEF TypeOK, Close, page
<1>4. CASE TypeTitle
  <2>1. form' \in Form  BY <1>4 DEF TypeTitle, Form
  <2> QED  BY <1>4, <2>1 DEF TypeOK, TypeTitle, page
<1>5. CASE Submit
  <2>1. form' \in Form  BY <1>5 DEF Submit, Form
  <2>2. form.slot \in Slots /\ form.title \in Slots /\ date \in Dates
    BY <1>5 DEF Submit, Editing, FormsFit, TypeOK
  <2>3. [slot |-> form.slot, title |-> form.title, reload |-> date] \in Post  BY <2>2 DEF Post
  <2>4. posts' \in Seq(Post)  BY <1>5, <2>3, AppendProperties DEF Submit, TypeOK
  <2> QED  BY <1>5, <2>1, <2>4 DEF TypeOK, Submit, page
<1>6. ASSUME NEW q \in Texts \cup {NoText}, Type(q)  PROVE TypeOK'
  <2>1. Query(q) \in Input  BY DEF Query, Input
  <2> QED  BY <1>6, <2>1 DEF TypeOK, Type, page
<1>7. CASE TimerFires
  <2>1. input.query \in Texts  BY <1>7 DEF TimerFires, FormsFit
  <2>2. searches' \in Seq(Texts)  BY <1>7, <2>1, AppendProperties DEF TimerFires, TypeOK
  <2>3. input' \in Input  BY <1>7 DEF TimerFires, Input
  <2> QED  BY <1>7, <2>2, <2>3 DEF TypeOK, TimerFires, page
<1>8. ASSUME NEW i \in DOMAIN searches, ReceiveFound(i)  PROVE TypeOK'
  <2>1. i \in 1..Len(searches) /\ searches[i] \in Texts  BY DEF TypeOK
  <2>2. searches' \in Seq(Texts)  BY <1>8, <2>1, RemoveAtProperties DEF ReceiveFound, TypeOK
  <2>3. Found[searches[i]] \in Seq(People) /\ <<>> \in Seq(People)  BY <2>1, FoundAssumption
  <2>4. input' \in Input  BY <1>8, <2>3 DEF ReceiveFound, Input
  <2> QED  BY <1>8, <2>2, <2>4 DEF TypeOK, ReceiveFound, page
<1>9. CASE Pick
  <2>1. \A k \in DOMAIN input.found : input.found[k] \in People  OBVIOUS
  <2>2. form' \in Form /\ input' \in Input
    <3>1. CASE AddGuest(input.query)
      <4>1. input.query \in People \cup Texts  BY <3>1 DEF AddGuest
      <4> QED  BY <3>1, <4>1, AddingTypes DEF AddGuest
    <3>2. ASSUME NEW k \in DOMAIN input.found, AddUser(input.found[k])
          PROVE  form' \in Form /\ input' \in Input
      BY <2>1, <3>2, AddingTypes DEF AddUser
    <3> QED  BY <1>9, <3>1, <3>2 DEF Pick
  <2> QED  BY <1>9, <2>2 DEF TypeOK, Pick, page
<1>10. CASE Enter
  <2>1. input.found # <<>> => Head(input.found) \in People  BY HeadTailProperties
  <2>2. form' \in Form /\ input' \in Input
    <3>1. CASE input.found # <<>>
      <4>1. AddUser(Head(input.found))  BY <1>10, <3>1 DEF Enter
      <4> QED  BY <2>1, <3>1, <4>1, AddingTypes DEF AddUser
    <3>2. CASE input.found = <<>>
      <4>1. AddGuest(input.query)  BY <1>10, <3>2 DEF Enter
      <4>2. input.query \in People \cup Texts  BY <4>1 DEF AddGuest
      <4> QED  BY <4>1, <4>2, AddingTypes DEF AddGuest
    <3> QED  BY <3>1, <3>2
  <2> QED  BY <1>10, <2>2 DEF TypeOK, Enter, page
<1>11. ASSUME NEW i \in DOMAIN form.people, RemovePerson(i)  PROVE TypeOK'
  <2>1. i \in 1..Len(form.people)  OBVIOUS
  <2>2. RemoveAt(form.people, i) \in Seq(People \cup Texts)  BY <2>1, RemoveAtProperties
  <2>3. form' \in Form  BY <1>11, <2>2 DEF RemovePerson, Form
  <2> QED  BY <1>11, <2>3 DEF TypeOK, RemovePerson, page
<1> QED  BY <1>1, <1>2, <1>3, <1>4, <1>5, <1>6, <1>7, <1>8, <1>9, <1>10, <1>11 DEF Use

--------------------------------------------------------------------------------
(* The four other parts.                                                        *)

\* With at most one booking under way, its answer leaves none.
LEMMA LastPost ==
    ASSUME TypeOK, OnePostInFlight, NEW i \in DOMAIN posts
    PROVE  RemoveAt(posts, i) = <<>>
<1>1. i \in 1..Len(posts)  BY DEF TypeOK
<1>2. RemoveAt(posts, i) \in Seq(Post) /\ Len(RemoveAt(posts, i)) = Len(posts) - 1
  BY <1>1, RemoveAtProperties DEF TypeOK
<1>3. Len(posts) = 1
  <2>1. \A n \in Nat : n <= 1 /\ i \in 1..n => n = 1  OBVIOUS
  <2>2. Len(posts) \in Nat /\ Len(posts) <= 1  BY DEF OnePostInFlight, TypeOK
  <2> QED  BY <1>1, <2>1, <2>2
<1> QED  BY <1>2, <1>3, EmptySeq

\* Adding a text, or a person who is not in the form yet, names nobody twice.
LEMMA AddingOnce ==
    ASSUME TypeOK, PeopleOnce, NEW u \in People \cup Texts,
           u \in Texts \/ ~Contains(form.people, u),
           form' = [form EXCEPT !.people = Append(form.people, u)]
    PROVE  PeopleOnce'
<1> DEFINE p == form.people
           q == Append(form.people, u)
<1>1. p \in Seq(People \cup Texts) /\ form'.people = q  BY FormType
<1>2. \A j \in DOMAIN q : IF j \in DOMAIN p THEN q[j] = p[j] ELSE j = Len(p) + 1 /\ q[j] = u
  BY <1>1, AppendElements
<1>3. ASSUME NEW j \in DOMAIN p, u \in People  PROVE p[j] # u
  BY <1>1, <1>3, TextsAssumption DEF Contains
<1>4. \A j, k \in DOMAIN p : j # k /\ p[j] \in People => p[j] # p[k]  BY DEF PeopleOnce
<1> HIDE DEF p, q
<1>5. \A j, k \in DOMAIN q : j # k /\ q[j] \in People => q[j] # q[k]
  <2> SUFFICES ASSUME NEW j \in DOMAIN q, NEW k \in DOMAIN q, j # k, q[j] \in People
               PROVE  q[j] # q[k]
    OBVIOUS
  <2>1. CASE j \in DOMAIN p /\ k \in DOMAIN p  BY <1>2, <1>4, <2>1
  <2>2. CASE j \in DOMAIN p /\ k \notin DOMAIN p  BY <1>2, <1>3, <2>2
  <2>3. CASE j \notin DOMAIN p /\ k \in DOMAIN p  BY <1>2, <1>3, <2>3
  <2>4. CASE j \notin DOMAIN p /\ k \notin DOMAIN p  BY <1>2, <2>4
  <2> QED  BY <2>1, <2>2, <2>3, <2>4
<1> QED  BY <1>1, <1>5 DEF PeopleOnce

LEMMA PartsKept ==
    ASSUME IInv, Next
    PROVE  FormsFit' /\ OnePostInFlight' /\ PostOfItsForm' /\ PeopleOnce'
<1> USE FormType
<1> DEFINE Parts == FormsFit /\ OnePostInFlight /\ PostOfItsForm /\ PeopleOnce
<1>a. TypeOK /\ Parts  BY DEF IInv
<1>1. ASSUME NEW i \in DOMAIN loads, ReceiveAvailability(i) \/ LoadFails(i)  PROVE Parts'
  BY <1>a, <1>1 DEF ReceiveAvailability, LoadFails, dialog, FormsFit, OnePostInFlight,
                    PostOfItsForm, PeopleOnce
<1>2. ASSUME NEW i \in DOMAIN posts, ReceiveCreated(i)  PROVE Parts'
  <2>1. posts' = <<>> /\ form'.busy = FALSE  BY <1>a, <1>2, LastPost DEF ReceiveCreated
  <2>2. OnePostInFlight' /\ PostOfItsForm'  BY <2>1 DEF OnePostInFlight, PostOfItsForm
  <2>3. FormsFit' /\ PeopleOnce'  BY <1>a, <1>2 DEF ReceiveCreated, FormsFit, PeopleOnce, Blank
  <2> QED  BY <2>2, <2>3
<1>3. ASSUME NEW i \in DOMAIN posts, ReceiveError(i)  PROVE Parts'
  <2>1. posts' = <<>> /\ form'.busy = FALSE  BY <1>a, <1>3, LastPost DEF ReceiveError
  <2>2. OnePostInFlight' /\ PostOfItsForm'  BY <2>1 DEF OnePostInFlight, PostOfItsForm
  <2>3. FormsFit' /\ PeopleOnce'  BY <1>a, <1>3 DEF ReceiveError, FormsFit, PeopleOnce
  <2> QED  BY <2>2, <2>3
<1>4. ASSUME NEW d \in Dates, SelectDate(d)  PROVE Parts'
  BY <1>a, <1>4 DEF SelectDate, dialog, FormsFit, OnePostInFlight, PostOfItsForm, PeopleOnce
<1>5. ASSUME NEW h \in Hours, SelectSlot(h)  PROVE Parts'
  <2>1. <<date, h>> # None  BY <1>a, NullsAssumption DEF TypeOK
  <2> QED  BY <1>a, <1>5, <2>1 DEF SelectSlot, FormsFit, OnePostInFlight, PostOfItsForm, PeopleOnce
<1>6. CASE Close
  BY <1>a, <1>6 DEF Close, Blank, FormsFit, OnePostInFlight, PostOfItsForm, PeopleOnce
<1>7. CASE TypeTitle
  BY <1>a, <1>7 DEF TypeTitle, FormsFit, OnePostInFlight, PostOfItsForm, PeopleOnce
\* The form is not busy, so nothing is under way; the title it has is its slot's.
<1>8. CASE Submit
  <2> DEFINE post == [slot |-> form.slot, title |-> form.title, reload |-> date]
  <2>1. posts = <<>> /\ form.title = form.slot
    BY <1>a, <1>8 DEF Submit, OnePostInFlight, FormsFit
  <2>2. posts' = <<post>> /\ form'.busy = TRUE  BY <1>8, <2>1 DEF Submit
  <2>3. OnePostInFlight' /\ PostOfItsForm'  BY <2>1, <2>2 DEF OnePostInFlight, PostOfItsForm
  <2>4. FormsFit' /\ PeopleOnce'  BY <1>a, <1>8 DEF Submit, FormsFit, PeopleOnce
  <2> QED  BY <2>3, <2>4
<1>9. ASSUME NEW q \in Texts \cup {NoText}, Type(q)  PROVE Parts'
  BY <1>a, <1>9 DEF Type, Query, FormsFit, OnePostInFlight, PostOfItsForm, PeopleOnce
<1>10. CASE TimerFires
  BY <1>a, <1>10 DEF TimerFires, FormsFit, OnePostInFlight, PostOfItsForm, PeopleOnce
<1>11. ASSUME NEW i \in DOMAIN searches, ReceiveFound(i)  PROVE Parts'
  BY <1>a, <1>11 DEF ReceiveFound, FormsFit, OnePostInFlight, PostOfItsForm, PeopleOnce
\* Both ways to add somebody.
<1>12. ASSUME NEW u \in People \cup Texts, u \in Texts \/ ~Contains(form.people, u),
              form' = [form EXCEPT !.people = Append(form.people, u)], input' = Blank,
              UNCHANGED posts
       PROVE  Parts'
  <2>1. PeopleOnce'  BY <1>a, <1>12, AddingOnce
  <2>2. FormsFit' /\ OnePostInFlight' /\ PostOfItsForm'
    BY <1>a, <1>12 DEF FormsFit, OnePostInFlight, PostOfItsForm, Blank
  <2> QED  BY <2>1, <2>2
<1>13. ASSUME AddGuest(input.query), UNCHANGED posts  PROVE Parts'
  <2>1. input.query \in Texts  BY <1>a, <1>13 DEF AddGuest
  <2> QED  BY <1>12, <1>13, <2>1 DEF AddGuest
<1>14. CASE Pick
  <2>1. ASSUME NEW k \in DOMAIN input.found, AddUser(input.found[k])  PROVE Parts'
    <3>1. input.found[k] \in People  BY <1>a, <2>1
    <3> QED  BY <1>12, <1>14, <2>1, <3>1 DEF AddUser, Pick
  <2> QED  BY <1>13, <1>14, <2>1 DEF Pick
<1>15. CASE Enter
  <2>1. CASE input.found # <<>>
    <3>1. Head(input.found) \in People  BY <1>a, <2>1, HeadTailProperties
    <3> QED  BY <1>12, <1>15, <2>1, <3>1 DEF AddUser, Enter
  <2> QED  BY <1>13, <1>15, <2>1 DEF Enter
<1>16. ASSUME NEW i \in DOMAIN form.people, RemovePerson(i)  PROVE Parts'
  <2>1. form.people \in Seq(People \cup Texts) /\ i \in 1..Len(form.people)  BY <1>a
  <2>2. form'.people = RemoveAt(form.people, i)  BY <1>a, <1>16 DEF RemovePerson
  <2> DEFINE p == form.people
             q == RemoveAt(p, i)
  <2>3. \A j, k \in DOMAIN q : j # k => \E m, n \in DOMAIN p : m # n /\ q[j] = p[m] /\ q[k] = p[n]
    BY ONLY <2>1, RemoveAtElements
  <2>4. PeopleOnce'  BY <1>a, <2>2, <2>3 DEF PeopleOnce
  <2>5. FormsFit' /\ OnePostInFlight' /\ PostOfItsForm'
    BY <1>a, <1>16 DEF RemovePerson, FormsFit, OnePostInFlight, PostOfItsForm
  <2> QED  BY <2>4, <2>5
<1> QED
  BY <1>1, <1>2, <1>3, <1>4, <1>5, <1>6, <1>7, <1>8, <1>9, <1>10, <1>11, <1>14, <1>15, <1>16
     DEF Next, Answer, Use

LEMMA InitIInv == Init => IInv
<1> SUFFICES ASSUME Init PROVE IInv  OBVIOUS
<1>1. loads \in Seq(Dates) /\ searches \in Seq(Texts) /\ posts \in Seq(Post)
  BY DatesAssumption DEF Init
<1>2. <<>> \in Seq(People \cup Texts)  OBVIOUS
<1>3. form \in Form  BY <1>2 DEF Init, Form
<1>4. TypeOK  BY <1>1, <1>3, BlankType, DatesAssumption DEF Init, TypeOK, Grid
<1>5. FormsFit /\ OnePostInFlight /\ PostOfItsForm /\ PeopleOnce
  BY DEF Init, FormsFit, OnePostInFlight, PostOfItsForm, PeopleOnce, Blank
<1> QED  BY <1>4, <1>5 DEF IInv

LEMMA NextIInv == IInv /\ [Next]_vars => IInv'
<1> SUFFICES ASSUME IInv, [Next]_vars PROVE IInv'  OBVIOUS
<1>1. CASE Next
  <2>1. TypeOK'  BY <1>1, AnswerTypes, UseTypes DEF IInv, Next
  <2> QED  BY <1>1, <2>1, PartsKept DEF IInv
<1>2. CASE UNCHANGED vars
  BY <1>2 DEF vars, IInv, TypeOK, FormsFit, OnePostInFlight, PostOfItsForm, PeopleOnce
<1> QED  BY <1>1, <1>2

LEMMA Invariance == Spec => []IInv
  BY InitIInv, NextIInv, PTL DEF Spec

--------------------------------------------------------------------------------

\* Whatever answers come and in whatever order, the page's state has its types.
THEOREM PageTypes == Spec => []TypeOK
<1>1. IInv => TypeOK  BY DEF IInv
<1> QED  BY <1>1, Invariance, PTL

\* One booking at a time, however often the dialog is closed and opened again.
THEOREM OnePost == Spec => []OnePostInFlight
<1>1. IInv => OnePostInFlight  BY DEF IInv
<1> QED  BY <1>1, Invariance, PTL

\* A booking carries the title typed for its own slot.
THEOREM PostsFit == Spec => []PostOfItsForm
<1>1. IInv => PostOfItsForm  BY DEF IInv
<1> QED  BY <1>1, Invariance, PTL

\* No account is mentioned twice, for any accounts, texts and search results.
THEOREM PeopleStayOnce == Spec => []PeopleOnce
<1>1. IInv => PeopleOnce  BY DEF IInv
<1> QED  BY <1>1, Invariance, PTL
====
