---- MODULE BookingPage ----
(* The booking page: the date strip, the grid of one room, the booking form and  *)
(* the participants input in it.  Requests that are under way at the same time   *)
(* are answered in any order; nothing in the page cancels one.  The server is    *)
(* that of Reservations.tla, where others book and cancel at any moment: a load  *)
(* may find any hours free, and a booking may be made or refused.  Every date of *)
(* the strip is open: which are is in BookingCalendar.tla.                       *)
EXTENDS Integers, Sequences, SequencesExt

CONSTANTS
    Dates, FirstDate,   \* what the strip offers, and the date it starts with
    Hours,
    People,
    Texts,              \* what is typed into the participants input
    Found,              \* the accounts a search for a text lists
    MaxRequests,        \* bounds the loads, and the searches, under way at once
    MaxPeople,          \* bounds the participants of a form
    NoText, None

ASSUME DatesAssumption == FirstDate \in Dates
ASSUME FoundAssumption == Found \in [Texts -> Seq(People)]
ASSUME TextsAssumption == Texts \cap People = {}
ASSUME BoundsAssumption == MaxRequests \in Nat \ {0} /\ MaxPeople \in Nat
ASSUME NullsAssumption == NoText \notin Texts /\ None \notin Dates \X Hours

VARIABLES
    date,       \* selectedDate
    grid,       \* availability: the date it is for and the hours shown as free
    loading,
    loads,      \* GET /availability under way: their dates
    form,       \* ReservationForm: selection, fields, loading, created
    input,      \* ParticipantsInput: query, debounce timer, suggestions
    searches,   \* GET /users/search under way
    posts       \* POST /reservations under way

vars == <<date, grid, loading, loads, form, input, searches, posts>>
page == <<date, grid, loading, loads>>
dialog == <<form, input, searches>>

Slots == Dates \X Hours
NoGrid == [date |-> None, free |-> {}]
Grid == [date : Dates, free : SUBSET Hours] \cup {NoGrid}

\* The title is abstracted to the slot of the form it was typed into.
Form == [open : BOOLEAN, slot : Slots \cup {None}, title : Slots \cup {None},
         people : Seq(People \cup Texts), busy : BOOLEAN, created : Slots \cup {None}]
\* A booking, and the date the page will load when it is made.
Post == [slot : Slots, title : Slots, reload : Dates]
Blank == [query |-> NoText, timer |-> FALSE, found |-> <<>>]
Input == [query : Texts \cup {NoText}, timer : BOOLEAN, found : Seq(People)]

Init ==
    /\ date = FirstDate /\ grid = NoGrid
    /\ loading = TRUE /\ loads = <<FirstDate>>
    /\ form = [open |-> FALSE, slot |-> None, title |-> None, people |-> <<>>,
               busy |-> FALSE, created |-> None]
    /\ input = Blank /\ searches = <<>> /\ posts = <<>>

--------------------------------------------------------------------------------
(* Dates and the grid.                                                          *)

\* loadAvailability, up to its await.
StartLoad(d) == loading' = TRUE /\ loads' = Append(loads, d)

\* A click on the strip; the effect loads the date.  The dialog covers the page.
SelectDate(d) ==
    /\ ~form.open /\ d # date /\ Len(loads) < MaxRequests
    /\ date' = d
    /\ StartLoad(d)
    /\ UNCHANGED <<grid, dialog, posts>>

\* Whichever answer comes is shown; the spinner stops with it.
ReceiveAvailability(i) ==
    /\ \E free \in SUBSET Hours : grid' = [date |-> loads[i], free |-> free]
    /\ loading' = FALSE /\ loads' = RemoveAt(loads, i)
    /\ UNCHANGED <<date, dialog, posts>>

LoadFails(i) ==
    /\ grid' = NoGrid
    /\ loading' = FALSE /\ loads' = RemoveAt(loads, i)
    /\ UNCHANGED <<date, dialog, posts>>

--------------------------------------------------------------------------------
(* The form.                                                                    *)

\* Mutant: opening also resets the form's loading flag.
SelectResetsBusy(h) ==
    /\ ~form.open /\ ~loading /\ h \in grid.free
    /\ form' = [open |-> TRUE, slot |-> <<date, h>>, title |-> None, people |-> <<>>,
                busy |-> FALSE, created |-> None]
    /\ UNCHANGED <<page, input, searches, posts>>

\* Mutant: the effect that empties the fields is missing.
SelectKeepsFields(h) ==
    /\ ~form.open /\ ~loading /\ h \in grid.free
    /\ form' = [form EXCEPT !.open = TRUE, !.slot = <<date, h>>, !.created = None]
    /\ UNCHANGED <<page, input, searches, posts>>

\* onSlotSelect takes the selected date, not the grid's; the effect on [open,
\* selection] empties every field and leaves loading alone.
SelectSlot(h) ==
    /\ ~form.open /\ ~loading /\ h \in grid.free
    /\ form' = [open |-> TRUE, slot |-> <<date, h>>, title |-> None, people |-> <<>>,
                busy |-> form.busy, created |-> None]
    /\ UNCHANGED <<page, input, searches, posts>>

\* Escape, the cross or a button, at any time.  The participants input unmounts.
Close ==
    /\ form.open
    /\ form' = [form EXCEPT !.open = FALSE]
    /\ input' = Blank /\ searches' = <<>>
    /\ UNCHANGED <<page, posts>>

Editing == form.open /\ form.created = None

TypeTitle ==
    /\ Editing /\ form.title = None
    /\ form' = [form EXCEPT !.title = form.slot]
    /\ UNCHANGED <<page, input, searches, posts>>

\* The submit button is off while loading; the title is required.  onBooked is the
\* page's callback of this render: it will load the date selected now.
Submit ==
    /\ Editing /\ ~form.busy /\ form.title # None
    /\ form' = [form EXCEPT !.busy = TRUE]
    /\ posts' = Append(posts, [slot |-> form.slot, title |-> form.title, reload |-> date])
    /\ UNCHANGED <<page, input, searches>>

\* The answer goes to whatever the form shows by then; the form unmounts the
\* participants input to report a success.
ReceiveCreated(i) ==
    /\ form' = [form EXCEPT !.created = posts[i].slot, !.busy = FALSE]
    /\ input' = Blank /\ searches' = <<>>
    /\ posts' = RemoveAt(posts, i)
    /\ StartLoad(posts[i].reload)
    /\ UNCHANGED <<date, grid>>

\* Mutant: loading is only reset after a success.
ErrorStaysBusy(i) ==
    /\ posts' = RemoveAt(posts, i)
    /\ UNCHANGED <<page, dialog>>

\* Refused, failed or lost, perhaps after the server has booked: an error.
ReceiveError(i) ==
    /\ form' = [form EXCEPT !.busy = FALSE]
    /\ posts' = RemoveAt(posts, i)
    /\ UNCHANGED <<page, input, searches>>

--------------------------------------------------------------------------------
(* Participants.                                                                *)

\* The effect on query restarts the debounce timer; a search under way goes on.
Query(q) == [query |-> q, timer |-> q # NoText, found |-> IF q = NoText THEN <<>> ELSE input.found]

Type(q) ==
    /\ Editing /\ q # input.query
    /\ input' = Query(q)
    /\ UNCHANGED <<page, form, searches, posts>>

TimerFires ==
    /\ input.timer /\ Len(searches) < MaxRequests
    /\ searches' = Append(searches, input.query)
    /\ input' = [input EXCEPT !.timer = FALSE]
    /\ UNCHANGED <<page, form, posts>>

\* search answers, or fails and lists nobody: also for a text that is gone.
ReceiveFound(i) ==
    /\ \E list \in {Found[searches[i]], <<>>} : input' = [input EXCEPT !.found = list]
    /\ searches' = RemoveAt(searches, i)
    /\ UNCHANGED <<page, form, posts>>

\* Mutant: addUser does not look whom the form has already.
AddUserAgain(u) ==
    /\ Len(form.people) < MaxPeople
    /\ form' = [form EXCEPT !.people = Append(@, u)]
    /\ input' = Blank

\* addUser: somebody who is in already changes nothing.
AddUser(u) ==
    /\ Len(form.people) < MaxPeople /\ ~Contains(form.people, u)
    /\ form' = [form EXCEPT !.people = Append(@, u)]
    /\ input' = Blank

\* Mutant: a blank name is a guest too.
AddBlankGuest(name) ==
    /\ Len(form.people) < MaxPeople
    /\ form' = [form EXCEPT !.people = Append(@, name)]
    /\ input' = Blank

\* addGuest: a blank name changes nothing.
AddGuest(name) ==
    /\ Len(form.people) < MaxPeople /\ name # NoText
    /\ form' = [form EXCEPT !.people = Append(@, name)]
    /\ input' = Blank

\* A click in the list, shown under a text that is not blank.
Pick ==
    /\ Editing /\ input.query # NoText
    /\ AddGuest(input.query) \/ \E k \in DOMAIN input.found : AddUser(input.found[k])
    /\ UNCHANGED <<page, searches, posts>>

\* Enter takes the first suggestion there is, whatever it was found for.
Enter ==
    /\ Editing
    /\ IF input.found # <<>> THEN AddUser(Head(input.found)) ELSE AddGuest(input.query)
    /\ UNCHANGED <<page, searches, posts>>

RemovePerson(i) ==
    /\ Editing
    /\ form' = [form EXCEPT !.people = RemoveAt(@, i)]
    /\ UNCHANGED <<page, input, searches, posts>>

--------------------------------------------------------------------------------

Answer ==
    \/ \E i \in DOMAIN loads : ReceiveAvailability(i) \/ LoadFails(i)
    \/ \E i \in DOMAIN posts : ReceiveCreated(i) \/ ReceiveError(i)

Use ==
    \/ \E d \in Dates : SelectDate(d)
    \/ \E h \in Hours : SelectSlot(h)
    \/ Close \/ TypeTitle \/ Submit
    \/ \E q \in Texts \cup {NoText} : Type(q)
    \/ TimerFires \/ \E i \in DOMAIN searches : ReceiveFound(i)
    \/ Pick \/ Enter \/ \E i \in DOMAIN form.people : RemovePerson(i)

Next == Answer \/ Use

\* The browser settles every request: with an answer or with an error.
Settled == \A i \in 1..MaxRequests :
    /\ WF_vars(i \in DOMAIN loads /\ (ReceiveAvailability(i) \/ LoadFails(i)))
    /\ WF_vars(i \in DOMAIN posts /\ (ReceiveCreated(i) \/ ReceiveError(i)))

Spec == Init /\ [][Next]_vars /\ Settled

--------------------------------------------------------------------------------
(* Properties.                                                                  *)

TypeOK ==
    /\ date \in Dates /\ grid \in Grid /\ loading \in BOOLEAN
    /\ loads \in Seq(Dates) /\ form \in Form /\ input \in Input
    /\ searches \in Seq(Texts) /\ posts \in Seq(Post)

\* The page never has two bookings under way, also when the dialog is closed while
\* one is and opened again for another slot (loading is not reset with the fields).
OnePostInFlight == Len(posts) <= 1 /\ (form.busy <=> posts # <<>>)

\* A booking carries what was typed for its own slot, never what an earlier opening
\* of the dialog left behind, whatever answers come in while it is filled in.
PostOfItsForm == \A i \in DOMAIN posts : posts[i].title = posts[i].slot

\* No account is mentioned twice in a form, although suggestions of an older text
\* arrive late and Enter takes the first of whatever is there.
PeopleOnce ==
    \A j, k \in DOMAIN form.people :
        j # k /\ form.people[j] \in People => form.people[j] # form.people[k]

\* Both spinners stop: the grid's, and the form can be used again after every outcome
\* of a booking, a lost answer included.
SpinnersStop == (loading ~> ~loading) /\ (form.busy ~> ~form.busy)
====
