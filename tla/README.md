# Reservation room: TLA+ specifications

Specifications of the meeting-room reservation system in this repository (a NestJS
backend over SQLite and Prisma, a Next.js frontend), model-checked with TLC and, for
their safety properties, proved with TLAPS. Paths below are relative to the repository;
`backend` stands for `backend/src`, `frontend` for `frontend/src`.

## 1. The system

| Component | State | Operations | Must hold | Modelled in |
|---|---|---|---|---|
| Booking core, `backend/reservations` | rows of `reservations`, `participants` | `create`, `cancel`, `listMine`, calendar export | one active reservation per slot; slots within the rules; references valid; only the owner cancels | `Reservations`, `SlotBook` |
| Admin reservations, `backend/admin/admin-reservations.service.ts` | the same rows | `update` (content, or room/date/hour), `reject`, `remove`, `list` | as above; an ended reservation never holds a slot again; actions are audited | `Reservations`; `list` in `ListPage` |
| Tehran calendar, `backend/common/time` | none | weekday, window, slot hours, past, date strings | both booking paths decide alike; what is checked is what is stored | `TehranTime`, `BookingCalendar` |
| Audit log, `backend/audit` | rows of `audit_logs` | `log`, `list` | tells only what happened | `Reservations` |
| Schema and start-up, `backend/prisma`, `schema.prisma`, `seed.ts` | tables, cascades, unique columns, `uniq_active_slot` | boot, seed | the index is there before a request is; seeding changes nothing that is there | `Reservations`, `Accounts` |
| Accounts, `backend/admin/admin-users.service.ts`, `backend/users`, `backend/auth/auth.service.ts` | rows of `users`: mobile, status, role | `register`, `login`, `approve`, `reject`, `makeAdmin`, `revokeAdmin`, `remove`, `updateProfile` | mobiles unique; nobody gets in undecided; only admins change rights | `Accounts` |
| Tokens, `backend/auth/token.service.ts` | rows of `refresh_tokens`; access tokens that carry only the account | `issueTokens`, `rotate`, `revoke` | a dead token brings nothing back; tokens keep their owner | `Sessions`, `Accounts` |
| Guards, `backend/auth`, `backend/common` | none | on every route: account, approval, role | decide on the row as it is at arrival | `Accounts`, `Reservations` |
| Rooms, `backend/rooms` | rows of `rooms` | `create`, `update`, `ensureExists` | names unique | `Accounts` (names), `Reservations` (open or closed) |
| Availability, `backend/availability` | none | `getAvailability` | what is offered can be booked | `Availability`, `BookingCalendar` |
| Dashboard, `backend/admin/admin-dashboard.service.ts` | none | `get` | the week is the Iranian one | `BookingCalendar`, partly |
| API client and session, `frontend/lib/api.ts`, `auth-context.tsx` | tokens in `localStorage`, the `refreshing` gate, the user shown | `apiFetch`, `tryRefresh`, `loadMe`, login, logout | one refresh at a time; a live session is not lost | `Sessions` |
| Booking page, `frontend/app/(app)/reserve`, `components` | selected date, grid, form, participants input, answers in flight | select, load, submit, search, add | one booking at a time, for the slot it was filled in for | `BookingPage` |
| List pages, `frontend/app/(app)/admin/*`, `my-reservations` | filters, page number, rows, busy row, dialog | filter, page, act, edit | the rows are those of the page and filters named; edits go to their row; spinners end | `ListPage` |
| Jalali dates, `frontend/lib/jalali.ts`, `date-utils.ts` | none | conversion, date strip | agrees with the calendar and with the server | `JalaliDates`, `BookingCalendar` |
| Calendar export, SMS, configuration, markup | none | formatting, a console line, wiring | - | not modelled |

**Interaction.** The browser sends REST requests; a request passes `JwtAuthGuard` (whose
strategy reads the account), `ApprovedGuard` and `RolesGuard` and enters a service method. Service
methods share nothing but the database. Node runs them in one thread and switches
between them at every `await`, in practice at every database call and password hash; SQLite
admits one writer at a time. Removing an account cascades to its reservations and refresh tokens
and sets the participants' and the audit log's references to it to null. The tabs of a browser
share `localStorage` and nothing else; in a tab all requests share one promise while tokens are
refreshed. A page keeps its state in variables that every late answer writes to: no request is
cancelled, and no answer is compared with what was asked last.

**What is hard.** `create` makes up to six database calls and `update` five: whatever one
of them saw may be gone at the next. Two of these calls are in a transaction, the others are not, and the
audit entry comes after the commit. `login`, `register` and `rotate` decide on what they read before a
slow hash or another statement. Requests, removals, midnight, restarts and failing statements
come between any two of them. In the browser, answers overtake each other, get lost, and meet a
page that has moved on. The repository has no tests. Every such
place found is listed, with its line, under `hazards` in `PROJECT.json`, together
with the properties that cover it or the reason why none does.

## 2. Modules

| Module | Models | Lines |
|---|---|---|
| `TehranTime` | `common/time/tehran-time.ts`: days and hours as numbers, `IsAllowedDay`, `IsWithinBookingWindow`, `IsSlotHour`, `IsSlotPast` | 47 |
| `SlotBook` | the abstract specification: a book of slots with the atomic steps `Book`, `Move`, `End` | 37 |
| `Reservations` | the booking core, admin reservations, removal of accounts, switching rooms, audit log, write lock and index; extends `TehranTime`, instantiates `SlotBook` and `Availability` | 504 |
| `Availability` | `getAvailability` with its two queries, the clock, and everybody else as steps of the book; extends `TehranTime`, instantiates `SlotBook` | 149 |
| `Sessions` | the token service, the `/auth` routes, the API client and the auth context in every tab | 382 |
| `Accounts` | registration, sign-in, profile, admin decisions, room names, seed at every start | 335 |
| `JalaliDates` | the conversion of `jalali.ts`, as functions | 76 |
| `BookingCalendar` | a clock that counts days and a page that stays open; date strings on the server, the client's date strip, the dashboard's week; extends `TehranTime` and `JalaliDates` | 189 |
| `BookingPage` | date strip, grid, form and participants input with every request under way | 261 |
| `ListPage` | the lists with their filters, pager, buttons and dialog with every request under way | 257 |
| `MCReservations`, `MCSessions`, `MCAccounts`, `MCCalendar`, `MCBookingPage`, `MCAvailability` | request sets, tabs, first day, search results, symmetry for TLC | |
| `ReservationsProofs` | inductive invariants, safety theorems and the refinement of `SlotBook` | |
| `AvailabilityProofs`, `SessionsProofs`, `AccountsProofs`, `BookingPageProofs`, `ListPageProofs`, `CalendarProofs` | the safety theorems of their modules | |
| `SequenceLemmas` | what is left of a queue of requests when one is answered or made | |

### `Reservations`

The state is the tables (`users`, `open` for `rooms.isActive`, `res` with its
participants, `audit`), the clock `now`, the owner `tx` of the database's write lock and,
for each handler, `call`: the step it is at and what it remembers across awaits. `id` is the
row it works on, `goal` the slot it will write. One action is what a
handler does around one database call:

| Step | Actions | Code |
|---|---|---|
| arrival: guards and the checks before the first await | `ReceiveCreate`, `ReceiveOnRow`, `ReceiveRemoveUser`, `ReceiveSetRoom` | `reservations.service.ts` 59-79; `jwt.strategy.ts`, guards; `admin-users.service.ts` 90-93 |
| `read` | `ReadReservation`, `FindUser` | `findUnique` of `cancel` 192, `update` 93, `reject` 180, `remove` 199; `getOrThrow` |
| `room`, `people` | `FindRoom`, `BuildParticipants` | 81-86, 150-178; `admin-reservations.service.ts` 137 |
| `begin`, `clash` | `BeginTransaction`, `FindClash` | 93-106; 142-154 |
| `write` | `CreateRow`, `RescheduleRow`, `UpdateStatus`, `EditRow`, `DeleteUser`, `SetRoomActive` | 108-131; 156-167; 205, 183, 203; 107; `user.delete`; `room.update` |
| `audit` | `LogAudit` | `audit.service.ts` 17-32 |
| any | `WaitTimeout`, `DatabaseError`, `Restart`, `Tick` | Prisma, SQLite, the process, the clock |

A handler that returns or throws goes back to `idle` (`Answer`), which also ends its
transaction. `UpdateStatus` does not look at the row's status because the code's
`update` by primary key does not. `RescheduleRow` accepts rows of any status, as
`update` does. The foreign keys are in `CreateRow` (P2003), the missing row of an update or delete
(P2025) in the writing actions, the cascades in `DeleteUser`.

Three constants say which mechanisms are there. `SerialTx`: an interactive transaction
owns the write lock from its beginning, as the comment in `create` says of SQLite.
`UniqueIndex`: `uniq_active_slot` exists. The deployment has both. The contention runs keep one each,
so that each layer is shown to suffice alone; the theorems assume only that one of them is
there. `Faults`: statements may fail and the process may restart.

Abstractions:
- Titles, descriptions, head counts, guest names and message texts are left out. Of the
  participants only the accounts are kept, `NoUser` standing for a reference set to null.
- A date is a day number and an instant the number of hours since day 0. Asia/Tehran
  has had one UTC offset since 2022; slots start on the full hour and every decision is
  taken on days and on slot starts, so minutes decide nothing. Date strings are in `BookingCalendar`.
- The accounts are approved and their roles fixed; removal is the only change (the others are in
  `Accounts`). A reservation key is allocated when the request arrives. The uuid is new either way,
  no other handler can use it before the row exists.
- Audit entries are a set; the action is named by the kind of request.
- `GET` handlers change nothing and are not actions.

### `Sessions`

| Code | Actions |
|---|---|
| `apiFetch`, first attempt (`api.ts`) | `StartUse`, `ReceiveData`, `Receive401` (join the refresh, start one, or give up) |
| `tryRefresh` and the gate `refreshing` | `Refreshed`, `RefreshRefused`; the second attempt is `ReceiveData` or `Receive401Again` |
| `AuthProvider` (`auth-context.tsx`) | `LoadMe`, `StartLogin`, `ReceiveLogin`, `StartLogout`, `ReceiveLogout` |
| `token.service.ts`: `rotate` between its awaits | `FindToken`, `RevokeOld`, `IssueNew` |
| `auth.controller.ts`: login, logout | `HandleLogin`, `HandleLogout` |
| time | `AccessExpires`, `RefreshExpires` |
| faults | `ServerFails`, `ConnectionLost`, `Reload` |

`pair[p]` is a `refresh_tokens` row together with the access token signed with it; `stored` is what
`localStorage` of a browser holds, `gate` the variable `refreshing` of a tab: null, a pending promise
or a rejected one. A call has a client's side (`pc`) and a server's side (`srv`), because the handler runs on
when the tab no longer listens. `IssueNew` also reads the account back (`auth.service.ts:86`), which may fail after the pair was issued. `lost` is a history variable. Whether a login succeeds is a
choice here and decided in `Accounts`; likewise a token loses its account only there.

### `Accounts`

Each request is a handler with the steps `find` (what it reads) and `write` (what it writes, one await or
one password hash later): `FindMobile` and then `CreateAccount` or `IssueTokens`; `FindAccount` and then
`UpdateAccount` (`approve`, `reject`, `makeAdmin`, `revokeAdmin`), `DeleteAccount` or `UpdateProfile`;
`FindName` and `WriteRoom`. The guards are `Passes`, evaluated once at arrival; the call keeps the `role` its sender had then. `Restart` runs the seed, as
`docker-entrypoint.sh` does before the server starts. Of the refresh tokens only their owners are kept,
of a name whether trimming changes it. `bearers` is history: who was ever given an access token.
An account removed is `gone`; its key is never used again. The audit entry that follows is in
`Reservations`.

### `JalaliDates` and `BookingCalendar`

`JalaliDates` translates the conversion function by function; its loop over the breaks
is a recursive function, `Div` and `Mod` cut towards zero as `~~` and `%` do. `BookingCalendar` has two
actions. `Midnight` counts today on in three ways that know nothing of the conversion:
as a number, as a Gregorian date by month lengths, as a Jalali date by month lengths and the
33-year cycle. `OpenPage` mounts the booking page, which then keeps the strip of that day (`opened`) over the midnights that follow, as
`useMemo` does. The operators of both sides are evaluated at each day: the client's strip (`DateOptions`, `StripDays` = 14 because
`reserve/page.tsx:22` passes a literal), the dashboard's week, and the two parsers of date strings, each by its own rules:
- `TehranDate` is what dayjs makes of the three fields: with a format it fills in a field that is 0 (today's
  year; the first month and day, or today's where the fields before are 0 as well) and passes the rest to `Date.UTC`, which reads two-digit years as 19yy
  and counts months and days that there are not on from the year and month named.
- `PrismaDateOnly` is what `new Date` makes of the ISO string: months 1 to 12 and days 1 to 31 only, the days rolling over
  into the next month (`Rollover`), everything else an Invalid Date (`NoDate`), with which the request fails.

These are the rules of ECMAScript and of the locked dayjs version's `utc`, `timezone` and `customParseFormat` code paths, as the project uses them;
both are external to the repository.

The constants say where the count begins, as one day in three notations, and where it stops; both lie between two breaks
of `jalCal`'s table, in the years 1210 to 1633 (1831 to 2255), because the cycle of 33 years counts in them without a break.

### `BookingPage`

One action per event: clicks (`SelectDate`, `SelectSlot`, `Close`, `Submit`, `Pick`, `RemovePerson`), typing
(`TypeTitle`, `Type`, `Enter`), the debounce timer (`TimerFires`) and each answer or failure (`ReceiveAvailability`,
`LoadFails`, `ReceiveCreated`, `ReceiveError`, `ReceiveFound`). `loads`, `searches` and `posts` are the requests
under way, answered in any order. A render's closure is kept where the code keeps one: a post carries the date
that `onBooked` will reload. The title stands for all fields of the form and is abstracted to the slot of the
opening it was typed in. The server is any: a load may find any hours free, a booking may be made, refused or lost.

### `Availability`

One request for availability goes through `Receive` (the checks, before the first await), `FindRooms` and `FindReservations`
(which also reads the clock and gives every slot its status); `ask` holds what it has read by then. Everything else that can happen is
one step each: `Take` and `Release` are the steps of `SlotBook`, `SetRoom` switches a room, `Tick` moves the clock. That the handlers of
`Reservations` take no other steps is `ActsAsOthers` there: it instantiates `Availability` with no request (`Readers <- {}`) and the
book mapped to the tables. The slots are `buildSlots`' own here and what `create` and `update` let through there, so it also says that the two agree.
`Accepted` is what `create` checks of a slot. `news` is a history variable: the slots that were
taken, whose room was switched or that started since the request came.

### `ListPage`

The definitions translate the admins' reservations page, which has everything: filters and pager
(`ApplyFilters`, `NextPage`, `PreviousPage`), buttons on rows (`StartAct`, `ActDone`, `ActFails`), a dialog (`OpenEdit`,
`CloseEdit`, `StartSave`, `SaveDone`, `SaveFails`) and the load they all end in (`ReceiveList`, `ListFails`). The
pages of users, rooms and a user's own reservations repeat load and act. What a filter selects is any
subset of the rows (`Lists`), because others change them at any moment; the server's `skip` and `take` are
`PageOf`. `view` is the page number and the filters applied, from which `load` is memoised (`ChangeView`). Each request
carries the view of the render it belongs to, `list.view` is the one whose answer is shown. `upset` is a history variable:
a load has failed, or a request of an earlier view was under way when the view changed, and no answer for the current view
has come since with none of these left.

## 3. Properties

Each module has one type invariant. Beside it:

`Reservations`
- `NoDoubleBooking`: two active reservations never have the same slot.
- `ClashCheckHolds`: where transactions own the lock, a handler about to write still finds its slot free.
- `ReferencesExist`: owner and participants of a stored reservation exist, although they were
  looked up several awaits before the insert.
- `StoredSlotsBookable`: every stored slot obeys weekday, hours and window, partial reschedules
  included.
- `AuditSound`: the audit log never tells of something that did not happen or was undone.
- `ImplementsSlotBook`: every step of the handlers books, moves or ends atomically or changes nothing in
  the abstract book. An ended reservation never holds a slot again.
- `ActsAsOthers`: every step, of clock and rooms too, is one of the others' steps of `Availability`; above all, no reservation
  holds a slot that `buildSlots` does not offer.
- `EventuallyAnswered`, `LockReleased`: every request is answered and nobody keeps the write lock.
- `CancelledBeforeStart`, `AdminActionsAudited`, `ReschedulesAreWhole`: what the
  documentation says and the code does not do, see section 5.

`Availability`
- `OfferHolds`: a slot that is offered would be accepted until something happens to it. Window, rooms, reservations and
  clock are read at four moments, and no midnight, booking or closing between them spoils an offer unnoticed.

`Sessions`
- `OneRefreshPerTab`: however many calls meet an expired access token, a tab has one refresh under way, a
  pending gate has someone who will open it, and nobody waits at a gate that nobody opens.
- `RotationSound`: an exchanged token is dead before its successor exists, whatever fails in between, and
  the successor has the same owner.
- `NoReplay`: a request that carries a dead token never brings tokens back, however long it is under way.
- `StoredTokenUsable`: a browser keeps a revoked token only if an answer was lost, or while a call in it is about to replace it.

`Accounts`
- `MobilesUnique`, `RoomNamesDistinct`: over checks that are an await or a hash older than the write.
- `PendingKeptOut`: an account no admin has decided on was never given tokens, whatever was removed and
  registered again under its mobile while a login compared passwords.
- `TokensHaveAccounts`: no refresh token outlives its account.
- `RightsFromAdmins`: role and status of an existing account change only to what a request on that account asks for, sent by
  someone who was an admin when the guards looked, whoever lost which role in between.

`BookingCalendar`
- `JalaliCountsDays`: the conversion agrees with counting, in both directions.
- `CheckedDayIsStored`: the day dayjs checks is the day Date stores, or nothing is stored, for all strings the shape lets through
  from the year 100 on: day 31 of a short month, days 00 and 32 to 99, months 00 and 13 to 99 included.
- `StripMatchesServer`: of the fifteen days a page offers, the server refuses only those that have passed while it was open or that lie
  beyond the configured window; each is labelled with its own Jalali date and the page opens on the next working day.
- `WeekIsIranian`: the dashboard's week is seven days from a Saturday and the same for each of them.

`BookingPage`
- `OnePostInFlight`: never two bookings under way, also over closing and opening the dialog.
- `PostOfItsForm`: a booking carries what was typed for its own slot.
- `PeopleOnce`: no account twice in a form, although stale suggestions arrive.
- `SpinnersStop`: grid and form become usable again after every outcome.

`ListPage`
- `PageAsNumbered`: the rows shown are those of the page and the filters named, whatever overtakes what, unless `upset`. It says
  exactly when a late reload can show another page's rows: only one sent before the page was turned or filtered.
- `SpinnersHaveWork`: no spinner without a load or an act behind it.
- `OneSaveInFlight`: one edit at a time, from the click to the end of its reload.
- `SaveOfItsRow`: an edit goes to the row whose fields it holds.

## 4. Runs

| Run | Instance | Result |
|---|---|---|
| `lifecycle` | lock, index and faults; 1 reservation, an account and an admin, 2 handlers, all twelve requests | `TypeOK`, `ReferencesExist`, `StoredSlotsBookable`, `AuditSound`, `ActsAsOthers` hold; every action fires |
| `contention_index` | no lock, index; 3 reservations, 2 slots, 2 handlers | `NoDoubleBooking`, `ImplementsSlotBook` hold |
| `contention_lock` | lock, no index, faults; 2 reservations, 1 slot, 2 handlers, fairness | `NoDoubleBooking`, `ClashCheckHolds`, `EventuallyAnswered`, `LockReleased` hold |
| `availability` | 2 rooms of 2 hours on 3 days, 2 reservations, 1 request, 4 instants | `TypeOK`, `OfferHolds` hold |
| `sessions` | 1 browser, 2 tabs, 3 calls, 2 pairs, 1 fault | the type invariant and the four properties hold |
| `accounts` | 2 handlers, 3 accounts, 2 mobiles, 2 rooms, 3 names, failures, restarts | the type invariant and the five properties hold |
| `calendar` | every day of 44 years from Nowruz 1398, a page opened that day or the day before, 108 date strings a day | the four properties hold |
| `booking_page` | 2 dates, 1 hour, 2 people, 2 texts, 2 loads and 2 searches under way, 2 participants | the type invariant and the four properties hold |
| `list_page` | 2 rows, 1 to a page, 2 filters, 3 requests under way | the type invariant and the four properties hold |
| `cancel_rule` | as `lifecycle` without faults | `CancelledBeforeStart` is violated |
| `admin_audit` | two admins | `AdminActionsAudited` is violated |
| `partial_reschedule` | two admins, two requests that each name one part | `ReschedulesAreWhole` is violated |

**Bounds.** The safety properties marked in section 6 are proved for every size; for them the runs
guard the formulas and the mutants. Per run:

- `lifecycle`: each property speaks of one reservation or one audit entry, so one
  row is enough. One request asks for the closing hour. The row goes through every status, with an owner, a participant and
  an admin who can remove the owner, and with two handlers there is always one between any two steps of
  the other.
- `contention_index` has three reservations so that one can be cancelled while two others
  compete, and two slots so that they can be moved past each other. With the index alone there is
  no step a third handler could be needed for: the index decides in one step. In
  `contention_lock` one handler holds the lock and the other waits; `RemoveUser` and
  `cancel` are the writers that wait without a transaction.
- Instants of these runs are chosen for what they
  decide: instant 7 lies before every slot and the window ends with day 1, at instant 32 the eight o'clock slot
  of day 1 has just started and day 2 has become bookable. Day 0 is a closed weekday. The key bound (`ResIds`) only stops
  `create` when all keys are used. Keys are never reused, which is what a uuid does.
- `availability`: one request is enough, requests do not meet. Day 2 is a closed weekday, days 0 and 1 are not. From instant 7 to 32 the window moves by a
  day, the first slot of day 1 starts and day 2 enters the window but stays closed; two reservations can move onto and off a slot between the queries.
- `sessions`: tab `t1` has two calls, so that one waits for the refresh of the other; `t2` shares the
  stored tokens but not the gate. With two pairs a login and one exchange, or two logins, can happen. Two exchanges
  of one token need a third pair: in this run the second one ends in `ServerFails`, which stands for
  "the bound leaves no pair". A pair that was issued when its answer failed is one of the two. Three pairs take TLC longer than minutes; the theorems of `SessionsProofs`
  cover every `MaxPairs`. One fault is enough for each property: none speaks of two losses.
  `May` narrows who logs in and out to one call of `t1`.
- `accounts`: the seeded admin, a second account that goes through every decision and can be an admin too,
  and a third key so that the second's mobile is registered again. Each room name is one that
  is stored as sent, one that differs from it in blanks, or another one.
- `calendar`: from 1398 to 1441 each calendar has eleven leap years, and twice there are five years between two
  Jalali ones; `FirstWeekday` is that of Julian day 0. The theorems cover every first and last day from 1210 to 1633.
  Of the date strings it takes this year and the last, months 0, 1, 2, 6, 12, 13 and days 0, 1, 29 to 32
  (`YearOffsets`, `MonthFields`, `DayFields`): each rule of either parser, ends of months and both ends of the year. `MaxNights` = 1:
  each further midnight does to a strip what the first did. The theorems take all two-digit fields, all offsets and any number of
  midnights. The run stops at the last day, so deadlock is not checked in it.
- `booking_page`: two loads under way are enough to arrive in the wrong order, two texts for a stale search; dates and
  hours are interchangeable, two dates tell the selected one from another. `MaxRequests` bounds what the user starts,
  never what a finished booking starts.
- `list_page`: two rows on pages of one give two pages, full or empty, and rows of different loads to act on; two filters tell the
  ones applied from others. `MaxRequests` = 3 lets two acts, saves or loads of different views overlap with a third and with the reloads
  they end in; a reload takes the place of the act or save behind it.

Deadlock is checked in every other run: an idle handler can always take another request, an admin is never
removed by themself, and a page can always be used.
Symmetry over keys and handlers is used in runs without liveness.

**Fairness.** `FairSpec` of `Reservations` asks for weak fairness of `Advance`, one handler's own next step: a
handler whose database call has returned is run by the event loop, and Prisma answers
each call or gives up on it (`maxWait` of a transaction, SQLite's busy timeout, as `WaitTimeout`).
Without the timeouts `EventuallyAnswered` fails: a write waits for a lock others can take again
and again. No arrival, fault, restart or tick is assumed fair. `Settled` of `BookingPage` says that
the browser settles every `fetch`, with an answer or an error, position by position in the queue; nothing the user does
is assumed, nor that the debounce timer fires or a search returns.

**Mutants.** For each property of a passing run the model holds a broken variant of one
definition (marked `Mutant`): the index not created, a deferred `BEGIN`, a dropped clash
check, a refusal that leaves the transaction open, a forgotten ownership check, no foreign
keys, a new token stored before the old is revoked, a gate left with its result, a profile written back
as it was read, a role that is not looked at, a clamped date, a load called before the page number changed, a loading flag reset only after a success and so on. Each makes its property fail.

## 5. Where code and documentation differ

1. A meeting that has started can be cancelled. `cancel` reads the clock at line 201 and writes
   one await later (`README.md:91`, run `cancel_rule`).
2. A rejection may leave no audit entry: it is written after the commit and its failure is
   swallowed (`README.md:92`, run `admin_audit`).
3. `update` claims to require room, date and hour together but fills missing ones in
   from a row read before the transaction, so that two admins undo each other's moves
   (`update-reservation.dto.ts:30`, run `partial_reschedule`).

A fourth needs no run: a participant whose account is removed has neither account nor name (`DeleteUser` of `Reservations`,
`onDelete: SetNull` in `schema.prisma`), where `docs/ARCHITECTURE.md:25` says that each has one of the two.

So do three of the calendar, which each follow from an operator alone:
- `isValidDateStr` accepts strings that are no dates (day 31 of a short month, days 00 and 32 to 99, months 00 and 13 to 99), where its comment
  says that it validates "that it is a real date" (`tehran-time.ts:57`): dayjs finds a day for each of them. Day 31 of a short month is booked as the
  day it rolls over to; for the others `new Date` is invalid and the request ends in an error of the database client instead of a refusal.
- A year before 100 is read by dayjs as this year (0000) or as 19yy and by `Date` as itself, so that `0000` with today's month and day passes the window and is
  stored under another day than was checked, where `tehran-time.ts:90` says that "using the same helper everywhere guarantees writes and reads line up".
  `CheckedDayIsStored` leaves these years out.
- The strip of the client reaches 14 days ahead by a literal (`reserve/page.tsx:22`), where `.env.example:25` says of `BOOKING_MAX_DAYS_AHEAD` that booking rules
  "can be tuned without code changes". With a shorter window the page offers days the server refuses, with a longer one it does not offer all.

Behaviour of the models that a reader may not expect, which no document rules out and no property
states:

- *Sessions.* The answer to a refresh that arrives after the user signed out stores tokens again. The tab that
  loses the race for a refresh token clears the tokens the winner has just stored. A refresh whose
  `fetch` rejects leaves the gate shut until the page is loaded again (`api.ts:63`). Any answer to a refresh but 2xx, a 500 included,
  clears the session. One refresh token may be exchanged twice, `rotate` does not look at `revoked` when it writes.
- *Accounts.* Two admins can revoke each other and leave none until a restart seeds. The guards decide once,
  so that a request outlives the right it came with. A login that overlaps with a rejection succeeds; the guards then refuse it.
- *Reservations.* A room can be closed between the lookup and the insert. Rejecting a removed reservation brings it
  back as a cancelled one.
- *Calendar.* The strip is computed once per mount: a page left open over midnight still offers yesterday, which the server refuses.
- *Booking page.* The grid may be that of an earlier date than the one selected, and `onSlotSelect` takes the selected one. Success or
  error of a booking is shown in whatever form is open by then. Enter adds the first suggestion whatever text it was found for.
- *List pages.* A second act frees the button of the first row. A reload sent before the page was turned may bring the rows of the older view and stay (`upset`). A save
  closes whatever dialog is open. Two admins who edit one row overwrite each other.

## 6. Proofs

The theorems hold for all values of the constants that satisfy the assumptions named in the modules:
any number of accounts, rooms, slots, reservations, handlers, requests, browsers, tabs, calls, tokens, faults,
rows. `DefenceAssumption` says that the write lock or the unique index is there, `TrimAssumption` that trimming a
trimmed name changes nothing, `SeedAssumption` that the seeded names are trimmed, `TextsAssumption` that a typed text is not an account. Of the calendar, `FirstDayAssumption` says that the first day is
one day counted three ways, `LastDayAssumption` that the last one has its strip in the year 1633 at the latest,
`FieldsAssumption` that months and days of a date string are two digits. The others
type the constants and set the null values apart from the values.

| Theorem | States |
|---|---|
| `ReservationsProofs`: `TypeCorrect`, `SlotsStayBookable`, `SlotsExclusive`, `ClashCheckSuffices`, `ReferencesStayValid`, `AuditLogSound` | `TypeOK`, `StoredSlotsBookable`, `NoDoubleBooking`, `ClashCheckHolds`, `ReferencesExist`, `AuditSound` |
| `ReservationsProofs`: `ReservationsImplementSlotBook`, `ReservationsActAsOthers` | `Spec => ImplementsSlotBook`, `Spec => ActsAsOthers` |
| `AvailabilityProofs`: `TypesHold`, `OffersStayGood` | all properties of `Availability` |
| `SessionsProofs`: `TypesHold`, `OneRefreshHolds`, `RotationStaysSound`, `ReplayFails`, `StoredTokenStaysUsable` | all properties of `Sessions` |
| `AccountsProofs`: `TypesHold`, `MobilesStayUnique`, `PendingStaysOut`, `TokensStayOwned`, `RoomNamesStayDistinct`, `RightsComeFromAdmins` | all properties of `Accounts`; the last is an action property |
| `BookingPageProofs`: `PageTypes`, `OnePost`, `PostsFit`, `PeopleStayOnce` | all safety properties of `BookingPage` |
| `ListPageProofs`: `PageTypes`, `PageStaysAsNumbered`, `SpinnersStayHonest`, `OneSave`, `SavesFit` | all properties of `ListPage` |
| `CalendarProofs`: `JalaliStaysCounted`, `CheckedDayStays`, `StripStaysMatched`, `WeekStaysIranian` | all properties of `BookingCalendar` |

**Reservations.** `TypeInv` is `TypeOK` in a form that also says, per step of a handler, which fields of its call are set, and that each
slot asked for or stored `Fits`; `FitsLater` shows that time does not undo a check of the window.
`BookingInv == TypeInv /\ LockInv /\ ClashCheckHolds /\ NoDoubleBooking`. `NoDoubleBooking` alone is
not inductive: a handler about to write would not know that its slot is free. With the index, the write
itself finds out. Without it the handler relies on its clash check, which is `ClashCheckHolds`; that stays true
only because no other handler can write in between, which is `LockInv` (who is between check and
write owns the lock). `ClaimsOrVacates` sorts all steps into those that put one reservation into
its slot and those that put none, so that each of the three conjuncts is argued once, not per
action. `ReferencesExist` is inductive with `TypeInv`; the work is in the cascade of `DeleteUser`.
`AuditSound` needs two things it does not say: what an entry will claim already holds
while its handler is still waiting to write it, and rows and accounts only go forward
(`Forward`: no row becomes active again, none changes its owner, no account comes
back). `FreshKeys` is the reason for the first of these: two creates never share a key. For the refinement each
step of `Next` maps to `Book`, `Move`, `End` or a stutter. For `ActsAsOthers` each of these, a `Tick` and a switched room map to a step of
`Availability`; that the slot is one of its slots is `HeldIsOffered`, from `StoredSlotsBookable` after the step.

**Availability.** `OfferHolds` speaks of offers only. What makes it inductive is what a request under way may still rely on: the rooms read are open but for news (`RoomsHold`),
and a window check that passed is worth its upper end for ever, because the window's end only grows (`WindowHolds`). The lower end
needs no invariant: a slot that has not started is on a day that is not over (`AheadInWindow`). `OthersStep` treats all that others do
at once: whatever they change, they change for slots they note.

**Sessions.** `IInv == TypeOK /\ OneRefreshPerTab /\ Tokens`. `StoredTokenUsable` needs to know where a token
can be: a pair on its way to a tab is known to nobody else (`GotFresh`), a refresh token stays within one browser
(`OneHome`), and a handler whose tab is gone has lost its answer or is a logout that has cleared the storage (`OrphansOK`). `CallsOK` says what
both sides of a call know at each point, `StoredIssued` and `ParentsOK` tie tokens to pairs that were issued. `OneRefreshPerTab` is
inductive with the types.

**Accounts.** `IInv` adds to the properties that a handler about to write has found its account (`CallsOK`), that whoever was given a token
was decided on (`BearersDecided`, of which `PendingKeptOut` is a consequence: `Decided` is never undone) and that stored names are
trimmed and unique (`RoomsTrimmed`, `UniqueNames`). `RightsFromAdmins` follows from `CallsOK`: a handler with an admin's request was let in
for the role its sender had at arrival, and writes to the account it was asked about.

**Pages.** `BookingPageProofs` adds `FormsFit`: an open form has a slot, its title was typed into this opening, the debounce timer runs for a
text. `ListPageProofs` states the count of `OneSaveInFlight` as `SaveOrItsLoad` (an edit or the one load behind it) and adds
`TextFits` (the dialog's fields are its row's). Both use `SequenceLemmas` for the requests under way: an answer removes one and moves the
later ones up.

`PageAsNumbered` is strengthened to `ThisView`: unless upset, every load, act and save under way is of the view on the screen, so that the reloads
acts and saves end in are of it too, and a load is under way or the answer shown is one for it. `ToViews` sorts the actions that change the
view and shows that the pager stays on pages there can be.

**Calendar.** `IInv` says that the state is one day counted three ways: `jdn` is the `DayNumber` of `date` and the
`JalaliDayNumber` of `jalali`, both are dates of their calendars, and `opened` is a day not after today with its own date. That midnight keeps it, and that the properties
follow from it, are facts about the arithmetic of the code:
- *Gregorian.* `g2d` has a closed form that counts from March (`G2DForm`), which grows by one with `NextDate`
  (`NextDateCounts`). A day its month does not have keeps its number when it rolls over (`RolloverKeepsDay`); so
  the day of the two parsers is the same wherever both find one (`TehranDateForm`, `CheckedDay`). `d2g` takes
  `g2d` back: its first line finds the century (`CenturyOf`), then year and day of the year, its third the month (`MonthOf`); `D2GOfDay`.
- *Jalali.* `jalCal` between two breaks is a closed form (`JalCalForm`), for which `LeapsBefore` is evaluated break by break
  (`LeapsCounted`). The century terms of `jalCal` and of `g2d` cancel, so that the first day of a year is a line plus leap years
  (`NowruzForm`) and years follow each other by the cycle of 33 (`NowruzStep`); hence `NextJalaliCounts`.
- *Between them.* Linear bounds of both counts place each Nowruz in its Gregorian year (`TwoYears`), so `d2j` looks
  at the right one and takes `j2d` back (`D2JOfDay`), the leap day before the new year being its `leap = 1` (`LastYearLeap`). With
  that `ConversionIsRight`: `toJalaali` of a date is the Jalali date of the same number.

`CheckedDayIsStored` and `StripMatchesServer` follow for each string and each option, without counting through the strip.

Only model-checked: `EventuallyAnswered`, `LockReleased` and `SpinnersStop`, liveness under fairness, which needs ENABLED. All other
properties of the passing runs are theorems.

## 7. Not modelled

- Calendar export and its links (`backend/calendar`): text layout without state. SMS: a console
  line whose failure is caught. Configuration, wiring, health: constant. Markup, styling, redirects, Persian digits and
  names of months: presentation.
- The dashboard's week is in `BookingCalendar`; its counts are single reads. One of them is odd: occupied rooms
  include closed ones, free rooms are the open ones less the occupied.
- Of the list pages the dialog for a new room and the values of filters and fields are left out; the profile and registration forms
  send one request and keep no state beyond it.
- Password hashes and the signatures of tokens: a credential is right or wrong. Profile names, descriptions of rooms and fields without
  a rule are not kept.
- Time zones other than Tehran's in a browser: its today differs from the server's around midnight.
