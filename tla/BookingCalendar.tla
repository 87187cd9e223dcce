---- MODULE BookingCalendar ----
(* The calendars of the system against a plain count of days: the Gregorian     *)
(* dates both sides exchange, the Jalali dates on the screen, the weekdays and   *)
(* the booking window of client and server, the Iranian week of the dashboard.  *)
(* The state is today, counted three ways, and the day the booking page on the   *)
(* screen was opened, whose date strip it keeps.                                *)
EXTENDS TehranTime, JalaliDates

CONSTANTS
    FirstDay,       \* the day the count begins: its number and its two dates
    LastDay,        \* bounds the count
    MaxNights,      \* bounds how many midnights a page stays open
    \* The date strings looked at: their years from this one on, months and days.
    YearOffsets, MonthFields, DayFields

VARIABLES
    jdn,            \* today as the number of a day
    date,           \* today's Gregorian date, in Tehran
    jalali,         \* today's Jalali date
    opened          \* the day the page was opened: its number and its date

vars == <<jdn, date, jalali, opened>>

--------------------------------------------------------------------------------
(* Counting days.                                                               *)

IsLeap(y) == (y % 4 = 0 /\ y % 100 # 0) \/ y % 400 = 0
DaysIn(y, m) == IF m = 2 THEN (IF IsLeap(y) THEN 29 ELSE 28) ELSE IF m \in {4, 6, 9, 11} THEN 30 ELSE 31

\* The Solar Hijri leap years of the years counted here, eight in 33.
IsJalaliLeap(y) == y % 33 \in {1, 5, 9, 13, 17, 22, 26, 30}
JalaliDaysIn(y, m) == IF m <= 6 THEN 31 ELSE IF m <= 11 \/ IsJalaliLeap(y) THEN 30 ELSE 29

After(t, last) ==
    IF t.d < last THEN Day(t.y, t.m, t.d + 1)
    ELSE IF t.m < 12 THEN Day(t.y, t.m + 1, 1) ELSE Day(t.y + 1, 1, 1)
NextDate(t) == After(t, DaysIn(t.y, t.m))
NextJalali(t) == After(t, JalaliDaysIn(t.y, t.m))

DayNumber(s) == G2D(s.y, s.m, s.d)
JalaliDayNumber(t) == J2D(t.y, t.m, t.d)

\* The years from one break of jalCal's table to the next, the year 2255.
Years == 1210..1634

IsDate(t) == t \in [y : Nat, m : 1..12, d : 1..31] /\ t.d <= DaysIn(t.y, t.m)
IsJalaliDate(t) == t \in [y : Years, m : 1..12, d : 1..31] /\ t.d <= JalaliDaysIn(t.y, t.m)

\* The first day is one day, counted three ways.
ASSUME FirstDayAssumption ==
    /\ FirstDay.jdn \in Nat
    /\ IsDate(FirstDay.date) /\ DayNumber(FirstDay.date) = FirstDay.jdn
    /\ IsJalaliDate(FirstDay.jalali) /\ JalaliDayNumber(FirstDay.jalali) = FirstDay.jdn

\* reserve/page.tsx asks for a strip of so many days, whatever the server's window.
StripDays == 14

\* The last day has its whole strip in the years counted.
ASSUME LastDayAssumption ==
    LastDay \in Nat /\ FirstDay.jdn <= LastDay /\ LastDay + StripDays < J2D(1634, 1, 1)

ASSUME NightsAssumption == MaxNights \in Nat

\* The strings have the shape \d{4}-\d{2}-\d{2}.
ASSUME FieldsAssumption == YearOffsets \subseteq Int /\ MonthFields \subseteq 0..99 /\ DayFields \subseteq 0..99

Init ==
    /\ jdn = FirstDay.jdn /\ date = FirstDay.date /\ jalali = FirstDay.jalali
    /\ opened = [jdn |-> FirstDay.jdn, date |-> FirstDay.date]

\* The page keeps its strip as long as it stays open (useMemo without dependencies).
Midnight ==
    /\ jdn < LastDay /\ jdn < opened.jdn + MaxNights
    /\ jdn' = jdn + 1
    /\ date' = NextDate(date)
    /\ jalali' = NextJalali(jalali)
    /\ UNCHANGED opened

OpenPage ==
    /\ opened' = [jdn |-> jdn, date |-> date]
    /\ UNCHANGED <<jdn, date, jalali>>

Next == Midnight \/ OpenPage

Spec == Init /\ [][Next]_vars

--------------------------------------------------------------------------------
(* Date strings on the server (tehran-time.ts).                                 *)

\* Each field of a string is any number of its width: isValidDateStr asks for the shape
\* only, since dayjs calls none of them invalid.
DateStrings ==
    {Day(y, m, d) : y \in {0} \cup {date.y + k : k \in YearOffsets}, m \in MonthFields, d \in DayFields}

\* tehranDate (and isSlotPast): dayjs.tz with a format fills in a field that is 0, the
\* year with this one, month and day with the first or, where the fields before are 0
\* as well, with today's; Date.UTC reads a year of two digits as one of the 1900s and
\* counts days and months that there are not on from the month and year named.
TehranDate(s) ==
    LET y == IF s.y = 0 THEN date.y ELSE IF s.y < 100 THEN 1900 + s.y ELSE s.y
        m == IF s.m > 0 THEN s.m ELSE IF s.y = 0 THEN date.m ELSE 1
        d == IF s.d > 0 THEN s.d ELSE IF s.y = 0 /\ s.m = 0 THEN date.d ELSE 1
    IN G2D(y + ((m - 1) \div 12), ((m - 1) % 12) + 1, 1) + d - 1

\* A day past the end of its month, as the day of the next month it stands for.
Rollover(s) ==
    LET len == DaysIn(s.y, s.m)
    IN IF s.d <= len THEN s
       ELSE IF s.m < 12 THEN Day(s.y, s.m + 1, s.d - len) ELSE Day(s.y + 1, 1, s.d - len)

\* An Invalid Date, which Prisma does not take: the request fails and nothing is stored.
NoDate == Day(0, 0, 0)

\* Mutant: a parser that stops at the end of the month.
ClampedDate(s) ==
    IF s.m \in 1..12 /\ s.d \in 1..31
    THEN [s EXCEPT !.d = IF @ > DaysIn(s.y, s.m) THEN DaysIn(s.y, s.m) ELSE @]
    ELSE NoDate

\* What create stores for a date string: new Date of an ISO string refuses months from
\* 13 and days from 32 on, and 0, and lets the 31st of a shorter month roll over.
PrismaDateOnly(s) == IF s.m \in 1..12 /\ s.d \in 1..31 THEN Rollover(s) ELSE NoDate

\* The checks of create and getAvailability on a date string.
Accepts(s) == IsAllowedDay(TehranDate(s)) /\ IsWithinBookingWindow(TehranDate(s), jdn * HoursPerDay)

--------------------------------------------------------------------------------
(* The date strip of the client (date-utils.ts).                                *)

\* new Date(today) with setDate(today.getDate() + i), where today is the day the page
\* was opened.
Option(i) == LET s == Rollover(Day(opened.date.y, opened.date.m, opened.date.d + i))
             IN [iso |-> s, label |-> ToJalaali(s), allowed |-> WeekdayOf(DayNumber(s)) \in AllowedWeekdays]
DateOptions == [i \in 0..StripDays |-> Option(i)]
FirstAllowed(options) == {i \in DOMAIN options : options[i].allowed /\ \A k \in 0..(i - 1) : ~options[k].allowed}

--------------------------------------------------------------------------------
(* The dashboard (admin-dashboard.service.ts).                                  *)

\* Mutant: a remainder that takes the sign of its dividend.
DaysSinceSatSigned(today) == Mod(WeekdayOf(today) - 6, 7)

DaysSinceSat(today) == (WeekdayOf(today) - 6 + 7) % 7
WeekStart(today) == today - DaysSinceSat(today)
WeekEnd(today) == WeekStart(today) + 6

--------------------------------------------------------------------------------
(* Properties.                                                                  *)

\* The screen shows the day that is meant: the conversion agrees with counting days
\* one by one over leap years of both calendars, and j2d takes it back.
JalaliCountsDays ==
    /\ ToJalaali(date) = jalali
    /\ JalaliDayNumber(jalali) = jdn
    /\ DayNumber(date) = jdn /\ D2G(jdn) = date

\* "Using the same helper everywhere guarantees writes and reads line up"
\* (tehran-time.ts:90): dayjs checks a date string and Date stores it, and where the two
\* read a string differently nothing is stored.  Day 31 of a short month is stored as the
\* very day that was checked.  Years before 100 are left out: dayjs takes them for this
\* year or one of the 1900s and Date does not.
CheckedDayIsStored ==
    \A s \in DateStrings :
        LET day == PrismaDateOnly(s)
        IN s.y >= 100 =>
              \/ day = NoDate
              \/ IsDate(day) /\ DayNumber(day) = TehranDate(s) /\ (Accepts(s) => Accepts(day))

\* The strip of a page that stays open over midnights, with the client's own window and
\* weekdays, against the checks of the server: the server refuses a day the page offers
\* only where that day has passed since or the server's window is shorter than the
\* strip, each day is labelled with its own Jalali date, and the page opens on the next
\* working day.
StripMatchesServer ==
    LET options == DateOptions
    IN /\ \A i \in DOMAIN options :
             LET o   == options[i]
                 day == opened.jdn + i
             IN /\ DayNumber(o.iso) = day /\ JalaliDayNumber(o.label) = day
                /\ Accepts(o.iso) <=> o.allowed /\ day \in jdn..(jdn + MaxDaysAhead)
       /\ FirstAllowed(options) = {i \in 0..2 : /\ IsAllowedDay(opened.jdn + i)
                                                /\ \A k \in 0..(i - 1) : ~IsAllowedDay(opened.jdn + k)}

\* The dashboard's week is the Iranian one: seven days from a Saturday, the same for
\* each of its days, with today in it.
WeekIsIranian ==
    /\ WeekdayOf(WeekStart(jdn)) = 6 /\ jdn \in WeekStart(jdn)..WeekEnd(jdn)
    /\ \A day \in WeekStart(jdn)..WeekEnd(jdn) : WeekStart(day) = WeekStart(jdn)
====
