---- MODULE TehranTime ----
(* The calendar arithmetic every booking decision goes through                *)
(* (backend/src/common/time/tehran-time.ts).  A date is the number of days    *)
(* since an arbitrary day 0, an instant the number of hours since its Tehran  *)
(* midnight: Asia/Tehran has kept one UTC offset since 2022, all decisions    *)
(* are taken on whole days and on the full hour a slot starts, and an instant *)
(* inside an hour decides as the hour's beginning does.                       *)
EXTENDS Integers

CONSTANTS
    FirstWeekday,   \* dayjs weekday of day 0 (0 = Sunday ... 6 = Saturday)
    StartHour,      \* BOOKING_START_HOUR
    EndHour,        \* BOOKING_END_HOUR
    MaxDaysAhead    \* BOOKING_MAX_DAYS_AHEAD

ASSUME WeekdayAssumption == FirstWeekday \in 0..6
ASSUME HoursAssumption == StartHour \in Nat /\ EndHour \in Nat
ASSUME WindowAssumption == MaxDaysAhead \in Nat

HoursPerDay == 24

\* ALLOWED_WEEKDAYS: Saturday to Wednesday.
AllowedWeekdays == {6, 0, 1, 2, 3}

WeekdayOf(day) == (day + FirstWeekday) % 7

IsAllowedDay(day) == WeekdayOf(day) \in AllowedWeekdays

\* todayTehran: the calendar day an instant falls on.
Today(t) == t \div HoursPerDay

\* Mutant: the last day of the window is left out.
IsWithinOpenWindow(day, t) == day >= Today(t) /\ day < Today(t) + MaxDaysAhead

IsWithinBookingWindow(day, t) == day >= Today(t) /\ day <= Today(t) + MaxDaysAhead

\* Mutant: the closing hour can be booked.
IsSlotHourOrEnd(hour) == hour >= StartHour /\ hour <= EndHour

\* The hour check create and update share: buildSlots offers exactly these.
IsSlotHour(hour) == hour >= StartHour /\ hour < EndHour

SlotStart(day, hour) == day * HoursPerDay + hour

\* A slot is past from the very instant it starts.
IsSlotPast(day, hour, t) == SlotStart(day, hour) <= t
====
