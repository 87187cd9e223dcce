---- MODULE MCCalendar ----
(* Forty-four years from Nowruz 1398, a Thursday: eleven leap years of each       *)
(* calendar, twice two Jalali ones five years apart.  Julian day 0 was a Monday.  *)
EXTENDS BookingCalendar, TLC

\* Both years that strings around the turn of a year name.
ThisYearAndLast == {-1, 0}

Nowruz1398 == [jdn |-> 2458564, date |-> Day(2019, 3, 21), jalali |-> Day(1398, 1, 1)]
====
