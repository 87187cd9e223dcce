\* Every day of forty-four years, on a page opened that day or the day before.
CONSTANTS
    FirstWeekday = 1  StartHour = 8  EndHour = 16  MaxDaysAhead = 14
    FirstDay <- Nowruz1398  LastDay = 2474635  MaxNights = 1
    YearOffsets <- ThisYearAndLast
    MonthFields = {0, 1, 2, 6, 12, 13}  DayFields = {0, 1, 29, 30, 31, 32}
SPECIFICATION Spec
INVARIANTS JalaliCountsDays CheckedDayIsStored StripMatchesServer WeekIsIranian
CHECK_DEADLOCK FALSE
