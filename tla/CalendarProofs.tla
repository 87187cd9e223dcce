---- MODULE CalendarProofs ----
(* The calendars for every count of days in the Jalali years 1210 to 1633: g2d    *)
(* and j2d count days, d2g and d2j take them back, and the date strings, the       *)
(* window and the strip built on them agree on every day.                          *)
EXTENDS BookingCalendar, TLAPS

--------------------------------------------------------------------------------
(* Gregorian dates count days.                                                *)

\* Years from March to February, counted from one far back; days before a year and, in
\* it, before a month.
MarchYear(y, m) == IF m <= 2 THEN y + 100099 ELSE y + 100100
DaysBefore(Y) == 365 * Y + Y \div 4 - (3 * (Y \div 100)) \div 4
MonthOffset(m) == (153 * ((m + 9) % 12) + 2) \div 5

\* The four-year term of g2d.
LEMMA Halves == \A Y \in Nat : (Y * 1461) \div 4 = 365 * Y + Y \div 4
  OBVIOUS

\* The terms of g2d with the month.
LEMMA MonthForm ==
    ASSUME NEW m \in 1..12
    PROVE  /\ Div(m - 8, 6) = IF m <= 2 THEN -1 ELSE 0
           /\ Div(153 * Mod(m + 9, 12) + 2, 5) = MonthOffset(m)
  BY DEF Div, Mod, MonthOffset

\* g2d counts days.
LEMMA G2DForm ==
    ASSUME NEW y \in Nat, NEW m \in 1..12, NEW d \in Int
    PROVE  G2D(y, m, d) = DaysBefore(MarchYear(y, m)) + MonthOffset(m) + d - 34839656
<1> DEFINE Y == MarchYear(y, m)
<1>1. Y \in Nat  BY DEF MarchYear
<1>2. y + Div(m - 8, 6) + 100100 = Y /\ y + 100100 + Div(m - 8, 6) = Y
  BY MonthForm DEF MarchYear
<1> HIDE DEF Y
<1>3. Div(Y * 1461, 4) = 365 * Y + Y \div 4  BY <1>1, Halves DEF Div
<1>4. Div(Div(Y, 100) * 3, 4) = (3 * (Y \div 100)) \div 4  BY <1>1 DEF Div
<1>5. MonthOffset(m) \in Int  BY DEF MonthOffset
<1>6. G2D(y, m, d) = Div(Y * 1461, 4) + MonthOffset(m) + d - 34840408 - Div(Div(Y, 100) * 3, 4) + 752
  BY SMT, <1>2, MonthForm DEF G2D
<1>7. Y \div 4 \in Int /\ (3 * (Y \div 100)) \div 4 \in Int  BY <1>1
<1>8. G2D(y, m, d) = DaysBefore(Y) + MonthOffset(m) + d - 34839656
  <2>1. \A a, b, c, e \in Int : a + e + d - 34840408 - b + 752 = (a - b) + e + d - 34839656
    BY SMT
  <2> QED  BY SMT, <1>1, <1>3, <1>4, <1>5, <1>6, <1>7, <2>1 DEF DaysBefore
<1> QED  BY <1>8 DEF Y

\* A leap year is one day longer.
LEMMA YearLength ==
    ASSUME NEW y \in Nat
    PROVE  DaysBefore(y + 100100) = DaysBefore(y + 100099) + IF IsLeap(y) THEN 366 ELSE 365
  BY DEF DaysBefore, IsLeap

\* The days before each month.
LEMMA MonthOffsets ==
    /\ MonthOffset(1) = 306 /\ MonthOffset(2) = 337 /\ MonthOffset(3) = 0 /\ MonthOffset(4) = 31
    /\ MonthOffset(5) = 61 /\ MonthOffset(6) = 92 /\ MonthOffset(7) = 122 /\ MonthOffset(8) = 153
    /\ MonthOffset(9) = 184 /\ MonthOffset(10) = 214 /\ MonthOffset(11) = 245 /\ MonthOffset(12) = 275
  BY DEF MonthOffset

\* Their ranges.
LEMMA DayCounts ==
    ASSUME NEW y \in Nat, NEW m \in 1..12
    PROVE  /\ DaysIn(y, m) \in 28..31 /\ DaysIn(y, m) \in Int
           /\ DaysIn(y, m) >= 28 /\ DaysIn(y, m) <= 31
           /\ MonthOffset(m) \in 0..337 /\ MonthOffset(m) \in Int
           /\ DaysBefore(MarchYear(y, m)) \in Int
<1>1. DaysIn(y, m) \in 28..31  BY DEF DaysIn
<1>2. MonthOffset(m) \in 0..337  BY DEF MonthOffset
<1>3. MarchYear(y, m) \in Nat  BY DEF MarchYear
<1>4. DaysIn(y, m) \in Int /\ DaysIn(y, m) >= 28 /\ DaysIn(y, m) <= 31  BY <1>1
<1> QED  BY <1>1, <1>2, <1>3, <1>4 DEF DaysBefore

\* A month is as long as the days counted from its first to the next one's.
LEMMA NextMonth ==
    ASSUME NEW y \in Nat, NEW m \in 1..12, NEW d \in Int
    PROVE  IF m < 12 THEN G2D(y, m, d) = G2D(y, m + 1, d - DaysIn(y, m))
                     ELSE G2D(y, m, d) = G2D(y + 1, 1, d - 31)
<1>1. CASE m = 12
  <2>1. MarchYear(y, 12) = MarchYear(y + 1, 1)  BY DEF MarchYear
  <2>2. G2D(y, 12, d) = DaysBefore(MarchYear(y, 12)) + 275 + d - 34839656
    BY SMT, G2DForm, MonthOffsets
  <2>3. G2D(y + 1, 1, d - 31) = DaysBefore(MarchYear(y + 1, 1)) + 306 + (d - 31) - 34839656
    BY SMT, G2DForm, MonthOffsets
  <2>4. DaysBefore(MarchYear(y, 12)) \in Int  BY DayCounts
  <2>5. \A a \in Int : a + 275 + d - 34839656 = a + 306 + (d - 31) - 34839656  BY SMT
  <2> QED  BY SMT, <1>1, <2>1, <2>2, <2>3, <2>4, <2>5
<1>2. CASE m < 12
  <2>1. /\ G2D(y, m, d) = DaysBefore(MarchYear(y, m)) + MonthOffset(m) + d - 34839656
        /\ G2D(y, m + 1, d - DaysIn(y, m))
             = DaysBefore(MarchYear(y, m + 1)) + MonthOffset(m + 1) + (d - DaysIn(y, m)) - 34839656
    <3>0. DaysIn(y, m) \in Int  BY DayCounts
    <3>1. d - DaysIn(y, m) \in Int /\ m + 1 \in 1..12  BY <1>2, <3>0
    <3> QED  BY SMT, <3>1, G2DForm
  <2>2. CASE m = 2
    <3>1. MarchYear(y, 2) = y + 100099 /\ MarchYear(y, 3) = y + 100100  BY DEF MarchYear
    <3>2. DaysBefore(y + 100100) = DaysBefore(y + 100099) + 337 + DaysIn(y, 2)
      <4>1. DaysBefore(y + 100099) \in Int  BY DayCounts, <3>1
      <4> QED  BY <4>1, YearLength DEF DaysIn
    <3>3. DaysBefore(y + 100099) \in Int /\ DaysIn(y, 2) \in Int  BY DayCounts, <3>1
    <3>4. \A a, l \in Int : a + 337 + d - 34839656 = (a + 337 + l) + 0 + (d - l) - 34839656  BY SMT
    <3> QED  BY SMT, <2>1, <2>2, <3>1, <3>2, <3>3, <3>4, MonthOffsets
  <2>3. CASE m # 2
    <3>1. MarchYear(y, m) = MarchYear(y, m + 1)  BY <1>2, <2>3 DEF MarchYear
    <3>2. MonthOffset(m + 1) = MonthOffset(m) + DaysIn(y, m)
      BY <1>2, <2>3 DEF MonthOffset, DaysIn
    <3>3. DaysBefore(MarchYear(y, m)) \in Int /\ MonthOffset(m) \in Int /\ DaysIn(y, m) \in Int
      BY DayCounts
    <3>4. \A a, o, l \in Int : a + o + d - 34839656 = a + (o + l) + (d - l) - 34839656  BY SMT
    <3>5. G2D(y, m, d) = G2D(y, m + 1, d - DaysIn(y, m))  BY SMT, <2>1, <3>1, <3>2, <3>3, <3>4
    <3> QED  BY <1>2, <3>5
  <2> QED  BY <2>2, <2>3
<1> QED  BY <1>1, <1>2

--------------------------------------------------------------------------------
(* Dates that roll over.                                                      *)

\* The fields of a date.
LEMMA Fields ==
    ASSUME NEW y, NEW m, NEW d
    PROVE  Day(y, m, d).y = y /\ Day(y, m, d).m = m /\ Day(y, m, d).d = d
  BY DEF Day

\* Dates as records and by their fields.
LEMMA DayIsDate ==
    ASSUME NEW y \in Nat, NEW m \in 1..12, NEW d \in Int, d >= 1, d <= DaysIn(y, m)
    PROVE  IsDate(Day(y, m, d))
<1>1. DaysIn(y, m) \in Int /\ DaysIn(y, m) <= 31  BY DayCounts
<1>2. d \in 1..31  BY <1>1
<1>3. Day(y, m, d) \in [y : Nat, m : 1..12, d : 1..31]  BY <1>2 DEF Day
<1> QED  BY <1>3, Fields DEF IsDate

\* A date by its fields.
LEMMA DateForm ==
    ASSUME NEW t, IsDate(t)
    PROVE  \E y \in Nat, m \in 1..12, d \in 1..31 : t = Day(y, m, d) /\ d <= DaysIn(y, m)
<1>1. t = Day(t.y, t.m, t.d) /\ t.y \in Nat /\ t.m \in 1..12 /\ t.d \in 1..31 /\ t.d <= DaysIn(t.y, t.m)
  BY DEF IsDate, Day
<1> QED  BY <1>1

\* The cases of a rollover.
LEMMA RolloverForm ==
    ASSUME NEW y \in Nat, NEW m \in 1..12, NEW d \in Int
    PROVE  /\ d <= DaysIn(y, m) => Rollover(Day(y, m, d)) = Day(y, m, d)
           /\ d > DaysIn(y, m) /\ m < 12 => Rollover(Day(y, m, d)) = Day(y, m + 1, d - DaysIn(y, m))
           /\ d > DaysIn(y, m) /\ m = 12 => Rollover(Day(y, m, d)) = Day(y + 1, 1, d - 31)
<1> DEFINE s == Day(y, m, d)
<1>1. s.y = y /\ s.m = m /\ s.d = d  BY Fields
<1>2. DaysIn(y, m) \in Int /\ (m = 12 => DaysIn(y, m) = 31)  BY DayCounts DEF DaysIn
<1> HIDE DEF s
<1>3. Rollover(s) = IF d <= DaysIn(y, m) THEN s
             ELSE IF m < 12 THEN Day(y, m + 1, d - DaysIn(y, m)) ELSE Day(y + 1, 1, d - DaysIn(y, m))
  BY <1>1 DEF Rollover
<1>4. /\ d <= DaysIn(y, m) => Rollover(s) = s
      /\ d > DaysIn(y, m) /\ m < 12 => Rollover(s) = Day(y, m + 1, d - DaysIn(y, m))
      /\ d > DaysIn(y, m) /\ m = 12 => Rollover(s) = Day(y + 1, 1, d - 31)
  BY <1>2, <1>3
<1> QED  BY <1>4 DEF s

\* A string's day, rolled over, is the day it stands for.
LEMMA RolloverKeepsDay ==
    ASSUME NEW y \in Nat, NEW m \in 1..12, NEW d \in Int
    PROVE  DayNumber(Rollover(Day(y, m, d))) = G2D(y, m, d) /\ DayNumber(Day(y, m, d)) = G2D(y, m, d)
<1>1. \A a, b, c : DayNumber(Day(a, b, c)) = G2D(a, b, c)  BY Fields DEF DayNumber
<1>2. DaysIn(y, m) \in Int  BY DayCounts
<1>3. CASE d <= DaysIn(y, m)  BY <1>1, <1>3, RolloverForm
<1>4. CASE d > DaysIn(y, m) /\ m < 12
  <2>1. Rollover(Day(y, m, d)) = Day(y, m + 1, d - DaysIn(y, m))  BY <1>4, RolloverForm
  <2>2. G2D(y, m, d) = G2D(y, m + 1, d - DaysIn(y, m))  BY <1>4, NextMonth
  <2> QED  BY <1>1, <2>1, <2>2
<1>5. CASE d > DaysIn(y, m) /\ m = 12
  <2>1. Rollover(Day(y, m, d)) = Day(y + 1, 1, d - 31)  BY <1>5, RolloverForm
  <2>2. G2D(y, m, d) = G2D(y + 1, 1, d - 31)  BY <1>5, NextMonth
  <2> QED  BY <1>1, <2>1, <2>2
<1> QED  BY <1>2, <1>1, <1>3, <1>4, <1>5

\* ... and up to four weeks after the end of a month, it is a date.
LEMMA RolloverIsDate ==
    ASSUME NEW y \in Nat, NEW m \in 1..12, NEW d \in Int, d >= 1, d <= DaysIn(y, m) + 28
    PROVE  IsDate(Rollover(Day(y, m, d)))
<1>1. DaysIn(y, m) \in Int /\ DaysIn(y, m) \in 28..31 /\ (m = 12 => DaysIn(y, m) = 31)  BY DayCounts DEF DaysIn
<1>2. CASE d <= DaysIn(y, m)
  <2>1. IsDate(Day(y, m, d))  BY <1>2, DayIsDate
  <2> QED  BY <1>2, <2>1, RolloverForm
<1>3. CASE d > DaysIn(y, m) /\ m < 12
  <2>1. m + 1 \in 1..12 /\ d - DaysIn(y, m) \in Int  BY <1>1, <1>3
  <2>2. DaysIn(y, m + 1) \in Int /\ DaysIn(y, m + 1) \in 28..31  BY <2>1, DayCounts
  <2>3. d - DaysIn(y, m) >= 1 /\ d - DaysIn(y, m) <= DaysIn(y, m + 1)  BY <1>1, <1>3, <2>2
  <2>4. IsDate(Day(y, m + 1, d - DaysIn(y, m)))  BY <2>1, <2>3, DayIsDate
  <2> QED  BY <1>3, <2>4, RolloverForm
<1>4. CASE d > DaysIn(y, m) /\ m = 12
  <2>1. y + 1 \in Nat /\ 1 \in 1..12  OBVIOUS
  <2>2. DaysIn(y + 1, 1) \in Int /\ DaysIn(y + 1, 1) \in 28..31  BY <2>1, DayCounts
  <2>3. d - 31 \in Int /\ d - 31 >= 1 /\ d - 31 <= DaysIn(y + 1, 1)  BY <1>1, <1>4, <2>2
  <2>4. IsDate(Day(y + 1, 1, d - 31))  BY <2>1, <2>3, DayIsDate
  <2> QED  BY <1>4, <2>4, RolloverForm
<1> QED  BY <1>1, <1>2, <1>3, <1>4

\* Days of a month follow one another.
LEMMA DayAfterDay ==
    ASSUME NEW y \in Nat, NEW m \in 1..12, NEW e \in Int
    PROVE  G2D(y, m, e) = G2D(y, m, 0) + e /\ G2D(y, m, 0) \in Int
<1>1. G2D(y, m, e) = DaysBefore(MarchYear(y, m)) + MonthOffset(m) + e - 34839656
  BY SMT, G2DForm
<1>2. G2D(y, m, 0) = DaysBefore(MarchYear(y, m)) + MonthOffset(m) + 0 - 34839656
  BY SMT, G2DForm
<1>3. DaysBefore(MarchYear(y, m)) \in Int /\ MonthOffset(m) \in Int  BY DayCounts
<1> QED  BY SMT, <1>1, <1>2, <1>3

\* The cases of the next day, of either calendar.
LEMMA AfterForm ==
    ASSUME NEW y, NEW m \in Int, NEW d \in Int, NEW last \in Int
    PROVE  /\ d < last => After(Day(y, m, d), last) = Day(y, m, d + 1)
           /\ ~(d < last) /\ m < 12 => After(Day(y, m, d), last) = Day(y, m + 1, 1)
           /\ ~(d < last) /\ ~(m < 12) => After(Day(y, m, d), last) = Day(y + 1, 1, 1)
<1> DEFINE t == Day(y, m, d)
<1>1. t.y = y /\ t.m = m /\ t.d = d  BY Fields
<1> HIDE DEF t
<1>2. After(t, last) = IF d < last THEN Day(y, m, d + 1)
        ELSE IF m < 12 THEN Day(y, m + 1, 1) ELSE Day(y + 1, 1, 1)
  BY <1>1 DEF After
<1> QED  BY <1>2 DEF t

\* The next date is a date, and the next day.
LEMMA NextDateCounts ==
    ASSUME NEW t, IsDate(t)
    PROVE  IsDate(NextDate(t)) /\ DayNumber(NextDate(t)) = DayNumber(t) + 1
<1>1. PICK y \in Nat, m \in 1..12, d \in 1..31 : t = Day(y, m, d) /\ d <= DaysIn(y, m)  BY DateForm
<1>2. DaysIn(y, m) \in Int /\ d \in Int /\ m \in Int /\ d >= 1 /\ m <= 12 /\ (m = 12 => DaysIn(y, m) = 31)
  BY DayCounts DEF DaysIn
<1>3. NextDate(t) = After(Day(y, m, d), DaysIn(y, m))  BY <1>1, Fields DEF NextDate
<1>4. PICK e \in Int : e = d + 1  BY <1>2
<1>5. NextDate(t) = Rollover(Day(y, m, e))
  <2>1. CASE d < DaysIn(y, m)
    <3>1. e <= DaysIn(y, m)  BY <1>2, <1>4, <2>1
    <3> QED  BY <1>2, <1>3, <1>4, <2>1, <3>1, AfterForm, RolloverForm
  <2>2. CASE ~(d < DaysIn(y, m)) /\ m < 12
    <3>1. e > DaysIn(y, m) /\ e - DaysIn(y, m) = 1  BY <1>1, <1>2, <1>4, <2>2
    <3>2. Rollover(Day(y, m, e)) = Day(y, m + 1, e - DaysIn(y, m))  BY <2>2, <3>1, RolloverForm
    <3> QED  BY <1>2, <1>3, <2>2, <3>1, <3>2, AfterForm
  <2>3. CASE ~(d < DaysIn(y, m)) /\ ~(m < 12)
    <3>1. e > DaysIn(y, m) /\ m = 12 /\ e - 31 = 1  BY <1>1, <1>2, <1>4, <2>3
    <3>2. Rollover(Day(y, m, e)) = Day(y + 1, 1, e - 31)  BY <3>1, RolloverForm
    <3> QED  BY <1>2, <1>3, <2>3, <3>1, <3>2, AfterForm
  <2> QED  BY <2>1, <2>2, <2>3
<1>6. e >= 1 /\ e <= DaysIn(y, m) + 28  BY <1>1, <1>2, <1>4
<1>7. IsDate(NextDate(t))  BY <1>5, <1>6, RolloverIsDate
<1>8. DayNumber(NextDate(t)) = G2D(y, m, e) /\ DayNumber(t) = G2D(y, m, d)
  BY <1>1, <1>2, <1>5, RolloverKeepsDay
<1>9. G2D(y, m, e) = G2D(y, m, 0) + e /\ G2D(y, m, d) = G2D(y, m, 0) + d /\ G2D(y, m, 0) \in Int
  BY <1>2, DayAfterDay
<1> QED  BY <1>2, <1>4, <1>7, <1>8, <1>9

\* A date stays.
LEMMA RolloverOfDate ==
    ASSUME NEW t, IsDate(t)
    PROVE  Rollover(t) = t
<1>1. PICK y \in Nat, m \in 1..12, d \in 1..31 : t = Day(y, m, d) /\ d <= DaysIn(y, m)  BY DateForm
<1>2. d \in Int  OBVIOUS
<1> QED  BY <1>1, <1>2, RolloverForm

\* dayjs reads months and days that there are as the calendar does.
LEMMA TehranDateForm ==
    ASSUME NEW y \in Nat, y >= 100, NEW m \in 1..12, NEW d \in Int, d >= 1
    PROVE  TehranDate(Day(y, m, d)) = G2D(y, m, d)
<1>1. PICK s : s = Day(y, m, d)  OBVIOUS
<1>2. s.y = y /\ s.m = m /\ s.d = d  BY <1>1, Fields
<1>3. y # 0 /\ ~(y < 100) /\ m > 0 /\ d > 0  OBVIOUS
<1>4. TehranDate(s) = G2D(y + ((m - 1) \div 12), ((m - 1) % 12) + 1, 1) + d - 1
  BY <1>2, <1>3 DEF TehranDate
<1>5. y + ((m - 1) \div 12) = y /\ ((m - 1) % 12) + 1 = m  OBVIOUS
<1>6. G2D(y, m, 1) = G2D(y, m, 0) + 1 /\ G2D(y, m, d) = G2D(y, m, 0) + d /\ G2D(y, m, 0) \in Int
  <2>1. 1 \in Int  OBVIOUS
  <2> QED  BY <2>1, DayAfterDay
<1>7. TehranDate(s) = G2D(y, m, 1) + d - 1  BY <1>4, <1>5
<1> QED  BY SMT, <1>1, <1>6, <1>7

\* A year stays within a rollover, or is the next one.
LEMMA RolloverYear ==
    ASSUME NEW y \in Nat, NEW m \in 1..12, NEW d \in Int
    PROVE  Rollover(Day(y, m, d)).y \in {y, y + 1}
<1>1. DaysIn(y, m) \in Int  BY DayCounts
<1>2. CASE d <= DaysIn(y, m)  BY <1>2, RolloverForm, Fields
<1>3. CASE d > DaysIn(y, m) /\ m < 12  BY <1>3, RolloverForm, Fields
<1>4. CASE d > DaysIn(y, m) /\ m = 12  BY <1>4, RolloverForm, Fields
<1> QED  BY <1>1, <1>2, <1>3, <1>4

\* The day checked and the day stored.
LEMMA CheckedDay ==
    ASSUME IsDate(date), NEW s \in DateStrings, s.y >= 100, PrismaDateOnly(s) # NoDate
    PROVE  /\ IsDate(PrismaDateOnly(s))
           /\ DayNumber(PrismaDateOnly(s)) = TehranDate(s)
           /\ Accepts(s) => Accepts(PrismaDateOnly(s))
<1>1. PICK y \in Nat, m \in 1..12, d \in 1..31 : s = Day(y, m, d) /\ y >= 100
  <2>1. date.y \in Nat  BY DEF IsDate
  <2>2. PICK y \in {0} \cup {date.y + k : k \in YearOffsets}, m \in MonthFields, d \in DayFields : s = Day(y, m, d)
    BY DEF DateStrings
  <2>3. y \in Int  BY <2>1, FieldsAssumption
  <2>4. s.y = y /\ s.m = m /\ s.d = d  BY <2>2, Fields
  <2>5. m \in 1..12 /\ d \in 1..31  BY <2>4 DEF PrismaDateOnly
  <2>6. y \in Nat /\ y >= 100  BY <2>3, <2>4
  <2> QED  BY <2>2, <2>5, <2>6
<1>2. PICK day : day = Rollover(s)  OBVIOUS
<1>3. PrismaDateOnly(s) = day
  <2>1. s.m = m /\ s.d = d  BY <1>1, Fields
  <2> QED  BY <1>2, <2>1 DEF PrismaDateOnly
<1>4. DaysIn(y, m) \in Int /\ DaysIn(y, m) >= 28  BY DayCounts
<1>5. d \in Int /\ d >= 1 /\ d <= DaysIn(y, m) + 28  BY <1>4
<1>6. IsDate(day)  BY <1>1, <1>2, <1>5, RolloverIsDate
<1>7. DayNumber(day) = G2D(y, m, d)  BY <1>1, <1>2, <1>5, RolloverKeepsDay
<1>8. TehranDate(s) = G2D(y, m, d)  BY <1>1, <1>5, TehranDateForm
<1>9. TehranDate(day) = DayNumber(day)
  <2>1. PICK y2 \in Nat, m2 \in 1..12, d2 \in 1..31 : day = Day(y2, m2, d2) /\ d2 <= DaysIn(y2, m2)
    BY <1>6, DateForm
  <2>2. day.y \in {y, y + 1}  BY <1>1, <1>2, <1>5, RolloverYear
  <2>3. day.y = y2  BY <2>1, Fields
  <2>4. y2 >= 100 /\ d2 \in Int /\ d2 >= 1  BY <1>1, <2>2, <2>3
  <2>5. TehranDate(day) = G2D(y2, m2, d2)  BY <2>1, <2>4, TehranDateForm
  <2>6. DayNumber(day) = G2D(y2, m2, d2)  BY <2>1, Fields DEF DayNumber
  <2> QED  BY <2>5, <2>6
<1>10. Accepts(s) => Accepts(day)
  <2>1. TehranDate(day) = TehranDate(s)  BY <1>7, <1>8, <1>9
  <2> QED  BY <2>1 DEF Accepts
<1> QED  BY <1>3, <1>6, <1>7, <1>8, <1>10

--------------------------------------------------------------------------------
(* d2g takes g2d back.                                                        *)

YearDays(Y) == DaysBefore(Y + 1) - DaysBefore(Y)

\* Quotients and remainders.
LEMMA Parts == 
    /\ \A n \in Nat : \E q, r \in Nat : n = 100 * q + r /\ r <= 99
    /\ \A n \in Nat : \E q, r \in Nat : n = 4 * q + r /\ r <= 3
    /\ \A q, r \in Nat : r <= 99 => (100 * q + r) \div 100 = q
    /\ \A q, r \in Nat : r <= 3 => (4 * q + r) \div 4 = q /\ (4 * q + r) % 4 = r
<1>1. ASSUME NEW n \in Nat
      PROVE  n \div 100 \in Nat /\ n % 100 \in Nat /\ n % 100 <= 99 /\ n = 100 * (n \div 100) + (n % 100)
  <2>1. n \div 100 \in Nat  BY SMT
  <2>2. n % 100 \in Nat  BY SMT
  <2>3. n % 100 <= 99  BY SMT
  <2>4. n = 100 * (n \div 100) + (n % 100)  BY SMT
  <2> QED  BY <2>1, <2>2, <2>3, <2>4
<1>2. ASSUME NEW n \in Nat
      PROVE  n \div 4 \in Nat /\ n % 4 \in Nat /\ n % 4 <= 3 /\ n = 4 * (n \div 4) + (n % 4)
  <2>1. n \div 4 \in Nat  BY SMT
  <2>2. n % 4 \in Nat  BY SMT
  <2>3. n % 4 <= 3  BY SMT
  <2>4. n = 4 * (n \div 4) + (n % 4)  BY SMT
  <2> QED  BY <2>1, <2>2, <2>3, <2>4
<1>3. \A q, r \in Nat : r <= 99 => (100 * q + r) \div 100 = q  BY SMT
<1>4. \A q, r \in Nat : r <= 3 => (4 * q + r) \div 4 = q /\ (4 * q + r) % 4 = r  BY SMT
<1>5. \A n \in Nat : \E q, r \in Nat : n = 100 * q + r /\ r <= 99
  <2> TAKE n \in Nat
  <2> WITNESS n \div 100 \in Nat, n % 100 \in Nat
  <2> QED  BY <1>1
<1>6. \A n \in Nat : \E q, r \in Nat : n = 4 * q + r /\ r <= 3
  <2> TAKE n \in Nat
  <2> WITNESS n \div 4 \in Nat, n % 4 \in Nat
  <2> QED  BY <1>2
<1> QED  BY <1>3, <1>4, <1>5, <1>6

\* The century and the year of a day, from the days counted.
LEMMA CenturyOf ==
    ASSUME NEW Y \in Nat, NEW e \in Nat, e < YearDays(Y)
    PROVE  /\ (4 * (DaysBefore(Y) + e)) \div 146097 = Y \div 100
           /\ 4 * (DaysBefore(Y) + e) + 4 * ((3 * (Y \div 100)) \div 4) = 1461 * Y + (4 * e - (Y % 4))
           /\ 4 * e + 3 - (Y % 4) >= 0 /\ 4 * e + 3 - (Y % 4) <= 1460
           /\ DaysBefore(Y) \in Nat
<1>1. PICK c, r \in Nat : Y = 100 * c + r /\ r <= 99  BY Parts
<1>2. PICK u, v \in Nat : r = 4 * u + v /\ v <= 3  BY Parts
<1>3. PICK h, w \in Nat : 3 * c = 4 * h + w /\ w <= 3
  <2>1. 3 * c \in Nat  OBVIOUS
  <2> QED  BY <2>1, Parts
<1>4. Y \div 100 = c /\ (3 * c) \div 4 = h  BY <1>1, <1>3, Parts
<1>5. Y \div 4 = 25 * c + u /\ Y % 4 = v
  <2>1. Y = 4 * (25 * c + u) + v /\ 25 * c + u \in Nat  BY <1>1, <1>2
  <2> QED  BY <1>2, <2>1, Parts
<1>6. DaysBefore(Y) = 36525 * c + 365 * r + u - h
  <2>1. DaysBefore(Y) = 365 * Y + (25 * c + u) - h  BY <1>4, <1>5 DEF DaysBefore
  <2>2. 365 * Y = 36500 * c + 365 * r  BY <1>1
  <2> QED  BY SMT, <2>1, <2>2
<1>7. e <= 364 \/ (e = 365 /\ v = 3 /\ (r <= 98 \/ w = 0))
  <2>1. CASE r <= 98
    <3>1. (Y + 1) \div 100 = c
      <4>1. Y + 1 = 100 * c + (r + 1) /\ r + 1 \in Nat /\ r + 1 <= 99  BY <1>1, <2>1
      <4> QED  BY <4>1, Parts
    <3>2. (Y + 1) \div 4 = IF v = 3 THEN 25 * c + u + 1 ELSE 25 * c + u
      <4>1. CASE v = 3
        <5>1. Y + 1 = 4 * (25 * c + u + 1) + 0 /\ 25 * c + u + 1 \in Nat  BY <1>1, <1>2, <4>1
        <5>2. (4 * (25 * c + u + 1) + 0) \div 4 = 25 * c + u + 1  BY <5>1, Parts
        <5> QED  BY <4>1, <5>1, <5>2
      <4>2. CASE v # 3
        <5>1. Y + 1 = 4 * (25 * c + u) + (v + 1) /\ 25 * c + u \in Nat /\ v + 1 \in Nat /\ v + 1 <= 3
          BY <1>1, <1>2, <4>2
        <5>2. (4 * (25 * c + u) + (v + 1)) \div 4 = 25 * c + u  BY <5>1, Parts
        <5> QED  BY <4>2, <5>1, <5>2
      <4> QED  BY <4>1, <4>2
    <3>3. DaysBefore(Y + 1) = 365 * (Y + 1) + (Y + 1) \div 4 - h  BY <1>4, <3>1 DEF DaysBefore
    <3>4. DaysBefore(Y) = 365 * Y + (25 * c + u) - h  BY <1>4, <1>5 DEF DaysBefore
    <3>5. YearDays(Y) = IF v = 3 THEN 366 ELSE 365  BY SMT, <3>2, <3>3, <3>4 DEF YearDays
    <3>6. e < 366 /\ (v # 3 => e < 365)  BY <3>5
    <3> QED  BY <2>1, <3>6
  <2>2. CASE r = 99
    <3>1. u = 24 /\ v = 3  BY <1>2, <2>2
    <3>2. (Y + 1) \div 100 = c + 1 /\ (Y + 1) \div 4 = 25 * c + 25
      <4>1. Y + 1 = 100 * (c + 1) + 0 /\ Y + 1 = 4 * (25 * c + 25) + 0  BY <1>1, <2>2
      <4>2. (100 * (c + 1) + 0) \div 100 = c + 1 /\ (4 * (25 * c + 25) + 0) \div 4 = 25 * c + 25
        BY SMT
      <4> QED  BY <4>1, <4>2
    <3>3. (3 * (c + 1)) \div 4 = IF w = 0 THEN h ELSE h + 1
      <4>1. CASE w = 0
        <5>1. 3 * (c + 1) = 4 * h + 3  BY <1>3, <4>1
        <5> QED  BY <4>1, <5>1, Parts
      <4>2. CASE w # 0
        <5>1. 3 * (c + 1) = 4 * (h + 1) + (w - 1) /\ w - 1 \in Nat /\ w - 1 <= 3 /\ h + 1 \in Nat
          BY <1>3, <4>2
        <5> QED  BY <4>2, <5>1, Parts
      <4> QED  BY <4>1, <4>2
    <3>4. DaysBefore(Y + 1) = 365 * (Y + 1) + (25 * c + 25) - (3 * (c + 1)) \div 4  BY <3>2 DEF DaysBefore
    <3>5. DaysBefore(Y) = 365 * Y + (25 * c + 24) - h  BY <1>4, <1>5, <3>1 DEF DaysBefore
    <3>6. YearDays(Y) = IF w = 0 THEN 366 ELSE 365  BY SMT, <3>3, <3>4, <3>5 DEF YearDays
    <3>7. e < 366 /\ (w # 0 => e < 365)  BY <3>6
    <3> QED  BY <3>1, <3>7
  <2> QED  BY <1>1, <2>1, <2>2
<1>8. 4 * (DaysBefore(Y) + e) = 146097 * c + (1461 * r - v + w + 4 * e)
  BY SMT, <1>2, <1>3, <1>6
<1>9. 1461 * r - v + w + 4 * e \in Int /\ 1461 * r - v + w + 4 * e >= 0 /\ 1461 * r - v + w + 4 * e <= 146096
  BY SMT, <1>1, <1>2, <1>3, <1>7
<1>10. (4 * (DaysBefore(Y) + e)) \div 146097 = c
  <2>1. \A x \in Int : x >= 0 /\ x <= 146096 => (146097 * c + x) \div 146097 = c  BY SMT
  <2> QED  BY SMT, <1>8, <1>9, <2>1
<1>11. DaysBefore(Y) \in Nat  BY SMT, <1>1, <1>2, <1>3, <1>6
<1>12. 4 * (DaysBefore(Y) + e) + 4 * h = 1461 * Y + (4 * e - v)
  BY SMT, <1>1, <1>3, <1>8
<1>13. 4 * e + 3 - v >= 0 /\ 4 * e + 3 - v <= 1460  BY <1>2, <1>7
<1>14. (3 * (Y \div 100)) \div 4 = h  BY <1>4
<1> QED  BY <1>4, <1>5, <1>10, <1>11, <1>12, <1>13, <1>14

\* A day of the year, counted from March, is of the year.
LEMMA DayOfYear ==
    ASSUME NEW y \in Nat, NEW m \in 1..12, NEW d \in Int, d >= 1, d <= DaysIn(y, m)
    PROVE  /\ MarchYear(y, m) \in Nat
           /\ MonthOffset(m) + d - 1 \in Nat
           /\ MonthOffset(m) + d - 1 < YearDays(MarchYear(y, m))
<1>1. MarchYear(y, m) \in Nat  BY DEF MarchYear
<1>2. DaysIn(y, m) \in Int /\ DaysIn(y, m) <= 31  BY DayCounts
<1>3. MonthOffset(m) \in Nat  BY DEF MonthOffset
<1>4. CASE m > 2
  <2>1. MarchYear(y, m) = (y + 1) + 100099 /\ y + 1 \in Nat  BY <1>4 DEF MarchYear
  <2>2. DaysBefore((y + 1) + 100099) \in Int
    <3>1. MarchYear(y + 1, 1) = (y + 1) + 100099  BY DEF MarchYear
    <3> QED  BY <2>1, <3>1, DayCounts
  <2>3. YearDays(MarchYear(y, m)) >= 365
    <3>1. DaysBefore((y + 1) + 100100) = DaysBefore((y + 1) + 100099) + IF IsLeap(y + 1) THEN 366 ELSE 365
      BY <2>1, YearLength
    <3>2. YearDays((y + 1) + 100099) = DaysBefore((y + 1) + 100100) - DaysBefore((y + 1) + 100099)
      <4>1. ((y + 1) + 100099) + 1 = (y + 1) + 100100  BY SMT
      <4> QED  BY <4>1 DEF YearDays
    <3> QED  BY SMT, <2>1, <2>2, <3>1, <3>2
  <2>4. MonthOffset(m) <= 275  BY <1>4 DEF MonthOffset
  <2>5. MonthOffset(m) + d - 1 <= 305  BY <1>2, <1>3, <2>4
  <2>6. YearDays(MarchYear(y, m)) \in Int
    <3>1. YearDays((y + 1) + 100099) = IF IsLeap(y + 1) THEN 366 ELSE 365
      <4>1. DaysBefore((y + 1) + 100100) = DaysBefore((y + 1) + 100099) + IF IsLeap(y + 1) THEN 366 ELSE 365
        BY <2>1, YearLength
      <4>2. ((y + 1) + 100099) + 1 = (y + 1) + 100100  BY SMT
      <4> QED  BY SMT, <2>2, <4>1, <4>2 DEF YearDays
    <3> QED  BY <2>1, <3>1
  <2> QED  BY <1>1, <1>3, <2>3, <2>5, <2>6
<1>5. CASE m <= 2
  <2>1. MarchYear(y, m) = y + 100099  BY <1>5 DEF MarchYear
  <2>2. DaysBefore(y + 100099) \in Int
    <3>1. DaysBefore(MarchYear(y, m)) \in Int  BY DayCounts
    <3> QED  BY <2>1, <3>1
  <2>3. YearDays(y + 100099) = IF IsLeap(y) THEN 366 ELSE 365
    <3>1. DaysBefore(y + 100100) = DaysBefore(y + 100099) + IF IsLeap(y) THEN 366 ELSE 365  BY YearLength
    <3>2. (y + 100099) + 1 = y + 100100  BY SMT
    <3> QED  BY SMT, <2>2, <3>1, <3>2 DEF YearDays
  <2>4. CASE m = 1
    <3>1. MonthOffset(m) = 306  BY <2>4, MonthOffsets
    <3>2. YearDays(y + 100099) \in Int /\ YearDays(y + 100099) >= 365  BY <2>3
    <3> QED  BY <1>1, <1>2, <2>1, <3>1, <3>2
  <2>5. CASE m = 2
    <3>1. MonthOffset(m) = 337  BY <2>5, MonthOffsets
    <3>2. DaysIn(y, m) = IF IsLeap(y) THEN 29 ELSE 28  BY <2>5 DEF DaysIn
    <3>3. YearDays(y + 100099) = 337 + DaysIn(y, m)  BY <2>3, <3>2
    <3> QED  BY <1>1, <1>2, <2>1, <3>1, <3>3
  <2> QED  BY <1>5, <2>4, <2>5
<1> QED  BY <1>4, <1>5

\* The month and the day of a day of the year: d2g's line through the months.
LEMMA MonthLine ==
    ASSUME NEW m \in 1..12
    PROVE  \E k, c \in Nat : /\ MonthOffset(m) * 5 + 308 = 153 * k + c /\ k % 12 = m - 1
                             /\ c <= 4 /\ (m \notin {2, 4, 6, 9, 11} => c <= 2)
<1>1. MonthOffset(m) * 5 + 308 = 153 * (((m + 9) % 12) + 2) + (4 - ((153 * ((m + 9) % 12) + 2) % 5))
  BY DEF MonthOffset
<1>2. (((m + 9) % 12) + 2) % 12 = m - 1  OBVIOUS
<1>3. (153 * ((m + 9) % 12) + 2) % 5 \in 0..4 /\ ((m + 9) % 12) + 2 \in Nat  OBVIOUS
<1>4. m \notin {2, 4, 6, 9, 11} => (153 * ((m + 9) % 12) + 2) % 5 >= 2  OBVIOUS
<1> WITNESS ((m + 9) % 12) + 2 \in Nat, 4 - ((153 * ((m + 9) % 12) + 2) % 5) \in Nat
<1> QED  BY <1>1, <1>2, <1>3, <1>4

\* The month and the day of it, from the day of the year that d2g has found.
LEMMA MonthOf ==
    ASSUME NEW m \in 1..12, NEW d \in 1..31, m \in {2, 4, 6, 9, 11} => d <= 30,
           NEW e \in Nat, e = MonthOffset(m) + d - 1, NEW i \in Int, i = e * 5 + 308
    PROVE  Mod(Div(i, 153), 12) + 1 = m /\ Div(Mod(i, 153), 5) + 1 = d
<1>1. PICK k, c \in Nat : /\ MonthOffset(m) * 5 + 308 = 153 * k + c /\ k % 12 = m - 1
                          /\ c <= 4 /\ (m \notin {2, 4, 6, 9, 11} => c <= 2)
  BY MonthLine
<1>2. PICK x \in Nat : x = c + 5 * (d - 1)  OBVIOUS
<1>3. x <= 152  BY <1>1, <1>2
<1>4. MonthOffset(m) \in Int  BY DayCounts
<1>5. i = 153 * k + x  BY <1>1, <1>2, <1>4
<1>6. Div(i, 153) = k  BY <1>3, <1>5 DEF Div
<1>7. Mod(i, 153) = x
  <2>1. Mod(i, 153) = i - k * 153  BY <1>6 DEF Mod
  <2> QED  BY <1>5, <2>1
<1>8. Mod(k, 12) = k % 12  BY DEF Mod, Div
<1>9. Div(x, 5) = d - 1  BY <1>1, <1>2 DEF Div
<1> QED  BY <1>1, <1>6, <1>7, <1>8, <1>9

\* d2g takes g2d back, on every date.
LEMMA D2GOfDay ==
    ASSUME NEW y \in Nat, NEW m \in 1..12, NEW d \in Int, d >= 1, d <= DaysIn(y, m)
    PROVE  D2G(G2D(y, m, d)) = Day(y, m, d)
<1>1. PICK Y \in Nat : Y = MarchYear(y, m)  BY DayOfYear
<1>2. PICK e \in Nat : e = MonthOffset(m) + d - 1  BY DayOfYear
<1>3. PICK D \in Nat : D = DaysBefore(Y)
  <2>1. e < YearDays(Y)  BY <1>1, <1>2, DayOfYear
  <2> QED  BY <2>1, CenturyOf
<1>4. PICK h : h = (3 * (Y \div 100)) \div 4  OBVIOUS
<1>5. h \in Int  BY <1>4
<1>6. /\ (4 * (D + e)) \div 146097 = Y \div 100
      /\ 4 * (D + e) + 4 * h = 1461 * Y + (4 * e - (Y % 4))
      /\ 4 * e + 3 - (Y % 4) >= 0 /\ 4 * e + 3 - (Y % 4) <= 1460
  <2>1. e < YearDays(Y)  BY <1>1, <1>2, DayOfYear
  <2> QED  BY <1>3, <1>4, <2>1, CenturyOf
<1>7. PICK n : n = G2D(y, m, d)  OBVIOUS
<1>8. n = D + e + 1 - 34839656
  <2>1. MonthOffset(m) \in Int  BY DayCounts
  <2> QED  BY SMT, <1>1, <1>2, <1>3, <1>7, <2>1, G2DForm
<1>9. Div(Div(4 * n + 183187720, 146097) * 3, 4) = h + 225
  <2>1. 4 * n + 183187720 = 4 * (D + e) + 146097 * 300  BY SMT, <1>8
  <2>2. Div(4 * n + 183187720, 146097) = (Y \div 100) + 300
    <3>1. PICK x \in Nat : x = 4 * (D + e)  OBVIOUS
    <3>2. (x + 146097 * 300) \div 146097 = x \div 146097 + 300  BY SMT
    <3>3. x + 146097 * 300 >= 0  BY SMT
    <3>4. Div(x + 146097 * 300, 146097) = (x + 146097 * 300) \div 146097  BY SMT, <3>3 DEF Div
    <3> QED  BY <1>6, <2>1, <3>1, <3>2, <3>4
  <2>3. PICK c \in Nat : c = Y \div 100  OBVIOUS
  <2>4. Div((c + 300) * 3, 4) = (3 * c) \div 4 + 225  BY DEF Div
  <2> QED  BY <1>4, <2>2, <2>3, <2>4
<1>10. PICK j : j = 4 * n + 139361631 + Div(Div(4 * n + 183187720, 146097) * 3, 4) * 4 - 3908  OBVIOUS
<1>11. PICK x \in Int : x = 4 * e + 3 - (Y % 4)  OBVIOUS
<1>12. j = 1461 * Y + x
  <2>1. j = 4 * n + 139361631 + (h + 225) * 4 - 3908  BY <1>9, <1>10
  <2>2. j = 4 * (D + e) + 4 * h + 3  BY SMT, <1>5, <1>8, <2>1
  <2>3. Y % 4 \in Int  OBVIOUS
  <2> QED  BY <1>6, <1>11, <2>2, <2>3
<1>13. x >= 0 /\ x <= 1460  BY <1>6, <1>11
<1>14. Div(j, 1461) = Y /\ Mod(j, 1461) = x
  <2>1. j \in Nat  BY <1>12, <1>13
  <2>2. Div(j, 1461) = Y  BY <1>12, <1>13, <2>1 DEF Div
  <2> QED  BY <1>12, <2>2 DEF Mod
<1>15. Div(x, 4) = e
  <2>1. Y % 4 \in 0..3  OBVIOUS
  <2> QED  BY <1>11, <1>13, <2>1 DEF Div
<1>16. PICK i \in Int : i = e * 5 + 308  OBVIOUS
<1>17. Mod(Div(i, 153), 12) + 1 = m /\ Div(Mod(i, 153), 5) + 1 = d
  <2>1. DaysIn(y, m) \in Int /\ DaysIn(y, m) <= 31  BY DayCounts
  <2>2. d \in 1..31  BY <2>1
  <2>3. m \in {2, 4, 6, 9, 11} => d <= 30  BY DEF DaysIn
  <2> QED  BY SMTT(60), <1>2, <1>16, <2>2, <2>3, MonthOf
<1>18. Y - 100100 + Div(8 - m, 6) = y  BY <1>1 DEF MarchYear, Div
<1>19. D2G(n) = Day(y, m, d)
  <2>1. D2G(n) = Day(Div(j, 1461) - 100100 + Div(8 - (Mod(Div(i, 153), 12) + 1), 6), Mod(Div(i, 153), 12) + 1,
                     Div(Mod(i, 153), 5) + 1)
    BY <1>10, <1>14, <1>15, <1>16 DEF D2G
  <2> QED  BY <1>14, <1>17, <1>18, <2>1
<1> QED  BY <1>7, <1>19

--------------------------------------------------------------------------------
(* The Jalali years.                                                          *)

\* The breaks around the years counted.
LEMMA BreaksAre ==
    /\ Len(Breaks) = 20
    /\ Breaks[11] = 1210 /\ Breaks[12] = 1635
    /\ \A i \in 1..11 : Breaks[i] <= 1210
    /\ \A i \in 1..20 : Breaks[i] \in Int
<1>1. Len(Breaks) = 20  BY DEF Breaks
<1>2. Breaks[11] = 1210 /\ Breaks[12] = 1635  BY DEF Breaks
<1>3. \A i \in 1..11 : Breaks[i] <= 1210  BY DEF Breaks
<1>4. \A i \in 1..20 : Breaks[i] \in Int  BY DEF Breaks
<1> QED  BY <1>1, <1>2, <1>3, <1>4

\* The years between the breaks.
LEMMA Jumps ==
  /\ Jump(2) = 70
  /\ Jump(3) = 29
  /\ Jump(4) = 161
  /\ Jump(5) = 227
  /\ Jump(6) = 260
  /\ Jump(7) = 70
  /\ Jump(8) = 62
  /\ Jump(9) = 293
  /\ Jump(10) = 70
  /\ Jump(11) = 29
  /\ Jump(12) = 425
  /\ Jump(13) = 425
  /\ Jump(14) = 37
  /\ Jump(15) = 95
  /\ Jump(16) = 70
  /\ Jump(17) = 62
  /\ Jump(18) = 70
  /\ Jump(19) = 62
  /\ Jump(20) = 722
  BY DEF Breaks, Jump

\* LeapsBefore, evaluated.
Counts == <<-14, 3, 10, 49, 104, 167, 184, 199, 270, 287, 294, 397, 500, 509, 532, 549, 564, 581, 596, 771>>

\* The recursive function exists, and is its equation.
LEMMA LeapsCounted ==
    LeapsBefore = [i \in 1..20 |-> IF i = 1 THEN -14
                     ELSE LeapsBefore[i - 1] + Div(Jump(i), 33) * 8 + Div(Mod(Jump(i), 33), 4)]
<1> DEFINE Step(f) == [i \in 1..20 |-> IF i = 1 THEN -14 ELSE f[i - 1] + Div(Jump(i), 33) * 8 + Div(Mod(Jump(i), 33), 4)]
<1>1. LeapsBefore = CHOOSE f : f = Step(f)  BY BreaksAre DEF LeapsBefore
<1>2. ASSUME NEW i \in 1..20
      PROVE  Counts[i] = IF i = 1 THEN -14 ELSE Counts[i - 1] + Div(Jump(i), 33) * 8 + Div(Mod(Jump(i), 33), 4)
  <2>1. CASE i = 1  BY <2>1, Jumps DEF Counts, Div, Mod
  <2>2. CASE i = 2  BY <2>2, Jumps DEF Counts, Div, Mod
  <2>3. CASE i = 3  BY <2>3, Jumps DEF Counts, Div, Mod
  <2>4. CASE i = 4  BY <2>4, Jumps DEF Counts, Div, Mod
  <2>5. CASE i = 5  BY <2>5, Jumps DEF Counts, Div, Mod
  <2>6. CASE i = 6  BY <2>6, Jumps DEF Counts, Div, Mod
  <2>7. CASE i = 7  BY <2>7, Jumps DEF Counts, Div, Mod
  <2>8. CASE i = 8  BY <2>8, Jumps DEF Counts, Div, Mod
  <2>9. CASE i = 9  BY <2>9, Jumps DEF Counts, Div, Mod
  <2>10. CASE i = 10  BY <2>10, Jumps DEF Counts, Div, Mod
  <2>11. CASE i = 11  BY <2>11, Jumps DEF Counts, Div, Mod
  <2>12. CASE i = 12  BY <2>12, Jumps DEF Counts, Div, Mod
  <2>13. CASE i = 13  BY <2>13, Jumps DEF Counts, Div, Mod
  <2>14. CASE i = 14  BY <2>14, Jumps DEF Counts, Div, Mod
  <2>15. CASE i = 15  BY <2>15, Jumps DEF Counts, Div, Mod
  <2>16. CASE i = 16  BY <2>16, Jumps DEF Counts, Div, Mod
  <2>17. CASE i = 17  BY <2>17, Jumps DEF Counts, Div, Mod
  <2>18. CASE i = 18  BY <2>18, Jumps DEF Counts, Div, Mod
  <2>19. CASE i = 19  BY <2>19, Jumps DEF Counts, Div, Mod
  <2>20. CASE i = 20  BY <2>20, Jumps DEF Counts, Div, Mod
  <2> QED  BY <2>1, <2>2, <2>3, <2>4, <2>5, <2>6, <2>7, <2>8, <2>9, <2>10, <2>11, <2>12, <2>13, <2>14, <2>15, <2>16, <2>17, <2>18, <2>19, <2>20
<1>3. Counts = Step(Counts)  BY <1>2 DEF Counts
<1>4. LeapsBefore = Step(LeapsBefore)
  <2> HIDE DEF Step
  <2> QED  BY <1>1, <1>3
<1> QED  BY <1>4

\* Leap years up to the break the years counted begin at.
LEMMA LeapsAt ==
    LeapsBefore[11] = 294
<1>1. /\ LeapsBefore[1] = -14
      /\ \A i \in 2..20 : LeapsBefore[i] = LeapsBefore[i - 1] + Div(Jump(i), 33) * 8 + Div(Mod(Jump(i), 33), 4)
  <2> DEFINE g == [i \in 1..20 |-> IF i = 1 THEN -14
                     ELSE LeapsBefore[i - 1] + Div(Jump(i), 33) * 8 + Div(Mod(Jump(i), 33), 4)]
  <2>1. LeapsBefore = g  BY LeapsCounted
  <2>2. g[1] = -14  OBVIOUS
  <2>3. \A i \in 2..20 : g[i] = LeapsBefore[i - 1] + Div(Jump(i), 33) * 8 + Div(Mod(Jump(i), 33), 4)
    OBVIOUS
  <2> HIDE DEF g
  <2> QED  BY <2>1, <2>2, <2>3
<1>2. ASSUME NEW i \in 2..20
      PROVE  LeapsBefore[i] = LeapsBefore[i - 1] + Div(Jump(i), 33) * 8 + Div(Mod(Jump(i), 33), 4)
  BY <1>1
<1>3. LeapsBefore[2] = 3
  <2>1. LeapsBefore[2] = LeapsBefore[1] + Div(Jump(2), 33) * 8 + Div(Mod(Jump(2), 33), 4)  BY <1>2
  <2>2. LeapsBefore[2] = -14 + Div(Jump(2), 33) * 8 + Div(Mod(Jump(2), 33), 4)  BY <1>1, <2>1
  <2> QED  BY <2>2, Jumps DEF Div, Mod
<1>4. LeapsBefore[3] = 10  BY <1>3, <1>2, Jumps DEF Div, Mod
<1>5. LeapsBefore[4] = 49  BY <1>4, <1>2, Jumps DEF Div, Mod
<1>6. LeapsBefore[5] = 104  BY <1>5, <1>2, Jumps DEF Div, Mod
<1>7. LeapsBefore[6] = 167  BY <1>6, <1>2, Jumps DEF Div, Mod
<1>8. LeapsBefore[7] = 184  BY <1>7, <1>2, Jumps DEF Div, Mod
<1>9. LeapsBefore[8] = 199  BY <1>8, <1>2, Jumps DEF Div, Mod
<1>10. LeapsBefore[9] = 270  BY <1>9, <1>2, Jumps DEF Div, Mod
<1>11. LeapsBefore[10] = 287  BY <1>10, <1>2, Jumps DEF Div, Mod
<1> QED  BY <1>11, <1>2, Jumps DEF Div, Mod

\* Leap years from the first of the years counted to the n-th after it.
LeapsIn(n) == 8 * (n \div 33) + ((n % 33) + 3) \div 4

\* jalCal's test on the n-th year.
AfterLeap(n) == (((n + 1) % 33) - 1) % 4 = 1

\* The day of March a year begins on.
MarchOf(jy) == 464 + LeapsIn(jy - 1210) - (jy + 621) \div 4 + (((jy + 621) \div 100 + 1) * 3) \div 4

\* jalCal on the years counted.
LEMMA JalCalForm ==
    ASSUME NEW jy \in 1210..1634
    PROVE  /\ JalCal(jy).gy = jy + 621
           /\ JalCal(jy).march = MarchOf(jy)
           /\ jy <= 1629 => (JalCal(jy).leap = 1 <=> AfterLeap(jy - 1210))
           /\ jy > 1629 => (JalCal(jy).leap = 1 <=> AfterLeap(jy - 1206))
<1> DEFINE past == {i \in 2..Len(Breaks) : jy < Breaks[i]}
           end == IF past = {} THEN Len(Breaks) ELSE CHOOSE i \in past : \A k \in past : i <= k
           base == IF past = {} THEN end ELSE end - 1
           jump == Jump(end)
           n == jy - Breaks[base]
           leapJ == LeapsBefore[base] + Div(n, 33) * 8 + Div(Mod(n, 33) + 3, 4)
                 + IF Mod(jump, 33) = 4 /\ jump - n = 4 THEN 1 ELSE 0
           gy == jy + 621
           leapG == Div(gy, 4) - Div((Div(gy, 100) + 1) * 3, 4) - 150
           n2 == IF jump - n < 6 THEN n - jump + Div(jump + 4, 33) * 33 ELSE n
           leap == Mod(Mod(n2 + 1, 33) - 1, 4)
<1>1. JalCal(jy) = [gy |-> gy, march |-> 20 + leapJ - leapG, leap |-> IF leap = -1 THEN 4 ELSE leap]
  BY DEF JalCal
<1>2. past # {} /\ end = 12
  <2>1. \A i \in 2..11 : ~(jy < Breaks[i])  BY BreaksAre
  <2>2. jy < Breaks[12] /\ Len(Breaks) = 20  BY BreaksAre
  <2>3. 12 \in past  BY <2>2
  <2>4. \A k \in past : 12 <= k  BY <2>1, <2>2
  <2>5. \A k \in past : k \in Int  BY <2>2
  <2>6. past # {}  BY <2>3
  <2>7. end = CHOOSE i \in past : \A k \in past : i <= k  BY <2>6
  <2> HIDE DEF past
  <2>8. end \in past /\ \A k \in past : end <= k  BY <2>3, <2>4, <2>7
  <2>9. end <= 12 /\ 12 <= end /\ end \in Int  BY <2>3, <2>4, <2>5, <2>8
  <2> QED  BY <2>6, <2>9
<1>3. base = 11 /\ jump = 425
  <2> HIDE DEF past
  <2>1. base = end - 1  BY <1>2
  <2> HIDE DEF end
  <2> QED  BY <1>2, <2>1, Jumps
<1> HIDE DEF past, end, base, jump
<1>4. n = jy - 1210  BY <1>3, BreaksAre
<1>5. PICK N \in Nat : N = jy - 1210 /\ N <= 424  OBVIOUS
<1>6. n = N  BY <1>4, <1>5
<1> HIDE DEF n
<1>7. leapJ = 294 + LeapsIn(N)
  <2>1. Mod(425, 33) = 29  BY DEF Mod, Div
  <2>2. leapJ = 294 + Div(N, 33) * 8 + Div(Mod(N, 33) + 3, 4) + 0
    <3>1. leapJ = LeapsBefore[11] + Div(n, 33) * 8 + Div(Mod(n, 33) + 3, 4)
                    + IF Mod(425, 33) = 4 /\ 425 - n = 4 THEN 1 ELSE 0
      BY <1>3
    <3>2. ~(Mod(425, 33) = 4 /\ 425 - n = 4)  BY <2>1
    <3> QED  BY <1>6, <3>1, <3>2, LeapsAt
  <2>3. Div(N, 33) = N \div 33 /\ Mod(N, 33) = N % 33  BY DEF Div, Mod
  <2>4. Div((N % 33) + 3, 4) = ((N % 33) + 3) \div 4  BY DEF Div
  <2>5. N \div 33 \in Int /\ ((N % 33) + 3) \div 4 \in Int  OBVIOUS
  <2>6. leapJ = 294 + (N \div 33) * 8 + ((N % 33) + 3) \div 4 + 0  BY <2>2, <2>3, <2>4
  <2>7. LeapsIn(N) = 8 * (N \div 33) + ((N % 33) + 3) \div 4  BY DEF LeapsIn
  <2> HIDE DEF leapJ
  <2> QED  BY <2>5, <2>6, <2>7
<1>8. leapG = gy \div 4 - ((gy \div 100 + 1) * 3) \div 4 - 150
  BY DEF Div
<1>9. 20 + leapJ - leapG = 464 + LeapsIn(N) - gy \div 4 + ((gy \div 100 + 1) * 3) \div 4
  <2>1. LeapsIn(N) \in Int  BY DEF LeapsIn
  <2>2. gy \div 4 \in Int /\ ((gy \div 100 + 1) * 3) \div 4 \in Int  OBVIOUS
  <2> HIDE DEF leapJ, leapG, gy
  <2> QED  BY <1>7, <1>8, <2>1, <2>2
<1>10. n2 = IF N > 419 THEN N + 4 ELSE N
  <2>1. Div(429, 33) = 13  BY DEF Div
  <2>2. n2 = IF 425 - N < 6 THEN N - 425 + Div(425 + 4, 33) * 33 ELSE N  BY <1>3, <1>6
  <2>3. 425 + 4 = 429  OBVIOUS
  <2>4. n2 = IF 425 - N < 6 THEN N - 425 + 13 * 33 ELSE N  BY <2>1, <2>2, <2>3
  <2> HIDE DEF n2
  <2> QED  BY <2>4
<1> HIDE DEF n2
<1>11. PICK v \in Nat : v = n2  BY <1>10
<1>11b. leap = 1 <=> (((v + 1) % 33) - 1) % 4 = 1
  <2>1. Mod(v + 1, 33) = (v + 1) % 33  BY DEF Mod, Div
  <2>2. PICK w \in Int : w = (v + 1) % 33  OBVIOUS
  <2>3. w >= 0 /\ w <= 32  BY <2>2
  <2>4. Mod(w - 1, 4) = 1 <=> (w - 1) % 4 = 1
    <3>1. CASE w = 0
      <4>1. PICK u \in Int : u = w - 1  BY <2>2
      <4>2. u < 0 /\ u > 0 - 2  BY <3>1, <4>1
      <4>3. u % 4 = 3  BY SMT, <4>2
      <4>4. Div(u, 4) = 0  BY <4>2 DEF Div
      <4>5. Mod(u, 4) = u  BY <4>4 DEF Mod
      <4> QED  BY <4>1, <4>2, <4>3, <4>5
    <3>2. CASE w > 0
      <4>1. Mod(w - 1, 4) = (w - 1) % 4  BY <3>2 DEF Mod, Div
      <4> QED  BY <4>1
    <3> QED  BY <2>3, <3>1, <3>2
  <2>5. leap = Mod(Mod(v + 1, 33) - 1, 4)  BY <1>11
  <2> HIDE DEF leap
  <2> QED  BY <2>1, <2>2, <2>4, <2>5
<1> HIDE DEF leap, leapJ, leapG
<1>12. JalCal(jy).leap = 1 <=> leap = 1
  <2>1. JalCal(jy).leap = IF leap = -1 THEN 4 ELSE leap  BY <1>1
  <2>2. CASE leap = -1  BY <2>1, <2>2
  <2>3. CASE leap # -1  BY <2>1, <2>3
  <2> QED  BY <2>2, <2>3
<1>13. JalCal(jy).gy = gy /\ JalCal(jy).march = 20 + leapJ - leapG  BY <1>1
<1>14. n2 = IF jy - 1210 > 419 THEN jy - 1206 ELSE jy - 1210  BY <1>5, <1>10
<1>15. JalCal(jy).leap = 1 <=> AfterLeap(v)  BY <1>11b, <1>12 DEF AfterLeap
<1>16. /\ jy <= 1629 => (JalCal(jy).leap = 1 <=> AfterLeap(jy - 1210))
       /\ jy > 1629 => (JalCal(jy).leap = 1 <=> AfterLeap(jy - 1206))
  <2>1. jy <= 1629 => v = jy - 1210  BY <1>11, <1>14
  <2>2. jy > 1629 => v = jy - 1206  BY <1>11, <1>14
  <2> QED  BY <1>15, <2>1, <2>2
<1>17. JalCal(jy).march = MarchOf(jy)
  BY <1>5, <1>9, <1>13 DEF MarchOf
<1> QED  BY <1>13, <1>16, <1>17

\* The first day of a year, and the days before a month.
Nowruz(jy) == G2D(JalCal(jy).gy, 3, JalCal(jy).march)
MonthStart(m) == IF m <= 6 THEN 31 * (m - 1) ELSE 186 + 30 * (m - 7)

\* The centuries of g2d and jalCal cancel out.
LEMMA NowruzForm ==
    ASSUME NEW jy \in 1210..1634
    PROVE  Nowruz(jy) = 365 * jy + 1948248 + LeapsIn(jy - 1210)
<1>0. JalCal(jy).gy = jy + 621 /\ JalCal(jy).march = MarchOf(jy)  BY Z3T(30), JalCalForm
<1>1. PICK gy \in Nat : gy = jy + 621  OBVIOUS
<1>2. PICK l \in Int : l = LeapsIn(jy - 1210)  BY DEF LeapsIn
<1>3. PICK q \in Int : q = gy \div 4  OBVIOUS
<1>4. PICK h \in Int : h = ((gy \div 100 + 1) * 3) \div 4  OBVIOUS
<1>5. JalCal(jy).gy = gy /\ JalCal(jy).march = 464 + l - q + h
  <2>1. MarchOf(jy) = 464 + l - q + h  BY <1>1, <1>2, <1>3, <1>4 DEF MarchOf
  <2> QED  BY <1>0, <1>1, <2>1
<1>6. PICK march \in Int : march = 464 + l - q + h  OBVIOUS
<1>7. Nowruz(jy) = DaysBefore(MarchYear(gy, 3)) + MonthOffset(3) + march - 34839656
  BY SMT, <1>5, <1>6, G2DForm DEF Nowruz
<1>8. DaysBefore(MarchYear(gy, 3)) = 365 * gy + 36536500 + q + 25025 - h - 750
  <2>1. MarchYear(gy, 3) = gy + 100100  BY DEF MarchYear
  <2>2. (gy + 100100) \div 4 = q + 25025  BY SMT, <1>3
  <2>3. (gy + 100100) \div 100 = gy \div 100 + 1001  BY SMT
  <2>4. PICK c \in Nat : c = gy \div 100  OBVIOUS
  <2>5. (3 * (c + 1001)) \div 4 = ((c + 1) * 3) \div 4 + 750  BY SMT
  <2>6. (3 * ((gy + 100100) \div 100)) \div 4 = h + 750  BY <1>4, <2>3, <2>4, <2>5
  <2>7. DaysBefore(gy + 100100) = 365 * (gy + 100100) + (q + 25025) - (h + 750)
    BY SMT, <2>2, <2>6 DEF DaysBefore
  <2> QED  BY SMT, <2>1, <2>7
<1>9. MonthOffset(3) = 0  BY MonthOffsets
<1> QED  BY SMT, <1>1, <1>2, <1>6, <1>7, <1>8, <1>9

\* A leap year is one day longer.
LEMMA NowruzStep ==
    ASSUME NEW jy \in 1210..1633
    PROVE  Nowruz(jy + 1) = Nowruz(jy) + 365 + IF IsJalaliLeap(jy) THEN 1 ELSE 0
<1>1. PICK n \in Nat : n = jy - 1210  OBVIOUS
<1>2. LeapsIn(n + 1) = LeapsIn(n) + IF IsJalaliLeap(jy) THEN 1 ELSE 0
  <2>1. PICK q, r \in Nat : n = 33 * q + r /\ r <= 32
    <3>1. n \div 33 \in Nat /\ n % 33 \in Nat /\ n % 33 <= 32 /\ n = 33 * (n \div 33) + (n % 33)  OBVIOUS
    <3> WITNESS n \div 33 \in Nat, n % 33 \in Nat
    <3> QED  BY <3>1
  <2>2. n \div 33 = q /\ n % 33 = r  BY <2>1
  <2>3. jy % 33 = IF r <= 10 THEN r + 22 ELSE r - 11  BY <1>1, <2>1
  <2>4. IsJalaliLeap(jy) <=> r \in {0, 4, 8, 12, 16, 20, 24, 28}  BY <2>1, <2>3 DEF IsJalaliLeap
  <2>5. LeapsIn(n) = 8 * q + (r + 3) \div 4  BY <2>2 DEF LeapsIn
  <2>6. CASE r < 32
    <3>1. (n + 1) \div 33 = q /\ (n + 1) % 33 = r + 1  BY <2>1, <2>6
    <3>2. LeapsIn(n + 1) = 8 * q + (r + 4) \div 4  BY <3>1 DEF LeapsIn
    <3>3. (r + 4) \div 4 = (r + 3) \div 4 + IF r \in {0, 4, 8, 12, 16, 20, 24, 28} THEN 1 ELSE 0  BY <2>1, <2>6
    <3> QED  BY <2>4, <2>5, <3>2, <3>3
  <2>7. CASE r = 32
    <3>1. (n + 1) \div 33 = q + 1 /\ (n + 1) % 33 = 0  BY <2>1, <2>7
    <3>2. LeapsIn(n + 1) = 8 * q + 8  BY <3>1 DEF LeapsIn
    <3> QED  BY <2>4, <2>5, <2>7, <3>2
  <2> QED  BY <2>1, <2>6, <2>7
<1>3. LeapsIn(n) \in Int  BY DEF LeapsIn
<1>4. Nowruz(jy) = 365 * jy + 1948248 + LeapsIn(n)  BY SMT, <1>1, NowruzForm
<1>5. Nowruz(jy + 1) = 365 * (jy + 1) + 1948248 + LeapsIn(n + 1)
  <2>1. jy + 1 \in 1210..1634 /\ (jy + 1) - 1210 = n + 1  BY <1>1
  <2> QED  BY SMT, <2>1, NowruzForm
<1> QED  BY SMT, <1>2, <1>3, <1>4, <1>5

\* jalCal's leap tells whether the year before was one.
LEMMA LastYearLeap ==
    ASSUME NEW jy \in 1210..1633
    PROVE  JalCal(jy + 1).leap = 1 <=> IsJalaliLeap(jy)
<1>1. PICK n \in Nat : n = jy - 1210 /\ n <= 423  OBVIOUS
<1>2. PICK n2 : n2 = IF n + 1 > 419 THEN n + 5 ELSE n + 1  OBVIOUS
<1>3. JalCal(jy + 1).leap = 1 <=> (((n2 + 1) % 33) - 1) % 4 = 1
  <2>1. jy + 1 \in 1210..1634 /\ (jy + 1) - 1210 = n + 1 /\ (jy + 1) - 1206 = n + 5  BY <1>1
  <2>2. PICK x \in 1210..1634 : x = jy + 1  BY <2>1
  <2>3. x - 1210 = n + 1 /\ x - 1206 = n + 5  BY <2>1, <2>2
  <2>4. /\ x <= 1629 => (JalCal(x).leap = 1 <=> AfterLeap(x - 1210))
        /\ x > 1629 => (JalCal(x).leap = 1 <=> AfterLeap(x - 1206))
    BY Z3T(30), JalCalForm
  <2>5. JalCal(x).leap = 1 <=> AfterLeap(n2)  BY <1>2, <2>3, <2>4
  <2> QED  BY <2>2, <2>5 DEF AfterLeap
<1>4. PICK q, r \in Nat : n = 33 * q + r /\ r <= 32
  <2>1. n \div 33 \in Nat /\ n % 33 \in Nat /\ n % 33 <= 32 /\ n = 33 * (n \div 33) + (n % 33)  OBVIOUS
  <2> WITNESS n \div 33 \in Nat, n % 33 \in Nat
  <2> QED  BY <2>1
<1>5. jy % 33 = IF r <= 10 THEN r + 22 ELSE r - 11  BY <1>1, <1>4
<1>6. IsJalaliLeap(jy) <=> r \in {0, 4, 8, 12, 16, 20, 24, 28}  BY <1>4, <1>5 DEF IsJalaliLeap
<1>7. CASE n + 1 <= 419
  <2>1. n2 + 1 = n + 2  BY <1>2, <1>7
  <2>2. (n + 2) % 33 = IF r <= 30 THEN r + 2 ELSE r - 31  BY <1>4
  <2>3. PICK s \in Int : s = (n2 + 1) % 33  BY <2>1
  <2>4. s = IF r <= 30 THEN r + 2 ELSE r - 31  BY <2>1, <2>2, <2>3
  <2>5. (s - 1) % 4 = 1 <=> r \in {0, 4, 8, 12, 16, 20, 24, 28}  BY <1>4, <2>4
  <2> QED  BY <1>3, <1>6, <2>3, <2>5
<1>8. CASE n + 1 > 419
  <2>1. n2 + 1 = n + 6  BY <1>2, <1>8
  <2>2. n \in {419, 420, 421, 422, 423}  BY <1>1, <1>8
  <2>3. r = n - 396  BY <1>4, <2>2
  <2>4. (n + 6) % 33 = IF n <= 422 THEN n - 390 ELSE 0  BY <2>2
  <2>5. PICK s \in Int : s = (n2 + 1) % 33  BY <2>1
  <2>6. s = IF n <= 422 THEN n - 390 ELSE 0  BY <2>1, <2>4, <2>5
  <2>7. (s - 1) % 4 = 1 <=> r \in {0, 4, 8, 12, 16, 20, 24, 28}  BY <2>2, <2>3, <2>6
  <2> QED  BY <1>3, <1>6, <2>5, <2>7
<1> QED  BY <1>7, <1>8

\* The lengths of months.
LEMMA JalaliCounts ==
    ASSUME NEW y \in Years, NEW m \in 1..12
    PROVE  /\ JalaliDaysIn(y, m) \in Int /\ JalaliDaysIn(y, m) >= 29 /\ JalaliDaysIn(y, m) <= 31
           /\ m > 6 => JalaliDaysIn(y, m) <= 30
  BY DEF JalaliDaysIn

\* j2d counts days.
LEMMA JalaliForm ==
    ASSUME NEW y \in Years, NEW m \in 1..12, NEW d \in Int
    PROVE  /\ J2D(y, m, d) = Nowruz(y) + MonthStart(m) + d - 1
           /\ Nowruz(y) \in Int /\ MonthStart(m) \in Int
<1>1. y \in 1210..1634  BY DEF Years
<1>2. LeapsIn(y - 1210) \in Int  BY <1>1 DEF LeapsIn
<1>3. Nowruz(y) \in Int  BY SMT, <1>1, <1>2, NowruzForm
<1>4. MonthStart(m) \in Int  BY DEF MonthStart
<1>5. J2D(y, m, d) = Nowruz(y) + (m - 1) * 31 - Div(m, 7) * (m - 7) + d - 1  BY DEF J2D, Nowruz
<1>6. Div(m, 7) = IF m <= 6 THEN 0 ELSE 1  BY DEF Div
<1>7. J2D(y, m, d) = Nowruz(y) + MonthStart(m) + d - 1  BY <1>3, <1>5, <1>6 DEF MonthStart
<1> QED  BY <1>3, <1>4, <1>7

\* The years.
LEMMA NextNowruz ==
    ASSUME NEW y \in Years, y + 1 \in Years
    PROVE  Nowruz(y + 1) = Nowruz(y) + 365 + IF IsJalaliLeap(y) THEN 1 ELSE 0
<1>1. y \in 1210..1633  BY SMT DEF Years
<1> QED  BY Z3T(30), <1>1, NowruzStep

\* A month is as long as the days counted from its first to the next one's.
LEMMA NextJalaliMonth ==
    ASSUME NEW y \in Years, NEW m \in 1..12, NEW d \in Int, NEW e \in Int, e = d - JalaliDaysIn(y, m)
    PROVE  /\ m < 12 => J2D(y, m + 1, e) = J2D(y, m, d)
           /\ m = 12 /\ y + 1 \in Years => J2D(y + 1, 1, e) = J2D(y, m, d)
<1>1. PICK l \in Int : l = JalaliDaysIn(y, m)  BY JalaliCounts
<1>2. /\ J2D(y, m, d) = Nowruz(y) + MonthStart(m) + d - 1
      /\ Nowruz(y) \in Int /\ MonthStart(m) \in Int
  BY JalaliForm
<1>3. ASSUME m < 12  PROVE J2D(y, m + 1, e) = J2D(y, m, d)
  <2>1. PICK n \in 1..12 : n = m + 1  BY <1>3
  <2>2. J2D(y, n, e) = Nowruz(y) + MonthStart(n) + e - 1  BY JalaliForm
  <2>3. MonthStart(n) = MonthStart(m) + l  BY <1>1, <1>3, <2>1 DEF MonthStart, JalaliDaysIn
  <2> QED  BY <1>1, <1>2, <2>1, <2>2, <2>3
<1>4. ASSUME m = 12, y + 1 \in Years  PROVE J2D(y + 1, 1, e) = J2D(y, m, d)
  <2>1. PICK z \in Years : z = y + 1  BY <1>4
  <2>2. J2D(z, 1, e) = Nowruz(z) + MonthStart(1) + e - 1  BY JalaliForm
  <2>3. MonthStart(1) = 0 /\ MonthStart(12) = 336  BY DEF MonthStart
  <2>4. Nowruz(z) = Nowruz(y) + 365 + IF IsJalaliLeap(y) THEN 1 ELSE 0  BY <1>4, <2>1, NextNowruz
  <2>5. l = IF IsJalaliLeap(y) THEN 30 ELSE 29  BY <1>1, <1>4 DEF JalaliDaysIn
  <2> QED  BY <1>1, <1>2, <1>4, <2>1, <2>2, <2>3, <2>4, <2>5
<1> QED  BY <1>3, <1>4

\* A day of a Jalali year, counted from its first.
LEMMA DayOfJalaliYear ==
    ASSUME NEW y \in Years, NEW m \in 1..12, NEW d \in 1..31, d <= JalaliDaysIn(y, m)
    PROVE  MonthStart(m) + d - 1 >= 0 /\ MonthStart(m) + d - 1 <= 364 + IF IsJalaliLeap(y) THEN 1 ELSE 0
  BY DEF MonthStart, JalaliDaysIn

\* Days of a month follow one another.
LEMMA JalaliDayAhead ==
    ASSUME NEW y \in Years, NEW m \in 1..12, NEW d \in Int, NEW e \in Int, NEW i \in Int, e = d + i
    PROVE  J2D(y, m, e) = J2D(y, m, d) + i
<1>1. /\ J2D(y, m, d) = Nowruz(y) + MonthStart(m) + d - 1
      /\ Nowruz(y) \in Int /\ MonthStart(m) \in Int
  BY JalaliForm
<1>2. J2D(y, m, e) = Nowruz(y) + MonthStart(m) + e - 1  BY JalaliForm
<1> QED  BY <1>1, <1>2

\* Day n has the Jalali date y, m, d.
IsDayOf(y, m, d, n) ==
    y \in Years /\ m \in 1..12 /\ d \in Int /\ d >= 1 /\ d <= JalaliDaysIn(y, m) /\ J2D(y, m, d) = n

\* Four weeks ahead there is another one.
LEMMA JalaliAhead ==
    ASSUME NEW y, NEW m, NEW d, NEW n \in Int, IsDayOf(y, m, d, n), y + 1 \in Years, NEW i \in Int, i >= 0, i <= 28
    PROVE  \E y2, m2, d2 : IsDayOf(y2, m2, d2, n + i)
<1>1. y \in Years /\ m \in 1..12 /\ d \in Int /\ d >= 1 /\ d <= JalaliDaysIn(y, m) /\ J2D(y, m, d) = n
  BY DEF IsDayOf
<1>2. PICK l \in Int : l = JalaliDaysIn(y, m) /\ l >= 29 /\ l <= 31  BY <1>1, JalaliCounts
<1>3. PICK e \in Int : e = d + i  BY <1>1
<1>4. J2D(y, m, e) = n + i
  <2>1. y \in Years /\ m \in 1..12 /\ d \in Int  BY <1>1
  <2>2. J2D(y, m, e) = J2D(y, m, d) + i  BY <1>3, <2>1, JalaliDayAhead
  <2> QED  BY <1>1, <2>2
<1>5. CASE e <= l
  <2>1. e >= 1  BY <1>1, <1>3
  <2>2. IsDayOf(y, m, e, n + i)  BY <1>1, <1>2, <1>4, <1>5, <2>1 DEF IsDayOf
  <2> QED  BY <2>2
<1>6. CASE e > l
  <2>1. PICK f \in Int : f = e - l  OBVIOUS
  <2>2. f >= 1 /\ f <= 28  BY <1>1, <1>2, <1>3, <1>6, <2>1
  <2>3. f = e - JalaliDaysIn(y, m)  BY <1>2, <2>1
  <2>4. CASE m < 12
    <3>1. PICK k \in 1..12 : k = m + 1  BY <1>1, <2>4
    <3>2. JalaliDaysIn(y, k) \in Int /\ JalaliDaysIn(y, k) >= 29  BY <1>1, JalaliCounts
    <3>3. f <= JalaliDaysIn(y, k)  BY <2>2, <3>2
    <3>4. J2D(y, k, f) = J2D(y, m, e)  BY <1>1, <2>3, <2>4, <3>1, NextJalaliMonth
    <3>5. IsDayOf(y, k, f, n + i)  BY <1>1, <1>4, <2>2, <3>3, <3>4 DEF IsDayOf
    <3> QED  BY <3>5
  <2>5. CASE m = 12
    <3>1. PICK z \in Years : z = y + 1  OBVIOUS
    <3>2. JalaliDaysIn(z, 1) \in Int /\ JalaliDaysIn(z, 1) >= 29  BY JalaliCounts
    <3>3. f <= JalaliDaysIn(z, 1)  BY <2>2, <3>2
    <3>4. J2D(z, 1, f) = J2D(y, m, e)  BY <1>1, <2>3, <2>5, <3>1, NextJalaliMonth
    <3>5. IsDayOf(z, 1, f, n + i)  BY <1>4, <2>2, <3>3, <3>4 DEF IsDayOf
    <3> QED  BY <3>5
  <2> QED  BY <1>1, <2>4, <2>5
<1> QED  BY <1>2, <1>5, <1>6

\* The next day of a Jalali date.
LEMMA NextJalaliCounts ==
    ASSUME NEW y, NEW m, NEW d, NEW n \in Int, IsDayOf(y, m, d, n), y + 1 \in Years
    PROVE  \E y2, m2, d2 : NextJalali(Day(y, m, d)) = Day(y2, m2, d2) /\ IsDayOf(y2, m2, d2, n + 1)
<1>1. y \in Years /\ m \in 1..12 /\ d \in Int /\ d >= 1 /\ d <= JalaliDaysIn(y, m) /\ J2D(y, m, d) = n
  BY DEF IsDayOf
<1>2. PICK l \in Int : l = JalaliDaysIn(y, m) /\ l >= 29 /\ l <= 31  BY <1>1, JalaliCounts
<1>3. NextJalali(Day(y, m, d)) = After(Day(y, m, d), l)  BY <1>2, Fields DEF NextJalali
<1>4. PICK e \in Int : e = d + 1  BY <1>1
<1>5. J2D(y, m, e) = n + 1  BY <1>1, <1>4, JalaliDayAhead
<1>6. m \in Int /\ m <= 12  BY <1>1
<1>7. CASE d < l
  <2>1. After(Day(y, m, d), l) = Day(y, m, e)  BY <1>1, <1>4, <1>6, <1>7, AfterForm
  <2>2. e >= 1 /\ e <= l  BY <1>1, <1>4, <1>7
  <2>3. IsDayOf(y, m, e, n + 1)  BY <1>1, <1>2, <1>5, <2>2 DEF IsDayOf
  <2> QED  BY <1>3, <2>1, <2>3
<1>8. CASE ~(d < l)
  <2>1. e - l = 1 /\ 1 = e - JalaliDaysIn(y, m)  BY <1>1, <1>2, <1>4, <1>8
  <2>2. CASE m < 12
    <3>1. PICK k \in 1..12 : k = m + 1  BY <1>6, <1>1, <2>2
    <3>2. After(Day(y, m, d), l) = Day(y, k, 1)  BY <1>1, <1>6, <1>8, <2>2, <3>1, AfterForm
    <3>3. JalaliDaysIn(y, k) \in Int /\ JalaliDaysIn(y, k) >= 29  BY <1>1, JalaliCounts
    <3>4. 1 <= JalaliDaysIn(y, k)  BY <3>3
    <3>5. J2D(y, k, 1) = J2D(y, m, e)  BY <1>1, <2>1, <2>2, <3>1, NextJalaliMonth
    <3>6. IsDayOf(y, k, 1, n + 1)  BY <1>1, <1>5, <3>4, <3>5 DEF IsDayOf
    <3> QED  BY <1>3, <3>2, <3>6
  <2>3. CASE ~(m < 12)
    <3>1. PICK z \in Years : z = y + 1  OBVIOUS
    <3>2. After(Day(y, m, d), l) = Day(z, 1, 1)  BY <1>1, <1>6, <1>8, <2>3, <3>1, AfterForm
    <3>3. JalaliDaysIn(z, 1) \in Int /\ JalaliDaysIn(z, 1) >= 29  BY JalaliCounts
    <3>4. 1 <= JalaliDaysIn(z, 1)  BY <3>3
    <3>5. m = 12  BY <1>6, <2>3
    <3>6. J2D(z, 1, 1) = J2D(y, m, e)  BY <1>1, <2>1, <3>1, <3>5, NextJalaliMonth
    <3>7. IsDayOf(z, 1, 1, n + 1)  BY <1>5, <3>4, <3>6 DEF IsDayOf
    <3> QED  BY <1>3, <3>2, <3>7
  <2> QED  BY <2>2, <2>3
<1> QED  BY <1>1, <1>2, <1>7, <1>8

--------------------------------------------------------------------------------
(* d2j takes a day to its Jalali date.                                        *)

\* 146097 days in 400 years, give or take.
LEMMA DaysBeforeBounds ==
    ASSUME NEW Y \in Nat
    PROVE  /\ DaysBefore(Y) \in Int
           /\ 400 * DaysBefore(Y) >= 146097 * Y - 300 /\ 400 * DaysBefore(Y) <= 146097 * Y + 600
<1>1. PICK c, r \in Nat : Y = 100 * c + r /\ r <= 99  BY Parts
<1>2. PICK u, v \in Nat : Y = 4 * u + v /\ v <= 3  BY Parts
<1>3. PICK h, w \in Nat : 3 * c = 4 * h + w /\ w <= 3
  <2>1. 3 * c \in Nat  OBVIOUS
  <2> QED  BY <2>1, Parts
<1>4. Y \div 100 = c /\ (3 * c) \div 4 = h /\ Y \div 4 = u  BY <1>1, <1>2, <1>3, Parts
<1>5. DaysBefore(Y) = 365 * Y + u - h  BY <1>4 DEF DaysBefore
<1> QED  BY SMT, <1>1, <1>2, <1>3, <1>5

\* A date's day, within months.
LEMMA DateBounds ==
    ASSUME NEW y \in Nat, NEW m \in 1..12, NEW d \in Int, d >= 1, d <= DaysIn(y, m)
    PROVE  /\ G2D(y, m, d) \in Int
           /\ 400 * G2D(y, m, d) >= 146097 * y + 688423700
           /\ 400 * G2D(y, m, d) <= 146097 * y + 688570600
<1>1. PICK Y \in Nat : Y = MarchYear(y, m)  BY DayOfYear
<1>2. PICK D \in Int : D = DaysBefore(Y)  BY DaysBeforeBounds
<1>3. 400 * D >= 146097 * Y - 300 /\ 400 * D <= 146097 * Y + 600  BY SMT, <1>2, DaysBeforeBounds
<1>4. PICK o \in Int : o = MonthOffset(m)  BY DayCounts
<1>5. d <= 31
  <2>1. DaysIn(y, m) \in Int /\ DaysIn(y, m) <= 31  BY DayCounts
  <2> QED  BY <2>1
<1>6. G2D(y, m, d) = D + o + d - 34839656  BY SMT, <1>1, <1>2, <1>4, G2DForm
<1>7. CASE m > 2
  <2>1. Y = y + 100100  BY SMT, <1>1, <1>7 DEF MarchYear
  <2>2. o >= 0 /\ o <= 275  BY <1>4, <1>7 DEF MonthOffset
  <2> QED  BY SMT, <1>3, <1>5, <1>6, <2>1, <2>2
<1>8. CASE m <= 2
  <2>1. Y = y + 100099  BY SMT, <1>1, <1>8 DEF MarchYear
  <2>2. o >= 306 /\ o <= 337  BY <1>4, <1>8 DEF MonthOffset
  <2> QED  BY SMT, <1>3, <1>5, <1>6, <2>1, <2>2
<1> QED  BY <1>7, <1>8

\* Eight leap years in 33.
LEMMA NowruzBounds ==
    ASSUME NEW y \in Years
    PROVE  /\ y \in Int /\ y >= 1210 /\ y <= 1634 /\ Nowruz(y) \in Int
           /\ 33 * Nowruz(y) >= 12053 * y + 64282504 /\ 33 * Nowruz(y) <= 12053 * y + 64282540
<1>1. y \in 1210..1634  BY DEF Years
<1>2. y \in Int /\ y >= 1210 /\ y <= 1634  BY SMT, <1>1
<1>3. PICK n \in Nat : n = y - 1210  BY <1>2
<1>4. PICK q, r \in Nat : n = 33 * q + r /\ r <= 32
  <2>1. n \div 33 \in Nat /\ n % 33 \in Nat /\ n % 33 <= 32 /\ n = 33 * (n \div 33) + (n % 33)  OBVIOUS
  <2> WITNESS n \div 33 \in Nat, n % 33 \in Nat
  <2> QED  BY <2>1
<1>5. n \div 33 = q /\ n % 33 = r  BY <1>4
<1>6. LeapsIn(n) = 8 * q + (r + 3) \div 4  BY <1>5 DEF LeapsIn
<1>7. 33 * ((r + 3) \div 4) >= 8 * r /\ 33 * ((r + 3) \div 4) <= 8 * r + 33  BY <1>4
<1>8. PICK l \in Int : l = LeapsIn(n)  BY DEF LeapsIn
<1>9. 33 * l >= 8 * n /\ 33 * l <= 8 * n + 33  BY <1>4, <1>6, <1>7, <1>8
<1>10. Nowruz(y) = 365 * y + 1948248 + l  BY SMT, <1>1, <1>3, <1>8, NowruzForm
<1> QED  BY SMT, <1>2, <1>3, <1>9, <1>10

\* The first of Farvardin is in March: a Jalali year begins in one Gregorian year and
\* ends in the next, and the next does not begin in its first half.
LEMMA TwoYears ==
    ASSUME NEW gy \in Nat, NEW gm \in 1..12, NEW gd \in Int, gd >= 1, gd <= DaysIn(gy, gm),
           NEW y \in Years, NEW n \in Int, n = G2D(gy, gm, gd), n >= Nowruz(y), n <= Nowruz(y) + 365
    PROVE  gy = y + 621 \/ (gy = y + 622 /\ n >= Nowruz(y) + 186)
<1>1. 400 * n >= 146097 * gy + 688423700 /\ 400 * n <= 146097 * gy + 688570600  BY SMT, DateBounds
<1>2. PICK N \in Int : N = Nowruz(y)  BY NowruzBounds
<1>3. /\ y \in Int /\ y >= 1210 /\ y <= 1634
      /\ 33 * N >= 12053 * y + 64282504 /\ 33 * N <= 12053 * y + 64282540
  BY SMT, <1>2, NowruzBounds
<1>4. n >= N /\ n <= N + 365  BY <1>2
<1>5. gy >= y + 621  BY SMT, <1>1, <1>3, <1>4
<1>6. gy <= y + 622  BY SMT, <1>1, <1>3, <1>4
<1>7. gy = y + 622 => n >= N + 186  BY SMT, <1>1, <1>3, <1>4
<1>8. gy = y + 621 \/ gy = y + 622  BY <1>3, <1>5, <1>6
<1> QED  BY <1>2, <1>7, <1>8

\* The month and the day of a day of a Jalali year, in its first and in its second half.
LEMMA FirstHalf ==
    ASSUME NEW m \in 1..12, NEW d \in Int, d >= 1, d <= 31, m <= 6, NEW k \in Int, k = MonthStart(m) + d - 1
    PROVE  k >= 0 /\ k <= 185 /\ 1 + Div(k, 31) = m /\ Mod(k, 31) + 1 = d
<1>1. PICK x \in Nat : x = m - 1 /\ x <= 5  OBVIOUS
<1>2. PICK z \in Nat : z = d - 1 /\ z <= 30  OBVIOUS
<1>3. k = 31 * x + z  BY <1>1, <1>2 DEF MonthStart
<1>4. k >= 0 /\ k <= 185  BY <1>1, <1>2, <1>3
<1>5. Div(k, 31) = x  BY <1>2, <1>3, <1>4 DEF Div
<1>6. Mod(k, 31) = z  BY <1>3, <1>5 DEF Mod
<1> QED  BY <1>1, <1>2, <1>4, <1>5, <1>6

\* d2j in the last six months, of 30 days each.
LEMMA SecondHalf ==
    ASSUME NEW m \in 1..12, NEW d \in Int, d >= 1, d <= 30, m > 6, NEW k \in Int, k = MonthStart(m) + d - 187
    PROVE  k >= 0 /\ 7 + Div(k, 30) = m /\ Mod(k, 30) + 1 = d
<1>1. PICK x \in Nat : x = m - 7 /\ x <= 5  OBVIOUS
<1>2. PICK z \in Nat : z = d - 1 /\ z <= 29  OBVIOUS
<1>3. k = 30 * x + z  BY <1>1, <1>2 DEF MonthStart
<1>4. k >= 0  BY <1>1, <1>2, <1>3
<1>5. Div(k, 30) = x  BY <1>2, <1>3, <1>4 DEF Div
<1>6. Mod(k, 30) = z  BY <1>3, <1>5 DEF Mod
<1> QED  BY <1>1, <1>2, <1>4, <1>5, <1>6

\* d2j, once the Gregorian year is known.
LEMMA D2JForm ==
    ASSUME NEW gy \in Nat, NEW gm \in 1..12, NEW gd \in Int, gd >= 1, gd <= DaysIn(gy, gm),
           NEW n \in Int, n = G2D(gy, gm, gd), NEW z \in Years, gy = z + 621
    PROVE  LET k == n - Nowruz(z)
               rest == IF k > 185 THEN k - 186 ELSE k + 179 + IF JalCal(z).leap = 1 THEN 1 ELSE 0
           IN D2J(n) = IF k >= 0 /\ k <= 185 THEN Day(z, 1 + Div(k, 31), Mod(k, 31) + 1)
                       ELSE Day(IF k > 185 THEN z ELSE z - 1, 7 + Div(rest, 30), Mod(rest, 30) + 1)
<1>1. D2G(n).y = gy  BY D2GOfDay, Fields
<1>2. z \in Int /\ z \in 1210..1634  BY SMT DEF Years
<1>3. gy - 621 = z /\ gy - 622 = z - 1  BY <1>2
<1>4. JalCal(z).gy = gy  BY Z3T(30), <1>2, JalCalForm
<1>5. Nowruz(z) = G2D(gy, 3, JalCal(z).march)  BY <1>4 DEF Nowruz
<1> DEFINE k == n - Nowruz(z)
           rest == IF k > 185 THEN k - 186 ELSE k + 179 + IF JalCal(z).leap = 1 THEN 1 ELSE 0
<1>6. D2J(n) = IF k >= 0 /\ k <= 185 THEN Day(gy - 621, 1 + Div(k, 31), Mod(k, 31) + 1)
               ELSE Day(IF k > 185 THEN gy - 621 ELSE gy - 622, 7 + Div(rest, 30), Mod(rest, 30) + 1)
  BY <1>1, <1>3, <1>5 DEF D2J
<1>7. D2J(n) = IF k >= 0 /\ k <= 185 THEN Day(z, 1 + Div(k, 31), Mod(k, 31) + 1)
               ELSE Day(IF k > 185 THEN z ELSE z - 1, 7 + Div(rest, 30), Mod(rest, 30) + 1)
  <2> HIDE DEF k, rest
  <2> QED  BY <1>3, <1>6
<1> QED  BY <1>7

\* The conversion of a day that has a date in each calendar gives the Jalali one.
LEMMA D2JOfDay ==
    ASSUME NEW gy \in Nat, NEW gm \in 1..12, NEW gd \in Int, gd >= 1, gd <= DaysIn(gy, gm),
           NEW n \in Int, n = G2D(gy, gm, gd), NEW y, NEW m, NEW d, IsDayOf(y, m, d, n), y + 1 \in Years
    PROVE  D2J(n) = Day(y, m, d)
<1>1. y \in Years /\ m \in 1..12 /\ d \in Int /\ d >= 1 /\ d <= JalaliDaysIn(y, m) /\ J2D(y, m, d) = n
  BY DEF IsDayOf
<1>2. JalaliDaysIn(y, m) \in Int /\ JalaliDaysIn(y, m) <= 31 /\ (m > 6 => JalaliDaysIn(y, m) <= 30)
  BY <1>1, JalaliCounts
<1>3. d <= 31 /\ (m > 6 => d <= 30) /\ d \in 1..31  BY <1>1, <1>2
<1>4. PICK N \in Int : N = Nowruz(y)  BY <1>1, JalaliForm
<1>5. PICK s \in Int : s = MonthStart(m)  BY <1>1, JalaliForm
<1>6. n = N + s + d - 1  BY <1>1, <1>4, <1>5, JalaliForm
<1>7. PICK b \in Int : b = IF IsJalaliLeap(y) THEN 1 ELSE 0  OBVIOUS
<1>8. s + d - 1 >= 0 /\ s + d - 1 <= 364 + b /\ (b = 0 \/ b = 1)
  BY <1>1, <1>3, <1>5, <1>7, DayOfJalaliYear
<1>9. gy = y + 621 \/ (gy = y + 622 /\ n >= N + 186)
  <2>0. d \in Int  BY <1>1
  <2>1. n >= Nowruz(y) /\ n <= Nowruz(y) + 365  BY <1>4, <1>6, <1>8, <2>0
  <2>2. gy \in Int  BY <1>1
  <2> QED  BY <1>1, <1>4, <2>1, <2>2, TwoYears
<1>10. y \in Int  BY <1>1, NowruzBounds
<1>11. CASE gy = y + 621
  <2>1. PICK k \in Int : k = n - Nowruz(y) /\ k = s + d - 1  BY <1>4, <1>6, <1>1
  <2>2. CASE m <= 6
    <3>1. k >= 0 /\ k <= 185 /\ 1 + Div(k, 31) = m /\ Mod(k, 31) + 1 = d
      BY <1>1, <1>3, <1>5, <2>1, <2>2, FirstHalf
    <3>2. D2J(n) = IF k >= 0 /\ k <= 185 THEN Day(y, 1 + Div(k, 31), Mod(k, 31) + 1) ELSE D2J(n)
      BY <1>1, <1>11, <2>1, D2JForm
    <3> QED  BY <3>1, <3>2
  <2>3. CASE m > 6
    <3>1. PICK rest \in Int : rest = k - 186  OBVIOUS
    <3>2. rest >= 0 /\ 7 + Div(rest, 30) = m /\ Mod(rest, 30) + 1 = d
      <4>1. rest = MonthStart(m) + d - 187  BY <1>1, <1>5, <2>1, <3>1
      <4> QED  BY <1>1, <1>3, <2>3, <4>1, SecondHalf
    <3>3. k > 185  BY <3>1, <3>2
    <3>4. D2J(n) = Day(y, 7 + Div(k - 186, 30), Mod(k - 186, 30) + 1)
      BY SMTT(30), <1>1, <1>11, <2>1, <3>3, D2JForm
    <3>5. 7 + Div(k - 186, 30) = m /\ Mod(k - 186, 30) + 1 = d  BY <3>1, <3>2
    <3> QED  BY <3>4, <3>5
  <2> QED  BY <1>1, <2>2, <2>3
<1>12. CASE gy = y + 622 /\ n >= N + 186
  <2>1. PICK z \in Years : z = y + 1  OBVIOUS
  <2>2. gy = z + 621 /\ z - 1 = y  BY <1>10, <1>12, <2>1
  <2>3. Nowruz(z) = N + 365 + b  BY <1>1, <1>4, <1>7, <2>1, NextNowruz
  <2>4. JalCal(z).leap = 1 <=> b = 1
    <3>1. y \in 1210..1633  BY SMT, <1>1 DEF Years
    <3>2. JalCal(y + 1).leap = 1 <=> IsJalaliLeap(y)  BY Z3T(30), <3>1, LastYearLeap
    <3> QED  BY <1>7, <2>1, <3>2
  <2>5. PICK k \in Int : k = n - Nowruz(z)  BY <2>3, <1>8
  <2>6. k < 0
    <3>1. d \in Int  BY <1>1
    <3> QED  BY <1>6, <1>8, <2>3, <2>5, <3>1
  <2>7. m > 6
    <3>1. s + d - 1 >= 186  BY <1>1, <1>6, <1>12
    <3> QED  BY <1>1, <1>3, <1>5, <3>1 DEF MonthStart
  <2>8. PICK rest \in Int : rest = k + 179 + b  BY <1>8
  <2>9. rest >= 0 /\ 7 + Div(rest, 30) = m /\ Mod(rest, 30) + 1 = d
    <3>1. rest = MonthStart(m) + d - 187  BY <1>1, <1>5, <1>6, <1>8, <2>3, <2>5, <2>8
    <3> QED  BY <1>1, <1>3, <2>7, <3>1, SecondHalf
  <2>10. b = IF JalCal(z).leap = 1 THEN 1 ELSE 0  BY <1>8, <2>4
  <2>11. D2J(n) = Day(z - 1, 7 + Div(rest, 30), Mod(rest, 30) + 1)
    <3>1. D2J(n) = LET r == k + 179 + IF JalCal(z).leap = 1 THEN 1 ELSE 0
                   IN Day(z - 1, 7 + Div(r, 30), Mod(r, 30) + 1)
      BY <2>2, <2>5, <2>6, D2JForm
    <3> QED  BY <2>8, <2>10, <3>1
  <2> QED  BY <2>2, <2>9, <2>11
<1> QED  BY <1>9, <1>11, <1>12

--------------------------------------------------------------------------------
(* The invariant and the theorems.                                            *)

\* Today is one day, counted three ways, in the years counted; the page was opened on a
\* day like that, not after today.
IInv ==
    /\ jdn \in 0..LastDay
    /\ IsDate(date) /\ DayNumber(date) = jdn
    /\ IsJalaliDate(jalali) /\ JalaliDayNumber(jalali) = jdn
    /\ opened.jdn \in 0..jdn
    /\ IsDate(opened.date) /\ DayNumber(opened.date) = opened.jdn
    /\ \E y, m, d : IsDayOf(y, m, d, opened.jdn)

\* Dates as records and by their fields.
LEMMA JalaliDateForm ==
    ASSUME NEW t, IsJalaliDate(t)
    PROVE  \E y, m, d : t = Day(y, m, d) /\ IsDayOf(y, m, d, JalaliDayNumber(t))
<1>1. t = Day(t.y, t.m, t.d) /\ t.y \in Years /\ t.m \in 1..12 /\ t.d \in 1..31 /\ t.d <= JalaliDaysIn(t.y, t.m)
  BY DEF IsJalaliDate, Day
<1>2. t.d \in Int /\ t.d >= 1  BY <1>1
<1>3. IsDayOf(t.y, t.m, t.d, JalaliDayNumber(t))  BY <1>1, <1>2 DEF IsDayOf, JalaliDayNumber
<1> QED  BY <1>1, <1>3

\* A Jalali date from its fields and its number.
LEMMA DayIsJalaliDate ==
    ASSUME NEW y, NEW m, NEW d, NEW n, IsDayOf(y, m, d, n)
    PROVE  IsJalaliDate(Day(y, m, d)) /\ JalaliDayNumber(Day(y, m, d)) = n
<1>1. y \in Years /\ m \in 1..12 /\ d \in Int /\ d >= 1 /\ d <= JalaliDaysIn(y, m) /\ J2D(y, m, d) = n
  BY DEF IsDayOf
<1>2. JalaliDaysIn(y, m) \in Int /\ JalaliDaysIn(y, m) <= 31  BY <1>1, JalaliCounts
<1>3. d \in 1..31  BY <1>1, <1>2
<1>4. Day(y, m, d) \in [y : Years, m : 1..12, d : 1..31]  BY <1>1, <1>3 DEF Day
<1> QED  BY <1>1, <1>4, Fields DEF IsJalaliDate, JalaliDayNumber

\* The count ends before the last of the years.
LEMMA BeforeLastYear ==
    ASSUME NEW n \in Int, n <= LastDay + StripDays, NEW y, NEW m, NEW d, IsDayOf(y, m, d, n)
    PROVE  y + 1 \in Years
<1>1. y \in Years /\ m \in 1..12 /\ d \in Int /\ d >= 1 /\ J2D(y, m, d) = n  BY DEF IsDayOf
<1>2. 1634 \in Years /\ y \in Int /\ y \in 1210..1634  BY SMT, <1>1 DEF Years
<1>3. PICK first \in Int : first = Nowruz(1634)  BY Z3T(30), <1>2, JalaliForm
<1>4. n < first
  <2>1. J2D(1634, 1, 1) = Nowruz(1634) + MonthStart(1) + 1 - 1  BY Z3T(30), <1>2, JalaliForm
  <2>2. MonthStart(1) = 0  BY DEF MonthStart
  <2>3. J2D(1634, 1, 1) = first  BY <1>3, <2>1, <2>2
  <2> QED  BY <2>3, LastDayAssumption DEF StripDays
<1>5. y # 1634
  <2>1. n = Nowruz(y) + MonthStart(m) + d - 1  BY <1>1, JalaliForm
  <2>2. MonthStart(m) \in Int /\ MonthStart(m) >= 0  BY <1>1 DEF MonthStart
  <2>3. Nowruz(y) \in Int /\ d \in Int /\ d >= 1  BY <1>1, JalaliForm
  <2>4. n >= Nowruz(y)  BY <2>1, <2>2, <2>3
  <2>5. Nowruz(y) # first  BY <1>4, <2>3, <2>4
  <2> QED  BY <1>3, <2>5
<1> QED  BY SMT, <1>2, <1>5 DEF Years

\* A day with a date in each calendar is converted rightly, there and back.
LEMMA ConversionIsRight ==
    ASSUME NEW t, IsDate(t), NEW y, NEW m, NEW d, IsDayOf(y, m, d, DayNumber(t)), y + 1 \in Years
    PROVE  ToJalaali(t) = Day(y, m, d) /\ D2G(DayNumber(t)) = t /\ DayNumber(t) \in Int
<1>1. PICK gy \in Nat, gm \in 1..12, gd \in 1..31 : t = Day(gy, gm, gd) /\ gd <= DaysIn(gy, gm)  BY DateForm
<1>2. gd \in Int /\ gd >= 1  OBVIOUS
<1>3. PICK n \in Int : n = G2D(gy, gm, gd)  BY <1>1, <1>2, DateBounds
<1>4. DayNumber(t) = n  BY <1>1, <1>3, Fields DEF DayNumber
<1>5. D2G(n) = t  BY <1>1, <1>2, <1>3, D2GOfDay
<1>6. D2J(n) = Day(y, m, d)  BY <1>1, <1>2, <1>3, <1>4, D2JOfDay
<1>7. ToJalaali(t) = D2J(DayNumber(t))  BY DEF ToJalaali, DayNumber
<1> QED  BY <1>4, <1>5, <1>6, <1>7

\* A day of the years counted is in a Gregorian year of four digits.
LEMMA GregorianYear ==
    ASSUME NEW t, IsDate(t), NEW y, NEW m, NEW d, IsDayOf(y, m, d, DayNumber(t))
    PROVE  t.y >= 100
<1>1. PICK gy \in Nat, gm \in 1..12, gd \in 1..31 : t = Day(gy, gm, gd) /\ gd <= DaysIn(gy, gm)  BY DateForm
<1>2. gd \in Int /\ gd >= 1  OBVIOUS
<1>3. PICK n \in Int : n = G2D(gy, gm, gd)  BY <1>1, <1>2, DateBounds
<1>4. DayNumber(t) = n /\ t.y = gy  BY <1>1, <1>3, Fields DEF DayNumber
<1>5. y \in Years /\ m \in 1..12 /\ d \in Int /\ d >= 1 /\ d <= JalaliDaysIn(y, m) /\ J2D(y, m, d) = n
  BY <1>4 DEF IsDayOf
<1>6. d \in 1..31
  <2>1. JalaliDaysIn(y, m) \in Int /\ JalaliDaysIn(y, m) <= 31  BY <1>5, JalaliCounts
  <2> QED  BY <1>5, <2>1
<1>7. PICK N \in Int : N = Nowruz(y)  BY <1>5, JalaliForm
<1>8. PICK s \in Int : s = MonthStart(m)  BY <1>5, JalaliForm
<1>9. n = N + s + d - 1  BY <1>5, <1>7, <1>8, JalaliForm
<1>10. s + d - 1 >= 0 /\ s + d - 1 <= 365
  <2>1. 364 + (IF IsJalaliLeap(y) THEN 1 ELSE 0) <= 365  OBVIOUS
  <2>2. s + d - 1 >= 0 /\ s + d - 1 <= 364 + (IF IsJalaliLeap(y) THEN 1 ELSE 0)
    BY <1>5, <1>6, <1>8, DayOfJalaliYear
  <2> QED  BY <1>6, <1>8, <2>1, <2>2
<1>11. n >= N /\ n <= N + 365  BY <1>6, <1>9, <1>10
<1>12. gy = y + 621 \/ gy = y + 622  BY <1>1, <1>2, <1>3, <1>5, <1>7, <1>11, TwoYears
<1>13. y \in Int /\ y >= 1210  BY <1>5, NowruzBounds
<1> QED  BY <1>4, <1>12, <1>13

\* Every midnight takes each of the three to the next day, and leaves the page behind.
LEMMA Inductive == Spec => []IInv
<1>1. Init => IInv
  <2> SUFFICES ASSUME Init PROVE IInv  OBVIOUS
  <2>1. jdn = FirstDay.jdn /\ date = FirstDay.date /\ jalali = FirstDay.jalali
        /\ opened.jdn = FirstDay.jdn /\ opened.date = FirstDay.date
    BY DEF Init
  <2>2. PICK y, m, d : IsDayOf(y, m, d, JalaliDayNumber(jalali))
    BY <2>1, FirstDayAssumption, JalaliDateForm
  <2> QED  BY <2>1, <2>2, FirstDayAssumption, LastDayAssumption DEF IInv
<1>2. IInv /\ [Next]_vars => IInv'
  <2> SUFFICES ASSUME IInv, [Next]_vars PROVE IInv'  OBVIOUS
  <2>1. CASE Midnight
    <3>1. jdn' \in 0..LastDay /\ jdn \in Int /\ jdn' = jdn + 1
      BY <2>1, LastDayAssumption DEF IInv, Midnight
    <3>2. IsDate(date') /\ DayNumber(date') = jdn + 1  BY <2>1, NextDateCounts DEF IInv, Midnight
    <3>3. IsJalaliDate(jalali') /\ JalaliDayNumber(jalali') = jdn + 1
      <4>1. PICK y, m, d : jalali = Day(y, m, d) /\ IsDayOf(y, m, d, jdn)  BY JalaliDateForm DEF IInv
      <4>2. jdn <= LastDay + StripDays
        BY <3>1, LastDayAssumption DEF IInv, StripDays
      <4>3. y + 1 \in Years  BY <3>1, <4>1, <4>2, BeforeLastYear
      <4>4. PICK y2, m2, d2 : NextJalali(Day(y, m, d)) = Day(y2, m2, d2) /\ IsDayOf(y2, m2, d2, jdn + 1)
        BY <3>1, <4>1, <4>3, NextJalaliCounts
      <4> QED  BY <2>1, <4>1, <4>4, DayIsJalaliDate DEF Midnight
    <3>4. opened' = opened /\ opened.jdn \in 0..(jdn + 1)  BY <2>1, <3>1 DEF Midnight, IInv
    <3> QED  BY <3>1, <3>2, <3>3, <3>4 DEF IInv
  <2>2. CASE OpenPage
    <3>1. UNCHANGED <<jdn, date, jalali>> /\ opened'.jdn = jdn /\ opened'.date = date  BY <2>2 DEF OpenPage
    <3>2. PICK y, m, d : IsDayOf(y, m, d, jdn)  BY JalaliDateForm DEF IInv
    <3>3. jdn \in 0..jdn  BY LastDayAssumption DEF IInv
    <3> QED  BY <3>1, <3>2, <3>3 DEF IInv
  <2>3. CASE UNCHANGED vars  BY <2>3 DEF IInv, vars
  <2> QED  BY <2>1, <2>2, <2>3 DEF Next
<1> QED  BY <1>1, <1>2, PTL DEF Spec

\* The day create checks a request for is the day its row is stored under, although one
\* parser checks and another one stores: where they read the fields of a string apart
\* nothing is stored.  For every string of a year from 100 on, on every day.
THEOREM CheckedDayStays == Spec => []CheckedDayIsStored
<1>1. IInv => CheckedDayIsStored
  <2> SUFFICES ASSUME IInv, NEW s \in DateStrings, s.y >= 100, PrismaDateOnly(s) # NoDate
               PROVE  /\ IsDate(PrismaDateOnly(s))
                      /\ DayNumber(PrismaDateOnly(s)) = TehranDate(s)
                      /\ Accepts(s) => Accepts(PrismaDateOnly(s))
    BY DEF CheckedDayIsStored
  <2> QED  BY CheckedDay DEF IInv
<1> QED  BY <1>1, Inductive, PTL

\* jalali.ts and counting days one by one agree: toJalaali gives the Jalali date, j2d
\* and d2g take it and the day back, over all leap years of both calendars up to 1633.
THEOREM JalaliStaysCounted == Spec => []JalaliCountsDays
<1>1. IInv => JalaliCountsDays
  <2> SUFFICES ASSUME IInv PROVE JalaliCountsDays  OBVIOUS
  <2>1. jdn \in Int /\ jdn <= LastDay + StripDays
    BY LastDayAssumption DEF IInv, StripDays
  <2>2. PICK y, m, d : jalali = Day(y, m, d) /\ IsDayOf(y, m, d, jdn)  BY JalaliDateForm DEF IInv
  <2>3. y + 1 \in Years  BY <2>1, <2>2, BeforeLastYear
  <2>4. ToJalaali(date) = Day(y, m, d) /\ D2G(DayNumber(date)) = date
    BY <2>2, <2>3, ConversionIsRight DEF IInv
  <2> QED  BY <2>2, <2>4 DEF IInv, JalaliCountsDays
<1> QED  BY <1>1, Inductive, PTL

\* The day i days after the page was opened.
LEMMA OptionAhead ==
    ASSUME IInv, NEW i \in 0..StripDays
    PROVE  /\ DayNumber(Option(i).iso) = opened.jdn + i
           /\ Option(i).allowed <=> IsAllowedDay(opened.jdn + i)
           /\ Accepts(Option(i).iso) <=> Option(i).allowed /\ opened.jdn + i \in jdn..(jdn + MaxDaysAhead)
           /\ JalaliDayNumber(Option(i).label) = opened.jdn + i
<1>1. PICK n \in Int : n = opened.jdn  BY LastDayAssumption DEF IInv
<1>2. i \in Int /\ i >= 0 /\ i <= 28 /\ jdn \in Int /\ n + i \in Int /\ n <= LastDay + StripDays
      /\ n + i <= LastDay + StripDays
  BY <1>1, LastDayAssumption DEF IInv, StripDays
<1>3. PICK y \in Nat, m \in 1..12, d \in 1..31 : opened.date = Day(y, m, d) /\ d <= DaysIn(y, m)
  BY DateForm DEF IInv
<1>4. PICK e \in Int : e = d + i  BY <1>2
<1>5. PICK s : s = Rollover(Day(y, m, e))  OBVIOUS
<1>6. Option(i) = [iso |-> s, label |-> ToJalaali(s), allowed |-> WeekdayOf(DayNumber(s)) \in AllowedWeekdays]
  <2>1. opened.date.y = y /\ opened.date.m = m /\ opened.date.d = d  BY <1>3, Fields
  <2> QED  BY <1>4, <1>5, <2>1 DEF Option
<1>7. Option(i).iso = s /\ Option(i).label = ToJalaali(s)
      /\ Option(i).allowed = (WeekdayOf(DayNumber(s)) \in AllowedWeekdays)
  BY <1>6
<1>8. DayNumber(s) = n + i
  <2>1. DayNumber(s) = G2D(y, m, e)  BY <1>5, RolloverKeepsDay
  <2>2. n = G2D(y, m, d)  BY <1>1, <1>3, Fields DEF IInv, DayNumber
  <2>3. d \in Int  OBVIOUS
  <2>4. G2D(y, m, e) = G2D(y, m, 0) + e /\ G2D(y, m, d) = G2D(y, m, 0) + d /\ G2D(y, m, 0) \in Int
    BY <2>3, DayAfterDay
  <2> QED  BY <1>2, <1>4, <2>1, <2>2, <2>3, <2>4
<1>9. IsDate(s)
  <2>1. DaysIn(y, m) \in Int  BY DayCounts
  <2>2. e >= 1 /\ e <= DaysIn(y, m) + 28  BY <1>2, <1>3, <1>4, <2>1
  <2> QED  BY <1>5, <2>2, RolloverIsDate
<1>10. PICK y2, m2, d2 : IsDayOf(y2, m2, d2, n + i)
  <2>1. PICK jy, jm, jd : IsDayOf(jy, jm, jd, n)  BY <1>1 DEF IInv
  <2>2. jy + 1 \in Years  BY <1>2, <2>1, BeforeLastYear
  <2> QED  BY <1>2, <2>1, <2>2, JalaliAhead
<1>11. TehranDate(s) = n + i
  <2>1. PICK y3 \in Nat, m3 \in 1..12, d3 \in 1..31 : s = Day(y3, m3, d3) /\ d3 <= DaysIn(y3, m3)
    BY <1>9, DateForm
  <2>2. s.y >= 100  BY <1>8, <1>9, <1>10, GregorianYear
  <2>3. s.y = y3  BY <2>1, Fields
  <2>4. y3 >= 100 /\ d3 \in Int /\ d3 >= 1  BY <2>2, <2>3
  <2>5. TehranDate(s) = G2D(y3, m3, d3)  BY <2>1, <2>4, TehranDateForm
  <2>6. DayNumber(s) = G2D(y3, m3, d3)  BY <2>1, Fields DEF DayNumber
  <2> QED  BY <1>8, <2>5, <2>6
<1>12. Accepts(s) <=> IsAllowedDay(n + i) /\ n + i \in jdn..(jdn + MaxDaysAhead)
  <2>1. Today(jdn * HoursPerDay) = jdn  BY <1>2 DEF Today, HoursPerDay
  <2>2. IsWithinBookingWindow(n + i, jdn * HoursPerDay) <=> n + i \in jdn..(jdn + MaxDaysAhead)
    BY <1>2, <2>1, WindowAssumption DEF IsWithinBookingWindow
  <2> QED  BY <1>11, <2>2 DEF Accepts
<1>13. JalaliDayNumber(ToJalaali(s)) = n + i
  <2>1. y2 + 1 \in Years  BY <1>2, <1>10, BeforeLastYear
  <2>2. ToJalaali(s) = Day(y2, m2, d2)  BY <1>8, <1>9, <1>10, <2>1, ConversionIsRight
  <2> QED  BY <1>10, <2>2, DayIsJalaliDate
<1>14. Option(i).allowed <=> IsAllowedDay(n + i)  BY <1>7, <1>8 DEF IsAllowedDay
<1> QED  BY <1>1, <1>7, <1>8, <1>12, <1>13, <1>14

\* Of three days in a row one is a working day.
LEMMA NoLongWeekend ==
    ASSUME NEW n \in Int
    PROVE  IsAllowedDay(n) \/ IsAllowedDay(n + 1) \/ IsAllowedDay(n + 2)
  BY WeekdayAssumption DEF IsAllowedDay, WeekdayOf, AllowedWeekdays

\* The server takes the days a page offers, exactly, but for those that have passed while
\* the page was open or lie beyond the server's window, whatever that is; the labels are
\* the days' Jalali dates, and the page opens on the next working day.
THEOREM StripStaysMatched == Spec => []StripMatchesServer
<1>1. IInv => StripMatchesServer
  <2> SUFFICES ASSUME IInv PROVE StripMatchesServer  OBVIOUS
  <2> DEFINE options == DateOptions
             first(i) == IsAllowedDay(opened.jdn + i) /\ \A k \in 0..(i - 1) : ~IsAllowedDay(opened.jdn + k)
  <2>1. DOMAIN options = 0..StripDays /\ \A i \in 0..StripDays : options[i] = Option(i)
    BY DEF DateOptions
  <2>2. \A i \in DOMAIN options :
           LET o   == options[i]
               day == opened.jdn + i
           IN /\ DayNumber(o.iso) = day /\ JalaliDayNumber(o.label) = day
              /\ Accepts(o.iso) <=> o.allowed /\ day \in jdn..(jdn + MaxDaysAhead)
    BY <2>1, OptionAhead
  <2>3. \A i \in 0..StripDays : options[i].allowed <=> IsAllowedDay(opened.jdn + i)  BY <2>1, OptionAhead
  <2>4. FirstAllowed(options) = {i \in 0..StripDays : first(i)}
    <3> HIDE DEF options
    <3>1. ASSUME NEW i \in 0..StripDays
          PROVE  (options[i].allowed /\ \A k \in 0..(i - 1) : ~options[k].allowed) <=> first(i)
      <4>1. \A k \in 0..(i - 1) : k \in 0..StripDays  BY DEF StripDays
      <4> QED  BY <2>3, <4>1
    <3> HIDE DEF first
    <3> QED  BY <2>1, <3>1 DEF FirstAllowed
  <2>5. \A i \in 0..StripDays : first(i) => i \in 0..2
    <3>1. SUFFICES ASSUME NEW i \in 0..StripDays, first(i), i > 2 PROVE FALSE  BY DEF StripDays
    <3>2. opened.jdn \in Int  BY LastDayAssumption DEF IInv
    <3>3. IsAllowedDay(opened.jdn) \/ IsAllowedDay(opened.jdn + 1) \/ IsAllowedDay(opened.jdn + 2)
      BY <3>2, NoLongWeekend
    <3>4. ~IsAllowedDay(opened.jdn + 0) /\ ~IsAllowedDay(opened.jdn + 1) /\ ~IsAllowedDay(opened.jdn + 2)
      BY <3>1 DEF StripDays
    <3>5. opened.jdn + 0 = opened.jdn  BY <3>2
    <3> QED  BY <3>3, <3>4, <3>5
  <2>6. \A i \in 0..2 : i \in 0..StripDays  BY DEF StripDays
  <2>7. FirstAllowed(options) = {i \in 0..2 : first(i)}
    <3> HIDE DEF options, first
    <3> QED  BY <2>4, <2>5, <2>6
  <2> QED  BY <2>2, <2>7 DEF StripMatchesServer
<1> QED  BY <1>1, Inductive, PTL

\* The days since Saturday are those since the same Saturday for a whole week.
LEMMA WeekOfDay ==
    ASSUME NEW day \in Int
    PROVE  /\ WeekdayOf(WeekStart(day)) = 6
           /\ day \in WeekStart(day)..WeekEnd(day)
           /\ \A d \in WeekStart(day)..WeekEnd(day) : WeekStart(d) = WeekStart(day)
  BY WeekdayAssumption DEF WeekdayOf, WeekStart, WeekEnd, DaysSinceSat

\* The dashboard's week is seven days from a Saturday, the same for each of its days
\* (getStats, daysSinceSat), whatever day it is.
THEOREM WeekStaysIranian == Spec => []WeekIsIranian
<1>1. IInv => WeekIsIranian  BY WeekOfDay, LastDayAssumption DEF IInv, WeekIsIranian
<1> QED  BY <1>1, Inductive, PTL
====
