---- MODULE JalaliDates ----
(* The conversion of Gregorian to Jalali dates every date on the screen goes    *)
(* through (frontend/src/lib/jalali.ts), on numbers: names of months and        *)
(* weekdays and Persian digits only dress them up.                              *)
EXTENDS Integers, Sequences

\* ~~(a / b) and its remainder cut towards zero; \div and % round down.
Div(a, b) == IF a >= 0 THEN a \div b ELSE -((-a) \div b)
Mod(a, b) == a - Div(a, b) * b

\* A date, of either calendar.
Day(y, m, d) == [y |-> y, m |-> m, d |-> d]

\* g2d: the Julian day number of a Gregorian date.
G2D(gy, gm, gd) ==
    Div((gy + Div(gm - 8, 6) + 100100) * 1461, 4) + Div(153 * Mod(gm + 9, 12) + 2, 5) + gd - 34840408
    - Div(Div(gy + 100100 + Div(gm - 8, 6), 100) * 3, 4) + 752

\* d2g, and the year of it that d2j uses.
D2G(jdn) ==
    LET j == 4 * jdn + 139361631 + Div(Div(4 * jdn + 183187720, 146097) * 3, 4) * 4 - 3908
        i == Div(Mod(j, 1461), 4) * 5 + 308
        gm == Mod(Div(i, 153), 12) + 1
    IN Day(Div(j, 1461) - 100100 + Div(8 - gm, 6), gm, Div(Mod(i, 153), 5) + 1)

\* The years at which the rhythm of leap years changes.
Breaks == <<-61, 9, 38, 199, 426, 686, 756, 818, 1111, 1181, 1210, 1635, 2060, 2097, 2192, 2262,
            2324, 2394, 2456, 3178>>
Jump(i) == Breaks[i] - Breaks[i - 1]

\* Leap years up to the i-th break.
LeapsBefore[i \in 1..Len(Breaks)] ==
    IF i = 1 THEN -14 ELSE LeapsBefore[i - 1] + Div(Jump(i), 33) * 8 + Div(Mod(Jump(i), 33), 4)

\* jalCal: the Gregorian year, the day of March the year begins on, and how many
\* years ago the last leap year was (0: this one).
JalCal(jy) ==
    LET \* the loop stops at the first break beyond jy, or after the last one
        past == {i \in 2..Len(Breaks) : jy < Breaks[i]}
        end  == IF past = {} THEN Len(Breaks) ELSE CHOOSE i \in past : \A k \in past : i <= k
        base == IF past = {} THEN end ELSE end - 1
        jump == Jump(end)
        n    == jy - Breaks[base]
        leapJ == LeapsBefore[base] + Div(n, 33) * 8 + Div(Mod(n, 33) + 3, 4)
                 + IF Mod(jump, 33) = 4 /\ jump - n = 4 THEN 1 ELSE 0
        gy   == jy + 621
        leapG == Div(gy, 4) - Div((Div(gy, 100) + 1) * 3, 4) - 150
        n2   == IF jump - n < 6 THEN n - jump + Div(jump + 4, 33) * 33 ELSE n
        leap == Mod(Mod(n2 + 1, 33) - 1, 4)
    IN [gy |-> gy, march |-> 20 + leapJ - leapG, leap |-> IF leap = -1 THEN 4 ELSE leap]

\* j2d: the Julian day number of a Jalali date.
J2D(jy, jm, jd) ==
    G2D(JalCal(jy).gy, 3, JalCal(jy).march) + (jm - 1) * 31 - Div(jm, 7) * (jm - 7) + jd - 1

\* Mutant: the day a leap year adds before the new year is forgotten.
D2JNoLeapDay(jdn) ==
    LET gy == D2G(jdn).y
        k == jdn - G2D(gy, 3, JalCal(gy - 621).march)
        inSpring == k >= 0 /\ k <= 185
        rest == IF k > 185 THEN k - 186 ELSE k + 179
    IN IF inSpring THEN Day(gy - 621, 1 + Div(k, 31), Mod(k, 31) + 1)
       ELSE Day(IF k > 185 THEN gy - 621 ELSE gy - 622, 7 + Div(rest, 30), Mod(rest, 30) + 1)

\* d2j: the first six months have 31 days; before Farvardin 1st it is still last
\* year, one day longer when that was a leap year.
D2J(jdn) ==
    LET gy == D2G(jdn).y
        r  == JalCal(gy - 621)
        k  == jdn - G2D(gy, 3, r.march)
        rest == IF k > 185 THEN k - 186 ELSE k + 179 + IF r.leap = 1 THEN 1 ELSE 0
    IN IF k >= 0 /\ k <= 185 THEN Day(gy - 621, 1 + Div(k, 31), Mod(k, 31) + 1)
       ELSE Day(IF k > 185 THEN gy - 621 ELSE gy - 622, 7 + Div(rest, 30), Mod(rest, 30) + 1)

ToJalaali(g) == D2J(G2D(g.y, g.m, g.d))
====
