-------------------------- MODULE JalaliCalendar ---------------------------
(***************************************************************************)
(* Conversion between Gregorian and Jalali dates (market/                  *)
(* trading_calendar.py). A Gregorian date is its ordinal, the number       *)
(* Python's date.toordinal gives it; a Jalali date is <<year, month, day>>.*)
(***************************************************************************)
EXTENDS Integers, Sequences, SequencesExt, FiniteSetsExt

\* The years at which the pattern of leap years breaks.
Breaks == <<-61, 9, 38, 199, 426, 686, 756, 818, 1111, 1181, 1210, 1635, 2060,
            2097, 2192, 2262, 2324, 2394, 2456, 3178>>

-----------------------------------------------------------------------------
(* Python's date.                                                          *)

IsGregorianLeap(y) == y % 4 = 0 /\ (y % 100 # 0 \/ y % 400 = 0)
DaysBefore(y) == 365 * (y - 1) + (y - 1) \div 4 - (y - 1) \div 100 + (y - 1) \div 400
March(y, d) == DaysBefore(y) + (IF IsGregorianLeap(y) THEN 60 ELSE 59) + d
YearOf(day) == LET y == (day * 400) \div 146097
               IN  Max({z \in {y, y + 1, y + 2} : DaysBefore(z) < day})

-----------------------------------------------------------------------------

\* Leap years of n years of one pattern of 33 years.
Leaps(n, offset) == (n \div 33) * 8 + ((n % 33) + offset) \div 4

\* _jalali_leap_and_offset: whether jy is a leap year, and the day of March
\* its first day falls on.
YearShape(jy) ==
    LET after == Min({i \in DOMAIN Breaks : jy < Breaks[i]})
        start == Breaks[after - 1]
        jump == Breaks[after] - start
        n == jy - start
        passed == FoldLeft(LAMBDA sum, i : sum + Leaps(Breaks[i] - Breaks[i - 1], 0), -14,
                           [i \in 1..(after - 2) |-> i + 1])
        leapJ == passed + Leaps(n, 3) + (IF jump % 33 = 4 /\ jump - n = 4 THEN 1 ELSE 0)
        gy == jy + 621
        leapG == (gy \div 4) - (((gy \div 100 + 1) * 3) \div 4) - 150
        m == IF jump - n < 6 THEN n - jump + ((jump + 4) \div 33) * 33 ELSE n
    IN  [leap |-> (((m + 1) % 33) - 1) % 4 = 0, march |-> 20 + leapJ - leapG]

IsJalaliLeap(jy) == YearShape(jy).leap
NewYear(jy) == March(jy + 621, YearShape(jy).march)

\* jalali_to_gregorian.
ToGregorian(jy, jm, jd) ==
    NewYear(jy) + (IF jm <= 6 THEN (jm - 1) * 31 ELSE (jm - 7) * 30 + 186) + jd - 1

\* Mutant: the dates before the new year keep the year that begins in it.
ToJalaliSameYear(day) ==
    LET jy == YearOf(day) - 621
        n == day - NewYear(jy)
    IN  IF n < 186 THEN <<jy, n \div 31 + 1, (n % 31) + 1>>
        ELSE <<jy, (n - 186) \div 30 + 7, ((n - 186) % 30) + 1>>

\* gregorian_to_jalali.
ToJalali(day) ==
    LET gy == YearOf(day)
        jy == IF day < NewYear(gy - 621) THEN gy - 622 ELSE gy - 621
        n == day - NewYear(jy)
    IN  IF n < 186 THEN <<jy, n \div 31 + 1, (n % 31) + 1>>
        ELSE <<jy, (n - 186) \div 30 + 7, ((n - 186) % 30) + 1>>

\* FIXED_JALALI_HOLIDAYS, as <<month, day>>.
FixedHolidays == {<<1, 1>>, <<1, 2>>, <<1, 3>>, <<1, 4>>, <<1, 12>>, <<1, 13>>,
                  <<3, 14>>, <<3, 15>>, <<11, 22>>, <<12, 29>>}
IsFixedHoliday(day) == LET j == ToJalali(day) IN <<j[2], j[3]>> \in FixedHolidays

\* Thursday and Friday.
IsWeekend(day) == (day + 6) % 7 \in {3, 4}
=============================================================================
