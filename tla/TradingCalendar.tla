------------------------- MODULE TradingCalendar ---------------------------
(***************************************************************************)
(* What TradingCalendar (market/trading_calendar.py) knows of the days of  *)
(* the market: holidays, and the range over which it has seen history. A   *)
(* calendar is a record [holidays, from, to]; NoDay stands for None. It    *)
(* learns once per process and its cache file joins the processes.         *)
(***************************************************************************)
EXTENDS JalaliCalendar

NoDay == 0
Blank(extra) == [holidays |-> extra, from |-> NoDay, to |-> NoDay]

\* learn_from_history: a working day between the first and the last day traded
\* and not itself traded was a holiday.
Learn(cal, traded) ==
    IF Cardinality(traded) < 2 THEN cal
    ELSE LET first == Min(traded)
             last == Max(traded)
         IN  [holidays |-> cal.holidays \union {d \in first..last : ~IsWeekend(d) /\ d \notin traded},
              from |-> IF cal.from = NoDay THEN first ELSE Min({cal.from, first}),
              to |-> IF cal.to = NoDay THEN last ELSE Max({cal.to, last})]

\* __init__ with the holidays of the settings, then _load_cache.
Loaded(extra, disk) == [disk EXCEPT !.holidays = @ \union extra]

\* _learn of build_trading_calendar: the file is written only when a holiday
\* was new, so a wider range alone is not kept.
Saved(disk, before, after) == IF after.holidays = before.holidays THEN disk ELSE after

\* One process: it loads the file, learns from the history it is given (none
\* when the source fails) and leaves the file behind.
Session(extra, disk, traded) ==
    LET before == Loaded(extra, disk)
        after == Learn(before, traded)
    IN  [cal |-> after, disk |-> Saved(disk, before, after)]

-----------------------------------------------------------------------------

\* Mutant: the fixed table speaks of observed days too.
IsHolidayByTable(cal, day) == IsWeekend(day) \/ day \in cal.holidays \/ IsFixedHoliday(day)

\* is_holiday: the table speaks only of days after the observed ones.
IsHoliday(cal, day) ==
    \/ IsWeekend(day)
    \/ day \in cal.holidays
    \/ ~(cal.to # NoDay /\ day <= cal.to) /\ IsFixedHoliday(day)

IsTradingDay(cal, day) == ~IsHoliday(cal, day)

\* is_open, with the session as minutes of the day.
SessionOpens == 9 * 60
SessionCloses == 12 * 60 + 30
IsOpen(cal, day, minute) == IsTradingDay(cal, day) /\ SessionOpens <= minute /\ minute <= SessionCloses

\* next_trading_day looks 60 days ahead.
NextTradingDay(cal, day) ==
    CHOOSE d \in (day + 1)..(day + 60) :
        IsTradingDay(cal, d) /\ \A e \in (day + 1)..(d - 1) : IsHoliday(cal, e)
TradingDaysBetween(cal, start, end) == Cardinality({d \in start..end : IsTradingDay(cal, d)})
=============================================================================
