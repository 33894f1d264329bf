---------------------------- MODULE ResearchProps ---------------------------
(***************************************************************************)
(* What the slower calculations promise, each against a definition that    *)
(* says what the answer means.                                             *)
(***************************************************************************)
EXTENDS Desk

\* The dates of a Jalali year and the days of the Gregorian calendar match one
\* to one, and the next year begins where this one ends (jalali_to_gregorian,
\* gregorian_to_jalali, trading_calendar.py:85-105).
JalaliRoundTrips ==
    case.kind = "jalali" =>
        LET leap == Cal!IsJalaliLeap(case.year)
            length(m) == IF m <= 6 THEN 31 ELSE IF m < 12 \/ leap THEN 30 ELSE 29
            days == {x \in (1..12) \X (1..31) : x[2] <= length(x[1])}
        IN  /\ \A x \in days :
                  Cal!ToJalali(Cal!ToGregorian(case.year, x[1], x[2])) = <<case.year, x[1], x[2]>>
            /\ {Cal!ToGregorian(case.year, x[1], x[2]) : x \in days}
                  = Cal!NewYear(case.year)..(Cal!NewYear(case.year + 1) - 1)

\* What two processes, one after the other, know of the market: the first
\* leaves its file to the second, which may be refused the history.
Traded(c, last) == Working(MarketFrom, last) \ c.shut
FirstCalendar(c) == Cal!Session({}, Cal!Blank({}), Traded(c, c.first))
SecondCalendar(c) ==
    Cal!Session({}, FirstCalendar(c).disk, IF c.offline THEN {} ELSE Traded(c, c.last)).cal

\* Between the first and the last day it has seen traded, the calendar says of
\* each day whether the market was open, whatever the table of fixed holidays
\* says and whichever process learnt it; later days have the table. Counting
\* days and looking for the next one agree with that (learn_from_history,
\* is_holiday, trading_calendar.py:230-268,320-362).
CalendarTellsTheMarket ==
    case.kind = "calendar" =>
        \A cal \in {FirstCalendar(case).cal, SecondCalendar(case)} :
            LET seen == IF cal.to = Cal!NoDay THEN {} ELSE cal.from..cal.to
                open == Traded(case, case.last) \intersect seen
            IN  /\ \A d \in seen : Cal!IsOpen(cal, d, Cal!SessionOpens) <=> d \in open
                /\ \A d \in (case.last + 1)..(case.last + Ahead) :
                      Cal!IsTradingDay(cal, d) <=> ~Cal!IsWeekend(d) /\ ~Cal!IsFixedHoliday(d)
                /\ \A d \in seen \ {cal.to} :
                      /\ Cal!NextTradingDay(cal, d) = Min({t \in open : t > d})
                      /\ Cal!TradingDaysBetween(cal, d, cal.to) = Cardinality({t \in open : t >= d})

\* The shares of a company after the changes of a case, each of which doubles
\* them, on a day; a repeated row is no second change.
Readable(c) == {c.rows[i] : i \in {j \in DOMAIN c.rows : Corp!IsReadable(c.rows[j])}}
Transitions(c) == {<<r.old, r.new>> : r \in Readable(c)}
Took(c, t) ==
    LET i == Min({j \in DOMAIN c.rows : Corp!IsReadable(c.rows[j]) /\ <<c.rows[j].old, c.rows[j].new>> = t})
    IN  c.rows[i].day
TimesDoubled(c, after, upTo) == Cardinality({t \in Transitions(c) : after < Took(c, t) /\ Took(c, t) <= upTo})

\* Every change of the shares counts once, however often the source repeats it:
\* it divides the strike and multiplies the size of the contracts issued
\* before it, leaves the others alone, and makes the history of a company
\* whose value never moved flat. A dividend paid in between lowers the strike
\* as it was on that day and moves no price of the history
\* (fetch_corporate_actions, add, adjust, adjust_history,
\* corporate_actions.py:170-294).
ActionsCountOnce ==
    case.kind = "actions" =>
        LET log == Corp!Added(Corp!Fetched(case.rows), Corp!Dividend(case.paid, case.amount))
            doubled == TimesDoubled(case, case.issued, LastDay)
            adjusted == Corp!Adjusted(log, [strike |-> 64, size |-> 10], case.issued, LastDay)
            dividend == IF case.issued < case.paid
                        THEN case.amount * 2^TimesDoubled(case, case.issued, case.paid) ELSE 0
            candles == [d \in 1..LastDay |-> [day |-> d, price |-> 64 * 2^TimesDoubled(case, d, LastDay)]]
        IN  /\ adjusted.strike * 2^doubled = 64 - dividend
            /\ adjusted.size = 10 * 2^doubled
            /\ \A d \in 1..LastDay : Corp!AdjustedHistory(log, candles)[d].price = 64

\* The history after the readings of a case.
Keep(history, reading) == Iv!RecordSurface(history, reading.points, IvPlan.spot, reading.day, IvPlan.maxDays)
Readings(c) == [i \in DOMAIN c.days |-> [points |-> Iv!Points(c.chains[i], IvPlan.spot, IvPlan.minInterest), day |-> c.days[i]]]
Recorded(c) == FoldLeft(Keep, << >>, Readings(c))

\* A volatility is ranked against the days of the last year on which there was
\* one, each by its last reading, and not ranked when they are too few; it is
\* never both rich and cheap (IVHistory, iv_surface.py:250-377).
RankIsOfTheLastYear ==
    case.kind = "iv" =>
        LET n == Len(case.days)
            points(i) == Iv!Points(case.chains[i], IvPlan.spot, IvPlan.minInterest)
            read == {i \in 1..n : points(i) # {} /\ \A j \in (i + 1)..n : case.days[j] = case.days[i] => points(j) = {}}
            now == Iv!AtmIv(points(n), IvPlan.spot)
            recent == {i \in read : case.days[i] >= case.days[n] - IvPlan.maxDays}
            rank == Iv!Rank(Recorded(case), now, IvPlan.minSamples)
        IN  points(n) # {} =>
                /\ rank.known <=> Cardinality(recent) >= IvPlan.minSamples
                /\ rank.samples = Cardinality(recent)
                /\ rank.below = Cardinality({i \in recent : Iv!Below(Iv!AtmIv(points(i), IvPlan.spot), now)})
                /\ ~(Iv!IsRich(rank, 80) /\ Iv!IsCheap(rank, 20))

-----------------------------------------------------------------------------

Proposals(c) ==
    [directional_ma_cross |-> Strat!Directional(c, StratPlan), neutral_iv_spread |-> Strat!Neutral(c, StratPlan),
     long_straddle |-> Strat!LongStraddle(c, StratPlan), collar |-> Strat!Collar(c, StratPlan)]

\* A call sold by itself has the shares behind it, unless nobody can tell; a
\* call sold in a structure stands above the spot with a bought put below it,
\* of the same expiry, and the pair costs no more than the cap. No strategy
\* sells a put (neutral_strategy.py:133-209, collar_strategy.py:51-104).
SoldCallsAreCovered ==
    case.kind = "propose" =>
        \A name \in DOMAIN Proposals(case.context) : \A legs \in Proposals(case.context)[name] :
            LET sold == {i \in DOMAIN legs : ~legs[i].long}
                spot == case.context.spot
            IN  \A i \in sold :
                  /\ legs[i].contract.type = "call"
                  /\ Len(legs) = 1 => case.context.holding \in {Strat!Unowned} \union {h \in Nat : h >= legs[i].contract.size}
                  /\ Len(legs) = 2 => \E j \in DOMAIN legs \ {i} :
                        /\ legs[j].long /\ legs[j].contract.type = "put"
                        /\ legs[j].contract.expiry = legs[i].contract.expiry
                        /\ legs[j].contract.strike < spot /\ spot < legs[i].contract.strike
                        /\ 500 * (legs[j].price - legs[i].price) <= StratPlan.maxCost * spot

\* Every leg a strategy proposes can be traded: it has a price, an expiry in
\* the window of the settings and, but for the put of the neutral straddle,
\* the open interest they ask for; a bought pair has one expiry (base_strategy
\* .py:165-195, straddle_strategy.py:97-139, neutral_strategy.py:211-250).
LegsCanBeTraded ==
    case.kind = "propose" =>
        \A name \in DOMAIN Proposals(case.context) : \A legs \in Proposals(case.context)[name] :
            /\ \A i \in DOMAIN legs :
                  /\ legs[i].price > 0
                  /\ legs[i].contract.expiry \in StratPlan.minDays..StratPlan.maxDays
                  /\ ~(name = "neutral_iv_spread" /\ i = 2) => legs[i].contract.interest >= StratPlan.minInterest
            /\ Len(legs) = 2 => legs[1].contract.expiry = legs[2].contract.expiry

-----------------------------------------------------------------------------

\* A contract that did not trade on every third bar.
PremiumBars(closes) == [i \in DOMAIN closes |-> [traded |-> i % 3 # 0, price |-> closes[Len(closes) + 1 - i]]]
Replayed(closes) == Past!Replay("cross", closes, PremiumBars(closes), ReplayPlan)

\* A decision is entered at the close of the last bar it could see and judged
\* by the bar a horizon later, and more history adds outcomes without changing
\* one (_run_symbol, signal_backtester.py:340-371).
BacktestIsCausal ==
    case.kind = "replay" =>
        LET all == Replayed(case.closes)
        IN  /\ \A k \in DOMAIN all :
                  /\ all[k].entry = case.closes[all[k].signal.bar]
                  /\ all[k].exit = case.closes[all[k].signal.bar + ReplayPlan.horizon]
            /\ \A n \in ReplayPlan.horizon..Len(case.closes) :
                  LET known == Past!Replay("cross", SubSeq(case.closes, 1, n), SubSeq(PremiumBars(case.closes), 1, n), ReplayPlan)
                  IN  /\ Len(known) <= Len(all) /\ known = SubSeq(all, 1, Len(known))
                      /\ \A k \in DOMAIN all : k <= Len(known) <=> all[k].signal.bar + ReplayPlan.horizon <= n

FoldsOf(closes) == Past!Folds(Len(closes), FoldPlan.train, FoldPlan.test, FoldPlan.test)

\* The combinations a search compares.
Combinations == <<"never", "bought", "sold">>
Searched(closes, premiums) ==
    [c \in DOMAIN Combinations |-> Past!Evaluate(Combinations[c], closes, premiums, FoldsOf(closes), FoldPlan)]

\* The test of a fold comes after its training, no two tests share a bar, and
\* what a test says does not depend on any bar outside it, its own training
\* included. What the search recommends is robust, and nothing robust has a
\* better mean (build_folds, _evaluate, run, best, walk_forward.py:181-397).
TestsUseOnlyTheirBars ==
    case.kind = "replay" =>
        LET folds == FoldsOf(case.closes)
            outside(k, v) == [i \in DOMAIN case.closes |->
                                 IF i \in (folds[k].trainEnd + 1)..folds[k].testEnd THEN case.closes[i] ELSE v]
            searched == Searched(case.closes, PremiumBars(case.closes))
            best == Past!Best(searched, 1)
        IN  /\ folds # <<>>
            /\ \A j, k \in DOMAIN folds : j < k => folds[j].testEnd <= folds[k].trainEnd
            /\ \A k \in DOMAIN folds, v \in BarPrices :
                  Past!Evaluate("bought", outside(k, v), PremiumBars(case.closes), <<folds[k]>>, FoldPlan)[1].test
                     = searched[2][k].test
            /\ best = <<>> <=> \A c \in DOMAIN Combinations : ~Past!IsRobust(searched[c], 1)
            /\ \A c \in DOMAIN Combinations : Past!IsRobust(searched[c], 1) => 
                  ~Past!Less(Past!MeanExpectancy(searched[Head(best)], 1), Past!MeanExpectancy(searched[c], 1))

\* The figures mean what they are named for: the drawdown is the deepest fall
\* from one point of the curve to a later one, the streak the most losses
\* between two gains, the profit factor above one exactly when the whole is a
\* gain (metrics.py:76-166).
FiguresAreTrue ==
    case.kind = "replay" /\ Len(case.closes) > 1 =>
        LET moves == [i \in 1..(Len(case.closes) - 1) |-> Past!Percent(case.closes[i], case.closes[i + 1])]
            curve == Past!EquityCurve(moves)
            spans == {s \in (DOMAIN moves) \X (DOMAIN moves) : s[1] <= s[2]}
            losses(s) == Cardinality({i \in s[1]..s[2] : moves[i] < 0})
        IN  /\ Past!MaxDrawdown(moves) = Max({curve[s[1]] - curve[s[2]] : s \in spans})
            /\ Past!LongestLosingStreak(moves)
                  = Max({losses(s) : s \in {t \in spans : \A i \in t[1]..t[2] : moves[i] <= 0}} \union {0})
            /\ Past!HasProfitFactor(moves) => (Past!IsProfitable(moves) <=> curve[Len(moves)] > 0)
            /\ Cardinality({i \in DOMAIN moves : 2 * moves[i] < Past!TwiceMedian(moves)}) * 2 <= Len(moves)
=============================================================================
