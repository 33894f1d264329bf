----------------------------- MODULE Backtest ------------------------------
(***************************************************************************)
(* Replay of a strategy over the past (backtest/signal_backtester.py), its *)
(* figures (backtest/metrics.py) and the walk-forward search that picks    *)
(* parameters by bars they have not seen (backtest/walk_forward.py). A     *)
(* return is in percent of the price of entry; the prices of a run divide  *)
(* 100, so that returns are integers. Bars are numbered from 1.            *)
(***************************************************************************)
EXTENDS Ordering, Sequences, SequencesExt, FiniteSetsExt

CONSTANT Decide(_, _)   \* the signals a strategy gives for the closes it is shown

Percent(entry, exit) == IF entry <= 0 THEN 0 ELSE ((exit - entry) * 100) \div entry

-----------------------------------------------------------------------------
(* SignalOutcome. A side is [call, buy]; a premium of 0 is not known.      *)

Outcome(signal, entry, exit, entryPremium, exitPremium) ==
    [signal |-> signal, entry |-> entry, exit |-> exit,
     entryPremium |-> entryPremium, exitPremium |-> exitPremium]

HasRealPremium(o) == o.entryPremium > 0 /\ o.exitPremium > 0

\* effective_return_pct: the real premium when both ends are known, the
\* direction of the underlying otherwise.
EffectiveReturn(o) ==
    IF HasRealPremium(o)
    THEN (IF o.signal.buy THEN 1 ELSE -1) * Percent(o.entryPremium, o.exitPremium)
    ELSE (IF o.signal.call = o.signal.buy THEN 1 ELSE -1) * Percent(o.entry, o.exit)

\* _premiums: only of bars on which the contract traded.
PremiumOn(premiums, bar) == IF premiums[bar].traded THEN premiums[bar].price ELSE 0

\* The bars at which _run_symbol decides: after the warm-up, and early enough
\* for the bar that judges the decision to be there.
Entries(length, plan) ==
    [k \in 1..((length - plan.horizon - plan.warmup + plan.step - 1) \div plan.step) |->
        plan.warmup + 1 + (k - 1) * plan.step]

\* Mutant: the window is cut one bar too late.
WindowWithTomorrow(closes, i) == SubSeq(closes, 1, i + 1)

\* What a decision at bar i may look at.
Window(closes, i) == SubSeq(closes, 1, i)

\* What _run_symbol adds to the outcomes at a bar.
OutcomesAt(strategy, closes, premiums, plan, i) ==
    LET signals == Decide(strategy, Window(closes, i))
    IN  [k \in DOMAIN signals |->
            Outcome(signals[k], closes[i], closes[i + plan.horizon],
                    PremiumOn(premiums, i), PremiumOn(premiums, i + plan.horizon))]

\* _run_symbol: the outcomes of a strategy, in the order of time.
Replay(strategy, closes, premiums, plan) ==
    LET entries == Entries(Len(closes), plan)
    IN  FoldLeft(\o, <<>>, [k \in DOMAIN entries |-> OutcomesAt(strategy, closes, premiums, plan, entries[k])])

Returns(outcomes) == [k \in DOMAIN outcomes |-> EffectiveReturn(outcomes[k])]

-----------------------------------------------------------------------------
(* metrics.py, of returns in the order of time.                            *)

Sum(values) == FoldLeft(+, 0, values)
Gains(values) == Sum([k \in DOMAIN values |-> IF values[k] > 0 THEN values[k] ELSE 0])
Losses(values) == -Sum([k \in DOMAIN values |-> IF values[k] < 0 THEN values[k] ELSE 0])

\* median, doubled.
TwiceMedian(values) ==
    LET order == SortedBy(DOMAIN values, values)
        mid == Len(values) \div 2
    IN  IF Len(values) % 2 = 1 THEN 2 * values[order[mid + 1]]
        ELSE values[order[mid]] + values[order[mid + 1]]

\* profit_factor is gains over losses, and unknown without a loss.
HasProfitFactor(values) == Losses(values) > 0
IsProfitable(values) == HasProfitFactor(values) /\ Gains(values) > Losses(values)

EquityCurve(values) == [k \in DOMAIN values |-> Sum(SubSeq(values, 1, k))]

\* max_drawdown: one pass, with the highest point so far; the first return is
\* where the curve begins and so no fall by itself.
MaxDrawdown(values) ==
    LET curve == EquityCurve(values)
        pass == FoldLeft(LAMBDA acc, v : LET peak == Max({acc.peak, v})
                                         IN  [peak |-> peak, worst |-> Max({acc.worst, peak - v})],
                         [peak |-> curve[1], worst |-> 0], curve)
    IN  pass.worst

\* Mutant: a return of nothing breaks a streak.
LongestLosingStreakBroken(values) ==
    FoldLeft(LAMBDA acc, v : LET now == IF v < 0 THEN acc.now + 1 ELSE 0
                             IN  [now |-> now, longest |-> Max({acc.longest, now})],
             [now |-> 0, longest |-> 0], values).longest

\* longest_losing_streak: a return of nothing neither counts nor breaks it.
LongestLosingStreak(values) ==
    FoldLeft(LAMBDA acc, v : LET now == CASE v > 0 -> 0 [] v < 0 -> acc.now + 1 [] v = 0 -> acc.now
                             IN  [now |-> now, longest |-> Max({acc.longest, now})],
             [now |-> 0, longest |-> 0], values).longest

-----------------------------------------------------------------------------
(* Walk-forward. A fraction is <<numerator, denominator>>, denominator > 0.*)

Plus(a, b) == <<a[1] * b[2] + b[1] * a[2], a[2] * b[2]>>
Less(a, b) == a[1] * b[2] < b[1] * a[2]

\* build_folds; step is the test's length when none is given.
Folds(total, train, test, step) ==
    [k \in 1..((total - train - test) \div step + 1) |->
        LET start == (k - 1) * step
        IN  [trainStart |-> start, trainEnd |-> start + train, testEnd |-> start + train + test]]

\* Mutant: the test runs on the bars of its training as well.
TestBarsAll(fold) == [from |-> fold.trainStart + 1, to |-> fold.testEnd]

TrainBars(fold) == [from |-> fold.trainStart + 1, to |-> fold.trainEnd]
TestBars(fold) == [from |-> fold.trainEnd + 1, to |-> fold.testEnd]

\* _slice_metrics: a slice is replayed as if it were all there is, so that the
\* warm-up comes out of it.
SliceReturns(strategy, closes, premiums, bars, plan) ==
    Returns(Replay(strategy, SubSeq(closes, bars.from, bars.to), SubSeq(premiums, bars.from, bars.to), plan))

\* is_usable: both slices have enough signals.
IsUsable(result, enough) == Len(result.train) >= enough /\ Len(result.test) >= enough

Evaluate(strategy, closes, premiums, folds, plan) ==
    [k \in DOMAIN folds |->
        [train |-> SliceReturns(strategy, closes, premiums, TrainBars(folds[k]), plan),
         test |-> SliceReturns(strategy, closes, premiums, TestBars(folds[k]), plan)]]

Usable(results, enough) == {k \in DOMAIN results : IsUsable(results[k], enough)}

\* The sum of the expectancies of the tests; its sign is that of their mean.
TestExpectancy(results, enough) ==
    FoldLeft(Plus, <<0, 1>>,
             [k \in DOMAIN results |-> IF k \in Usable(results, enough)
                                       THEN <<Sum(results[k].test), Len(results[k].test)>> ELSE <<0, 1>>])
MeanExpectancy(results, enough) ==
    LET sum == TestExpectancy(results, enough)
    IN  <<sum[1], sum[2] * Cardinality(Usable(results, enough))>>

\* is_robust: two usable folds, a positive mean and a majority of them positive.
IsRobust(results, enough) ==
    LET usable == Usable(results, enough)
    IN  /\ Cardinality(usable) >= 2
        /\ TestExpectancy(results, enough)[1] > 0
        /\ 2 * Cardinality({k \in usable : Sum(results[k].test) > 0}) > Cardinality(usable)

\* run: the combinations fall with their means, those with none come last.
Outranks(a, b, enough) ==
    /\ Usable(a, enough) # {}
    /\ Usable(b, enough) # {} => Less(MeanExpectancy(b, enough), MeanExpectancy(a, enough))
Ranked(evaluated, enough) ==
    LET ahead(c, d) == Outranks(evaluated[c], evaluated[d], enough)
        all == DOMAIN evaluated
        before == {x \in all \X all : \/ ahead(x[1], x[2])
                                      \/ ~ahead(x[2], x[1]) /\ x[1] < x[2]}
    IN  InOrder(all, before)

\* best: the first robust one.
Best(evaluated, enough) ==
    LET ranked == Ranked(evaluated, enough)
        robust == {k \in DOMAIN ranked : IsRobust(evaluated[ranked[k]], enough)}
    IN  IF robust = {} THEN <<>> ELSE <<ranked[Min(robust)]>>
=============================================================================
