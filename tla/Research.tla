----------------------------- MODULE Research ------------------------------
(***************************************************************************)
(* The slower calculations: dates, the trading calendar, corporate         *)
(* actions, the history of the volatility, the strategies and their        *)
(* backtest. A step takes an input one of them may be given; what lives    *)
(* longer than a call (the calendar's file, the volatility's history) is   *)
(* an input that several processes or days have added to.                  *)
(***************************************************************************)
EXTENDS Integers, FiniteSets, Sequences, SequencesExt, FiniteSetsExt, Functions, TLC

CONSTANTS
    JalaliYears,    \* years to convert
    MarketFrom,     \* ordinal of the first day of the market
    Learning,       \* bound: days each of the two processes learns from
    Ahead,          \* bound: days after the last one learnt
    Changes,        \* rows of the source of share counts
    Dividends,      \* amounts paid per share, 0 for none
    LastDay,        \* bound: days of corporate actions
    IvChains,       \* chains of option volatilities
    IvDays,         \* bound: days the volatility is recorded on
    IvPlan,         \* [spot, minInterest, maxDays, minSamples]
    StratListed,    \* contracts a strategy may see, all terms and quotes given
    StratPlan,      \* parameters of the strategies
    Contexts,       \* contexts of a strategy, without their chain
    BarPrices,      \* closes of a bar
    FirstPrice,     \* bound: close of the first bar of a replay
    Bars,           \* bound: bars of a replay
    ReplayPlan,     \* [warmup, horizon, step] of a replay
    FoldPlan        \* [train, test, warmup, horizon, step] of a walk-forward

VARIABLE case

Cal == INSTANCE TradingCalendar
Corp == INSTANCE CorporateActions
Iv == INSTANCE IVSurface
Strat == INSTANCE Strategies

\* The strategies that are replayed: the cross of means, one that never
\* decides, a quick cross, and the same one selling what the first buys.
Plan(strategy) == IF strategy = "cross" THEN StratPlan ELSE [StratPlan EXCEPT !.slow = 2, !.fast = 1]

\* A signal carries the bar it was made on.
Decide(strategy, closes) ==
    LET direction == Strat!Direction(closes, Plan(strategy))
    IN  IF strategy = "never" \/ direction = "none" THEN <<>>
        ELSE <<[call |-> direction = "bullish", buy |-> strategy # "sold", bar |-> Len(closes)]>>

Past == INSTANCE Backtest

\* Contracts, days and prices are numbers, shares that are not known are told
\* apart from none, and a replay goes on by at least a bar (options_chain.py,
\* base_strategy.py:27-60, signal_backtester.py:348).
ASSUME ResearchAssumption ==
    /\ MarketFrom \in Nat \ {0} /\ Learning \in Nat /\ Ahead \in Nat
    /\ \A c \in StratListed :
          /\ c.type \in {"call", "put"} /\ c.expiry \in Int /\ c.interest \in Int
          /\ c.strike \in Int /\ c.bid \in Nat /\ c.ask \in Nat /\ c.last \in Nat
    /\ \A c \in Contexts : c.spot \in Int /\ c.holding \in Nat \union {Strat!Unowned}
    /\ StratPlan.minDays \in Int /\ StratPlan.maxDays \in Int
    /\ StratPlan.minInterest \in Int /\ StratPlan.maxCost \in Int
    /\ IvDays \in Nat /\ IvPlan.maxDays \in Nat
    /\ Bars \in Nat /\ BarPrices \subseteq Int
    /\ ReplayPlan.warmup \in Nat /\ ReplayPlan.horizon \in Nat /\ ReplayPlan.step \in Nat \ {0}

\* A search refuses lengths that are not positive (build_folds,
\* walk_forward.py:193-194), and its replays too go on by at least a bar.
ASSUME FoldAssumption ==
    /\ FoldPlan.train \in Nat \ {0} /\ FoldPlan.test \in Nat \ {0}
    /\ FoldPlan.warmup \in Nat /\ FoldPlan.horizon \in Nat /\ FoldPlan.step \in Nat \ {0}

ConvertYear == \E y \in JalaliYears : case' = [kind |-> "jalali", year |-> y]

\* The days on which the market was shut are any of its working days; of the
\* two processes the second starts some days after the first.
Working(from, to) == {d \in from..to : ~Cal!IsWeekend(d)}
LearnCalendar ==
    \E later \in 0..Learning, offline \in BOOLEAN :
        \E shut \in SUBSET Working(MarketFrom, MarketFrom + Learning + later) :
            case' = [kind |-> "calendar", shut |-> shut, offline |-> offline,
                     first |-> MarketFrom + Learning, last |-> MarketFrom + Learning + later]

AdjustContract ==
    \E n \in 0..Cardinality(Changes) :
        \E rows \in [1..n -> Changes], issued, paid \in 1..LastDay, amount \in Dividends :
            case' = [kind |-> "actions", rows |-> rows, issued |-> issued, paid |-> paid, amount |-> amount]

\* The days on which the bot ran, from the first, with the gaps between them.
RecordVolatility ==
    \E n \in 1..IvDays :
        \E days \in [1..n -> 0..(n * IvPlan.maxDays)], chains \in [1..n -> IvChains] :
            /\ \A i \in 1..n : days[i] - (IF i = 1 THEN 0 ELSE days[i - 1]) \in {0, 1, IvPlan.maxDays}
            /\ case' = [kind |-> "iv", chains |-> chains, days |-> days]

Propose ==
    \E chain \in SUBSET StratListed, c \in Contexts :
        case' = [kind |-> "propose",
                 context |-> [spot |-> c.spot, closes |-> c.closes, realized |-> c.realized,
                              rank |-> c.rank, holding |-> c.holding, chain |-> chain]]

ReplayStrategy ==
    \E closes \in [1..Bars -> BarPrices] :
        closes[1] = FirstPrice /\ case' = [kind |-> "replay", closes |-> closes]

Ask ==
    \/ ConvertYear
    \/ LearnCalendar
    \/ AdjustContract
    \/ RecordVolatility
    \/ Propose
    \/ ReplayStrategy
=============================================================================
