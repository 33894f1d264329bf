---------------------------- MODULE Strategies -----------------------------
(***************************************************************************)
(* What the strategies propose (strategies/ of the bot). A context is a    *)
(* record of the spot, the closes, the chain (a set of contracts [type,    *)
(* strike, expiry, size, bid, ask, last, interest, iv], expiries in days   *)
(* from today), the realized volatility, the rank of the volatility and    *)
(* the shares held, Unowned when that is not known. Parameters that the    *)
(* code gives as fractions count 1/1000. A strategy is the set of the      *)
(* proposals it may make: of two contracts equally near to a target the    *)
(* source's order, which is not fixed, decides. A proposal is a sequence   *)
(* of legs; the empty one means nothing is to be done.                     *)
(***************************************************************************)
EXTENDS Integers, FiniteSets, Sequences, SequencesExt, FiniteSetsExt

Unowned == -1
Nothing == {<<>>}
Abs(x) == IF x < 0 THEN -x ELSE x

\* mid_price, doubled: the middle of the quotes, or else the last price.
TwiceMid(c) == IF c.bid > 0 /\ c.ask > 0 THEN c.bid + c.ask ELSE 2 * c.last

\* Mutant: the quote is taken as it is.
LegAtQuote(c, long) == [contract |-> c, long |-> long, price |-> 2 * (IF long THEN c.ask ELSE c.bid)]

\* build_signal: a buyer pays the ask and a seller gets the bid; doubled.
Leg(c, long) ==
    LET near == IF long THEN c.ask ELSE c.bid
    IN  [contract |-> c, long |-> long, price |-> IF near > 0 THEN 2 * near ELSE TwiceMid(c)]

\* OptionChain.filter on the days left.
Within(chain, minDays, maxDays) == {c \in chain : minDays <= c.expiry /\ c.expiry <= maxDays}
NearestTo(contracts, target) ==
    {c \in contracts : \A d \in contracts : Abs(1000 * c.strike - target) <= Abs(1000 * d.strike - target)}

\* select_contract: of the priced and liquid contracts of the nearest expiry,
\* the one whose strike is nearest to spot * (1 + moneyness).
Selected(ctx, p, type, moneyness) ==
    LET candidates == {c \in Within(ctx.chain, p.minDays, p.maxDays) :
                          c.type = type /\ c.interest >= p.minInterest /\ TwiceMid(c) > 0}
    IN  NearestTo({c \in candidates : \A d \in candidates : c.expiry <= d.expiry},
                  ctx.spot * (1000 + moneyness))

\* The spread and the liquidity a structure asks of each of its contracts.
Tradable(ctx, p) ==
    {c \in Within(ctx.chain, p.minDays, p.maxDays) :
        /\ c.interest >= p.minInterest /\ c.bid > 0 /\ c.ask > 0
        /\ 2000 * (c.ask - c.bid) <= p.maxSpread * (c.ask + c.bid)}

-----------------------------------------------------------------------------
(* directional_ma_cross.                                                   *)

SumOfLast(closes, n) == FoldLeft(+, 0, SubSeq(closes, Len(closes) - n + 1, Len(closes)))

\* _direction, of the distance of the two means and the momentum.
Direction(closes, p) ==
    IF Len(closes) < p.slow \/ Len(closes) <= p.momentum THEN "none"
    ELSE LET slow == SumOfLast(closes, p.slow) * p.fast
             separation == SumOfLast(closes, p.fast) * p.slow - slow
             past == closes[Len(closes) - p.momentum]
             moved == closes[Len(closes)] - past
         IN  CASE slow <= 0 \/ past <= 0 -> "none"
               [] 1000 * separation >= p.minSeparation * slow /\ 1000 * moved >= p.minMomentum * past -> "bullish"
               [] 1000 * separation <= -p.minSeparation * slow /\ 1000 * moved <= -p.minMomentum * past -> "bearish"
               [] OTHER -> "none"

Directional(ctx, p) ==
    LET direction == Direction(ctx.closes, p)
        chosen == IF direction = "bullish" THEN Selected(ctx, p, "call", p.moneyness)
                  ELSE Selected(ctx, p, "put", -p.moneyness)
    IN  IF direction = "none" \/ chosen = {} THEN Nothing ELSE {<<Leg(c, TRUE)>> : c \in chosen}

-----------------------------------------------------------------------------
(* neutral_iv_spread.                                                      *)

\* _is_range_bound.
IsRangeBound(ctx, p) ==
    /\ Len(ctx.closes) >= p.trend
    /\ LET sum == SumOfLast(ctx.closes, p.trend)
       IN  sum > 0 /\ 1000 * Abs(p.trend * ctx.spot - sum) <= p.range * sum

\* Mutant: shares that are known to be too few are no obstacle.
IsCoveredAnyway(ctx, p, c) == ctx.holding # Unowned \/ ~p.skipUnknown

\* The shares for one contract must be there; where that is not known the
\* proposal is made with a warning, unless the settings forbid it.
IsCovered(ctx, p, c) ==
    IF ctx.holding = Unowned THEN ~p.skipUnknown
    ELSE p.requireHolding => ctx.holding >= c.size

CoveredCall(ctx, p) ==
    LET chosen == Selected(ctx, p, "call", p.callMoneyness)
    IN  IF ~IsRangeBound(ctx, p) \/ chosen = {} THEN Nothing
        ELSE {IF IsCovered(ctx, p, c) THEN <<Leg(c, FALSE)>> ELSE <<>> : c \in chosen}

\* The put is the nearest of the expiry and is not asked to be liquid; its
\* strike may differ from the call's.
Straddle(ctx, call) ==
    LET puts == {c \in ctx.chain : c.type = "put" /\ c.expiry = call.expiry}
    IN  IF puts = {} THEN Nothing
        ELSE {IF TwiceMid(put) > 0 THEN <<Leg(call, TRUE), Leg(put, TRUE)>> ELSE <<>> :
              put \in NearestTo(puts, 1000 * call.strike)}

\* Rich or cheap against the realized volatility and, where its own history
\* is known, against that too.
Neutral(ctx, p) ==
    LET calls == Selected(ctx, p, "call", 0)
        ranked == p.useRank /\ ctx.rank.known
        rich(c) == /\ 1000 * c.iv >= p.richRatio * ctx.realized
                   /\ ranked => 100 * ctx.rank.below >= p.richRank * ctx.rank.samples
        cheap(c) == /\ 1000 * c.iv <= p.cheapRatio * ctx.realized
                    /\ ranked => 100 * ctx.rank.below <= p.cheapRank * ctx.rank.samples
    IN  IF ctx.realized <= 0 \/ calls = {} THEN Nothing
        ELSE UNION {CASE c.iv = 0 -> Nothing
                      [] c.iv > 0 /\ rich(c) /\ p.coveredCall -> CoveredCall(ctx, p)
                      [] c.iv > 0 /\ ~(rich(c) /\ p.coveredCall) /\ cheap(c) /\ p.straddle -> Straddle(ctx, c)
                      [] OTHER -> Nothing : c \in calls}

-----------------------------------------------------------------------------
(* long_straddle and collar.                                               *)

\* _find_atm_pair: the nearest common strike, then the nearest expiry.
AtmPairs(ctx, p) ==
    LET usable == Tradable(ctx, p)
        pairs == {q \in usable \X usable : /\ q[1].type = "call" /\ q[2].type = "put"
                                           /\ q[1].strike = q[2].strike /\ q[1].expiry = q[2].expiry}
        gap(q) == Abs(q[1].strike - ctx.spot)
    IN  {q \in pairs :
            /\ \A r \in pairs : gap(q) < gap(r) \/ (gap(q) = gap(r) /\ q[1].expiry <= r[1].expiry)
            /\ 1000 * gap(q) <= p.maxGap * ctx.spot}

\* Both volatilities must be known and their mean cheap.
LongStraddle(ctx, p) ==
    LET pairs == AtmPairs(ctx, p)
    IN  IF ctx.spot <= 0 \/ ctx.realized <= 0 \/ pairs = {} THEN Nothing
        ELSE {IF /\ q[1].iv > 0 /\ q[2].iv > 0
                 /\ 1000 * (q[1].iv + q[2].iv) <= 2 * p.maxRatio * ctx.realized
              THEN <<Leg(q[1], TRUE), Leg(q[2], TRUE)>> ELSE <<>> : q \in pairs}

NetCost(q) == q[1].ask - q[2].bid

\* Of each expiry the put and the call nearest to their targets; of the expiries
\* that are cheap enough the cheapest. q is a choice when every other expiry may
\* come to one that is no cheaper.
Collar(ctx, p) ==
    LET usable == Tradable(ctx, p)
        expiries == {c.expiry : c \in usable}
        puts(e) == {c \in usable : c.expiry = e /\ c.type = "put" /\ c.strike < ctx.spot}
        calls(e) == {c \in usable : c.expiry = e /\ c.type = "call" /\ c.strike > ctx.spot}
        pairs(e) == NearestTo(puts(e), ctx.spot * (1000 - p.protection))
                    \X NearestTo(calls(e), ctx.spot * (1000 + p.cap))
        isCheap(q) == 1000 * NetCost(q) <= p.maxCost * ctx.spot
        chosen == {q \in UNION {pairs(e) : e \in expiries} :
                      /\ isCheap(q)
                      /\ \A e \in expiries \ {q[1].expiry} :
                            pairs(e) # {} => \E r \in pairs(e) : isCheap(r) => NetCost(q) <= NetCost(r)}
    IN  IF ctx.spot <= 0 \/ chosen = {} THEN Nothing
        ELSE {<<Leg(q[1], TRUE), Leg(q[2], FALSE)>> : q \in chosen}
=============================================================================
