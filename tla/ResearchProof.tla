--------------------------- MODULE ResearchProof ---------------------------
(***************************************************************************)
(* Proofs about the calculations of the research, for any contracts,       *)
(* contexts, plans, market days, bars and volatilities.                    *)
(***************************************************************************)
EXTENDS DeskProof, ResearchProps

-----------------------------------------------------------------------------
(* The proposals of the strategies.                                        *)

\* A contract of the chain, its terms and quotes.
Contract(c) ==
    /\ c.type \in {"call", "put"} /\ c.expiry \in Int /\ c.interest \in Int /\ c.strike \in Int
    /\ c.bid \in Nat /\ c.ask \in Nat /\ c.last \in Nat

\* A context to propose in.
Market(ctx) ==
    /\ ctx.spot \in Int /\ ctx.holding \in Nat \union {Strat!Unowned}
    /\ \A c \in ctx.chain : Contract(c)

\* What the settings ask of every contract but the put of a neutral straddle.
Eligible(ctx, c) ==
    /\ c \in ctx.chain /\ Strat!TwiceMid(c) > 0
    /\ StratPlan.minDays <= c.expiry /\ c.expiry <= StratPlan.maxDays
    /\ c.interest >= StratPlan.minInterest

LEMMA LegsArePriced ==
    ASSUME NEW c, Contract(c), Strat!TwiceMid(c) > 0, NEW long \in BOOLEAN
    PROVE  /\ Strat!Leg(c, long).contract = c /\ Strat!Leg(c, long).long = long
           /\ Strat!Leg(c, long).price > 0
BY DEF Contract, Strat!Leg, Strat!TwiceMid

\* The quotes of a contract that has both are what a leg pays or gets.
LEMMA LegsAreQuoted ==
    ASSUME NEW c, Contract(c), c.bid > 0, c.ask > 0
    PROVE  /\ Strat!Leg(c, TRUE).price = 2 * c.ask /\ Strat!Leg(c, FALSE).price = 2 * c.bid
           /\ Strat!TwiceMid(c) > 0
BY DEF Contract, Strat!Leg, Strat!TwiceMid

LEMMA SelectedIs ==
    ASSUME NEW ctx, NEW type, NEW m, NEW c \in Strat!Selected(ctx, StratPlan, type, m)
    PROVE  Eligible(ctx, c) /\ c.type = type
BY Zenon DEF Strat!Selected, Strat!NearestTo, Strat!Within, Eligible

LEMMA TradableIs ==
    ASSUME NEW ctx, Market(ctx), NEW c \in Strat!Tradable(ctx, StratPlan)
    PROVE  Eligible(ctx, c) /\ Contract(c) /\ c.bid > 0 /\ c.ask > 0
<1>1. /\ c \in ctx.chain /\ c.bid > 0 /\ c.ask > 0 /\ c.interest >= StratPlan.minInterest
      /\ StratPlan.minDays <= c.expiry /\ c.expiry <= StratPlan.maxDays
  BY DEF Strat!Tradable, Strat!Within
<1>2. Contract(c)
  BY <1>1 DEF Market
<1> QED  BY <1>1, <1>2, LegsAreQuoted DEF Eligible

\* The four shapes a proposal may have.
OneBought(ctx, legs) == \E c : Eligible(ctx, c) /\ legs = <<Strat!Leg(c, TRUE)>>
OneSold(ctx, legs) ==
    \E c : /\ Eligible(ctx, c) /\ c.type = "call" /\ Strat!IsCovered(ctx, StratPlan, c)
           /\ legs = <<Strat!Leg(c, FALSE)>>
PairBought(ctx, legs) ==
    \E c, d : /\ Eligible(ctx, c) /\ d \in ctx.chain /\ Strat!TwiceMid(d) > 0 /\ d.expiry = c.expiry
              /\ legs = <<Strat!Leg(c, TRUE), Strat!Leg(d, TRUE)>>
CostsLittle(ctx, put, call) == 1000 * (put.ask - call.bid) <= StratPlan.maxCost * ctx.spot
Collared(ctx, legs) ==
    \E c, d : /\ Eligible(ctx, c) /\ Eligible(ctx, d) /\ d.expiry = c.expiry
              /\ c.type = "put" /\ c.strike < ctx.spot /\ d.type = "call" /\ d.strike > ctx.spot
              /\ CostsLittle(ctx, c, d)
              /\ c.ask > 0 /\ d.bid > 0
              /\ legs = <<Strat!Leg(c, TRUE), Strat!Leg(d, FALSE)>>

LEMMA OneLeg ==
    ASSUME NEW a, NEW legs, legs = <<a>>
    PROVE  Len(legs) = 1 /\ DOMAIN legs = {1} /\ legs[1] = a
OBVIOUS

LEMMA TwoLegs ==
    ASSUME NEW a, NEW b, NEW legs, legs = <<a, b>>
    PROVE  Len(legs) = 2 /\ DOMAIN legs = {1, 2} /\ legs[1] = a /\ legs[2] = b
OBVIOUS

LEMMA DirectionalProposes ==
    ASSUME NEW ctx, NEW legs \in Strat!Directional(ctx, StratPlan)
    PROVE  legs = <<>> \/ OneBought(ctx, legs)
<1>1. \/ legs = <<>>
      \/ \E c \in Strat!Selected(ctx, StratPlan, "call", StratPlan.moneyness)
                  \union Strat!Selected(ctx, StratPlan, "put", -StratPlan.moneyness) :
            legs = <<Strat!Leg(c, TRUE)>>
  BY DEF Strat!Directional, Strat!Nothing
<1> QED  BY <1>1, SelectedIs, Zenon DEF OneBought

LEMMA CoveredCallProposes ==
    ASSUME NEW ctx, NEW legs \in Strat!CoveredCall(ctx, StratPlan)
    PROVE  legs = <<>> \/ OneSold(ctx, legs)
<1>1. \/ legs = <<>>
      \/ \E c \in Strat!Selected(ctx, StratPlan, "call", StratPlan.callMoneyness) :
            Strat!IsCovered(ctx, StratPlan, c) /\ legs = <<Strat!Leg(c, FALSE)>>
  BY DEF Strat!CoveredCall, Strat!Nothing
<1> QED  BY <1>1, SelectedIs, Zenon DEF OneSold

LEMMA StraddleProposes ==
    ASSUME NEW ctx, NEW c, Eligible(ctx, c), NEW legs \in Strat!Straddle(ctx, c)
    PROVE  legs = <<>> \/ PairBought(ctx, legs)
<1> DEFINE puts == {d \in ctx.chain : d.type = "put" /\ d.expiry = c.expiry}
           near == Strat!NearestTo(puts, 1000 * c.strike)
<1>0. Strat!Straddle(ctx, c)
        = (IF puts = {} THEN {<<>>}
           ELSE {IF Strat!TwiceMid(d) > 0 THEN <<Strat!Leg(c, TRUE), Strat!Leg(d, TRUE)>> ELSE <<>> : d \in near})
  BY Zenon DEF Strat!Straddle, Strat!Nothing
<1>2. near \subseteq puts
  BY Zenon DEF Strat!NearestTo
<1> HIDE DEF near
<1>3. \A d \in near : d \in ctx.chain /\ d.expiry = c.expiry
  BY <1>2
<1> HIDE DEF puts
<1>1. \/ legs = <<>>
      \/ \E d \in near : Strat!TwiceMid(d) > 0 /\ legs = <<Strat!Leg(c, TRUE), Strat!Leg(d, TRUE)>>
  BY <1>0
<1> QED  BY <1>1, <1>3, Zenon DEF PairBought

LEMMA NeutralProposes ==
    ASSUME NEW ctx, NEW legs \in Strat!Neutral(ctx, StratPlan)
    PROVE  legs = <<>> \/ OneSold(ctx, legs) \/ PairBought(ctx, legs)
<1>1. \/ legs \in Strat!Nothing \/ legs \in Strat!CoveredCall(ctx, StratPlan)
      \/ \E c \in Strat!Selected(ctx, StratPlan, "call", 0) : legs \in Strat!Straddle(ctx, c)
  BY DEF Strat!Neutral
<1>2. ASSUME NEW c \in Strat!Selected(ctx, StratPlan, "call", 0), legs \in Strat!Straddle(ctx, c)
      PROVE  legs = <<>> \/ PairBought(ctx, legs)
  BY <1>2, SelectedIs, StraddleProposes, Zenon
<1> QED  BY <1>1, <1>2, CoveredCallProposes DEF Strat!Nothing

LEMMA LongStraddleProposes ==
    ASSUME NEW ctx, Market(ctx), NEW legs \in Strat!LongStraddle(ctx, StratPlan)
    PROVE  legs = <<>> \/ \E c, d : /\ Eligible(ctx, c) /\ Eligible(ctx, d) /\ d.expiry = c.expiry
                                    /\ legs = <<Strat!Leg(c, TRUE), Strat!Leg(d, TRUE)>>
<1> DEFINE usable == Strat!Tradable(ctx, StratPlan)
<1>1. \/ legs = <<>>
      \/ \E q \in Strat!AtmPairs(ctx, StratPlan) : legs = <<Strat!Leg(q[1], TRUE), Strat!Leg(q[2], TRUE)>>
  BY DEF Strat!LongStraddle, Strat!Nothing
<1>2. ASSUME NEW q \in Strat!AtmPairs(ctx, StratPlan)
      PROVE  q[1] \in usable /\ q[2] \in usable /\ q[1].expiry = q[2].expiry
  BY <1>2 DEF Strat!AtmPairs
<1> QED  BY <1>1, <1>2, TradableIs, Zenon

LEMMA CollarProposes ==
    ASSUME NEW ctx, Market(ctx), NEW legs \in Strat!Collar(ctx, StratPlan)
    PROVE  legs = <<>> \/ Collared(ctx, legs)
<1> DEFINE usable == Strat!Tradable(ctx, StratPlan)
           puts(e) == {c \in usable : c.expiry = e /\ c.type = "put" /\ c.strike < ctx.spot}
           calls(e) == {c \in usable : c.expiry = e /\ c.type = "call" /\ c.strike > ctx.spot}
           nearPuts(e) == Strat!NearestTo(puts(e), ctx.spot * (1000 - StratPlan.protection))
           nearCalls(e) == Strat!NearestTo(calls(e), ctx.spot * (1000 + StratPlan.cap))
           expiries == {c.expiry : c \in usable}
           pairs(e) == nearPuts(e) \X nearCalls(e)
           isCheap(q) == 1000 * Strat!NetCost(q) <= StratPlan.maxCost * ctx.spot
           chosen == {q \in UNION {pairs(e) : e \in expiries} :
                        /\ isCheap(q)
                        /\ \A e \in expiries \ {q[1].expiry} :
                              pairs(e) # {} => \E r \in pairs(e) : isCheap(r) => Strat!NetCost(q) <= Strat!NetCost(r)}
<1>0. Strat!Collar(ctx, StratPlan)
        = (IF ctx.spot <= 0 \/ chosen = {} THEN {<<>>}
           ELSE {<<Strat!Leg(q[1], TRUE), Strat!Leg(q[2], FALSE)>> : q \in chosen})
  BY Zenon DEF Strat!Collar, Strat!Nothing
<1>1. \/ legs = <<>>
      \/ \E e : \E q \in pairs(e) :
            isCheap(q) /\ legs = <<Strat!Leg(q[1], TRUE), Strat!Leg(q[2], FALSE)>>
  <2> HIDE DEF expiries, pairs, isCheap
  <2>1. ASSUME NEW q \in chosen PROVE isCheap(q) /\ \E e : q \in pairs(e)
    BY <2>1, Zenon
  <2> HIDE DEF chosen
  <2>2. legs = <<>> \/ \E q \in chosen : legs = <<Strat!Leg(q[1], TRUE), Strat!Leg(q[2], FALSE)>>
    BY <1>0
  <2> QED  BY <2>1, <2>2, Zenon
<1>2. CASE legs # <<>>
  <2>0. PICK e : \E q \in pairs(e) :
            isCheap(q) /\ legs = <<Strat!Leg(q[1], TRUE), Strat!Leg(q[2], FALSE)>>
    BY <1>1, <1>2, Zenon
  <2>1. PICK q \in pairs(e) :
            isCheap(q) /\ legs = <<Strat!Leg(q[1], TRUE), Strat!Leg(q[2], FALSE)>>
    BY <2>0, Zenon
  <2>2. q[1] \in nearPuts(e) /\ q[2] \in nearCalls(e)
    BY <2>1
  <2>3. q[1] \in puts(e) /\ q[2] \in calls(e)
    BY <2>2, Zenon DEF Strat!NearestTo
  <2>4. /\ q[1] \in usable /\ q[1].expiry = e /\ q[1].type = "put" /\ q[1].strike < ctx.spot
        /\ q[2] \in usable /\ q[2].expiry = e /\ q[2].type = "call" /\ q[2].strike > ctx.spot
    BY <2>3
  <2>5. Eligible(ctx, q[1]) /\ Eligible(ctx, q[2]) /\ q[1].ask > 0 /\ q[2].bid > 0
    BY <2>4, TradableIs
  <2>6. 1000 * (q[1].ask - q[2].bid) <= StratPlan.maxCost * ctx.spot
    BY <2>1 DEF Strat!NetCost
  <2> HIDE DEF pairs
  <2>7. PICK c, d : c = q[1] /\ d = q[2]
    OBVIOUS
  <2>8. /\ Eligible(ctx, c) /\ Eligible(ctx, d) /\ d.expiry = c.expiry
        /\ c.type = "put" /\ c.strike < ctx.spot /\ d.type = "call" /\ d.strike > ctx.spot
        /\ CostsLittle(ctx, c, d)
        /\ c.ask > 0 /\ d.bid > 0
        /\ legs = <<Strat!Leg(c, TRUE), Strat!Leg(d, FALSE)>>
    BY <2>1, <2>4, <2>5, <2>6, <2>7 DEF CostsLittle
  <2> QED  BY <2>8, Zenon DEF Collared
<1> QED  BY <1>2

PairEligible(ctx, legs) ==
    \E c, d : /\ Eligible(ctx, c) /\ Eligible(ctx, d) /\ d.expiry = c.expiry
              /\ legs = <<Strat!Leg(c, TRUE), Strat!Leg(d, TRUE)>>

LEMMA ProposedIs ==
    ASSUME NEW ctx, Market(ctx), NEW name \in DOMAIN Proposals(ctx), NEW legs \in Proposals(ctx)[name]
    PROVE  \/ legs = <<>> \/ OneBought(ctx, legs) \/ OneSold(ctx, legs)
           \/ name = "neutral_iv_spread" /\ PairBought(ctx, legs)
           \/ PairEligible(ctx, legs) \/ Collared(ctx, legs)
<1>1. \/ legs \in Strat!Directional(ctx, StratPlan)
      \/ name = "neutral_iv_spread" /\ legs \in Strat!Neutral(ctx, StratPlan)
      \/ legs \in Strat!LongStraddle(ctx, StratPlan) \/ legs \in Strat!Collar(ctx, StratPlan)
  BY SMT DEF Proposals
<1>2. CASE legs \in Strat!Directional(ctx, StratPlan)
  BY <1>2, DirectionalProposes
<1>3. CASE name = "neutral_iv_spread" /\ legs \in Strat!Neutral(ctx, StratPlan)
  BY <1>3, NeutralProposes
<1>4. CASE legs \in Strat!LongStraddle(ctx, StratPlan)
  BY <1>4, LongStraddleProposes DEF PairEligible
<1>5. CASE legs \in Strat!Collar(ctx, StratPlan)
  BY <1>5, CollarProposes
<1> QED  BY <1>1, <1>2, <1>3, <1>4, <1>5, Zenon

LEMMA AskedInMarket ==
    ASSUME Asked, case.kind = "propose"
    PROVE  Market(case.context)
<1>1. PICK chain \in SUBSET StratListed, c \in Contexts :
           case = [kind |-> "propose",
                   context |-> [spot |-> c.spot, closes |-> c.closes, realized |-> c.realized,
                                rank |-> c.rank, holding |-> c.holding, chain |-> chain]]
  BY Zenon DEF Asked, ProposalAsked
<1>2. case.context.spot = c.spot /\ case.context.holding = c.holding /\ case.context.chain = chain
  BY <1>1
<1>3. \A o \in chain : Contract(o)
  BY ResearchAssumption DEF Contract
<1>4. c.spot \in Int /\ c.holding \in Nat \union {Strat!Unowned}
  BY ResearchAssumption
<1> QED  BY <1>2, <1>3, <1>4 DEF Market

\* The cover of a sold leg: the shares, or a bought put under it.
CoverOf(ctx, legs, i) ==
    /\ legs[i].contract.type = "call"
    /\ Len(legs) = 1 => ctx.holding \in {Strat!Unowned} \union {h \in Nat : h >= legs[i].contract.size}
    /\ Len(legs) = 2 => \E j \in DOMAIN legs \ {i} :
          /\ legs[j].long /\ legs[j].contract.type = "put"
          /\ legs[j].contract.expiry = legs[i].contract.expiry
          /\ legs[j].contract.strike < ctx.spot /\ ctx.spot < legs[i].contract.strike
          /\ 500 * (legs[j].price - legs[i].price) <= StratPlan.maxCost * ctx.spot

\* Whatever the chain, the quotes, the prices and the shares held: where the
\* settings require the shares, a call sold alone has them behind it unless
\* nobody can tell, and a call sold in a pair has a bought put under it, at a
\* cost below the cap (CoveredCall and _select of neutral_strategy.py:133-209
\* and collar_strategy.py:51-104).
THEOREM SoldCallsHaveCover ==
    ASSUME StratPlan.requireHolding
    PROVE  Spec => []SoldCallsAreCovered
<1>1. Asked => SoldCallsAreCovered
  <2> SUFFICES ASSUME Asked, case.kind = "propose",
                      NEW name \in DOMAIN Proposals(case.context),
                      NEW legs \in Proposals(case.context)[name],
                      NEW i \in DOMAIN legs, ~legs[i].long
               PROVE  CoverOf(case.context, legs, i)
    BY DEF SoldCallsAreCovered, CoverOf
  <2> DEFINE ctx == case.context
  <2>1. Market(ctx)
    BY AskedInMarket
  <2> HIDE DEF ctx
  <2>2. \/ legs = <<>> \/ OneBought(ctx, legs) \/ OneSold(ctx, legs) \/ PairBought(ctx, legs)
        \/ PairEligible(ctx, legs) \/ Collared(ctx, legs)
    BY <2>1, ProposedIs DEF ctx
  <2>3. \A c : Eligible(ctx, c) => Contract(c) /\ Strat!TwiceMid(c) > 0
    BY <2>1 DEF Market, Eligible
  <2>4. \A c : Strat!Leg(c, TRUE).long /\ ~Strat!Leg(c, FALSE).long
    BY DEF Strat!Leg
  <2>a. ASSUME NEW c, legs = <<Strat!Leg(c, TRUE)>>  PROVE FALSE
    <3>1. i = 1 /\ legs[1] = Strat!Leg(c, TRUE)
      BY <2>a, OneLeg
    <3> QED  BY <2>4, <3>1, Zenon
  <2>b. ASSUME NEW c, NEW d, legs = <<Strat!Leg(c, TRUE), Strat!Leg(d, TRUE)>>  PROVE FALSE
    <3>1. i \in {1, 2} /\ legs[1] = Strat!Leg(c, TRUE) /\ legs[2] = Strat!Leg(d, TRUE)
      BY <2>b, TwoLegs
    <3> QED  BY <2>4, <3>1, Zenon
  <2>5. CASE legs = <<>> \/ OneBought(ctx, legs) \/ PairBought(ctx, legs) \/ PairEligible(ctx, legs)
    <3>1. legs # <<>>
      OBVIOUS
    <3> QED  BY <2>5, <2>a, <2>b, <3>1, Zenon DEF OneBought, PairBought, PairEligible
  <2>6. CASE OneSold(ctx, legs)
    <3>1. PICK c : /\ Eligible(ctx, c) /\ c.type = "call" /\ Strat!IsCovered(ctx, StratPlan, c)
                   /\ legs = <<Strat!Leg(c, FALSE)>>
      BY <2>6 DEF OneSold
    <3>a. Len(legs) = 1 /\ DOMAIN legs = {1} /\ legs[1] = Strat!Leg(c, FALSE)
      BY <3>1, OneLeg, Zenon
    <3>2. i = 1 /\ Len(legs) = 1 /\ legs[i] = Strat!Leg(c, FALSE)
      BY <3>a
    <3>3. legs[i].contract = c
      BY <3>2 DEF Strat!Leg
    <3>4. ctx.holding = Strat!Unowned \/ (ctx.holding \in Nat /\ ctx.holding >= c.size)
      BY <2>1, <3>1 DEF Strat!IsCovered, Market
    <3>5. legs[i].contract.type = "call"
      BY <3>1, <3>3
    <3>6. ctx.holding \in {Strat!Unowned} \union {h \in Nat : h >= legs[i].contract.size}
      BY <3>3, <3>4
    <3>7. CoverOf(ctx, legs, i)
      <4>1. Len(legs) # 2
        BY <3>2
      <4> QED  BY <3>5, <3>6, <4>1, Zenon DEF CoverOf
    <3> QED  BY <3>7 DEF ctx
  <2>7. CASE Collared(ctx, legs)
    <3>1. PICK c, d :
              /\ Eligible(ctx, c) /\ Eligible(ctx, d) /\ d.expiry = c.expiry
              /\ c.type = "put" /\ c.strike < ctx.spot /\ d.type = "call" /\ d.strike > ctx.spot
              /\ CostsLittle(ctx, c, d)
              /\ c.ask > 0 /\ d.bid > 0
              /\ legs = <<Strat!Leg(c, TRUE), Strat!Leg(d, FALSE)>>
      BY <2>7, Zenon DEF Collared
    <3>a. Len(legs) = 2 /\ DOMAIN legs = {1, 2} /\ legs[1] = Strat!Leg(c, TRUE) /\ legs[2] = Strat!Leg(d, FALSE)
      BY <3>1, TwoLegs
    <3>2. i = 2 /\ Len(legs) = 2 /\ legs[1] = Strat!Leg(c, TRUE) /\ legs[2] = Strat!Leg(d, FALSE)
      <4>1. i # 1
        BY <2>4, <3>a, Zenon
      <4> QED  BY <3>a, <4>1
    <3>3. Contract(c) /\ Contract(d) /\ ctx.spot \in Int
      BY <2>1, <2>3, <3>1 DEF Market
    <3>4. /\ legs[1].contract = c /\ legs[2].contract = d
          /\ legs[1].price = 2 * c.ask /\ legs[2].price = 2 * d.bid
      BY <3>1, <3>2 DEF Strat!Leg
    <3>5. 500 * (legs[1].price - legs[2].price) <= StratPlan.maxCost * ctx.spot
      <4>1. 500 * (2 * c.ask - 2 * d.bid) = 1000 * (c.ask - d.bid)
        BY <3>3 DEF Contract
      <4>2. 1000 * (c.ask - d.bid) <= StratPlan.maxCost * ctx.spot
        BY <3>1 DEF CostsLittle
      <4>3. 500 * (legs[1].price - legs[2].price) = 500 * (2 * c.ask - 2 * d.bid)
        BY <3>4
      <4> QED  BY <4>1, <4>2, <4>3
    <3>6. 1 \in DOMAIN legs \ {i} /\ legs[1].long
      <4>1. 1 \in DOMAIN legs \ {i}
        BY <3>a, <3>2
      <4>2. legs[1].long
        BY <2>4, <3>a, Zenon
      <4> QED  BY <4>1, <4>2
    <3>7. ctx.spot < legs[2].contract.strike
      BY <3>1, <3>3, <3>4 DEF Contract
    <3>8. \E j \in DOMAIN legs \ {i} :
             /\ legs[j].long /\ legs[j].contract.type = "put"
             /\ legs[j].contract.expiry = legs[i].contract.expiry
             /\ legs[j].contract.strike < ctx.spot
             /\ ctx.spot < legs[i].contract.strike
             /\ 500 * (legs[j].price - legs[i].price) <= StratPlan.maxCost * ctx.spot
      <4>1. /\ legs[1].contract.type = "put" /\ legs[1].contract.expiry = legs[2].contract.expiry
            /\ legs[1].contract.strike < ctx.spot
        BY <3>1, <3>4
      <4>2. i = 2
        BY <3>2
      <4>3. /\ legs[1].long /\ legs[1].contract.type = "put"
            /\ legs[1].contract.expiry = legs[i].contract.expiry
            /\ legs[1].contract.strike < ctx.spot
            /\ ctx.spot < legs[i].contract.strike
            /\ 500 * (legs[1].price - legs[i].price) <= StratPlan.maxCost * ctx.spot
        BY <3>5, <3>6, <3>7, <4>1, <4>2, Zenon
      <4> QED  BY <3>6, <4>3, Zenon
    <3>9. legs[i].contract.type = "call"
      BY <3>1, <3>2, <3>4
    <3>10. CoverOf(ctx, legs, i)
      <4>1. Len(legs) # 1
        BY <3>2
      <4> QED  BY <3>8, <3>9, <4>1, Zenon DEF CoverOf
    <3> QED  BY <3>10 DEF ctx
  <2> QED  BY <2>2, <2>5, <2>6, <2>7
<1> QED  BY OnlyAsked, <1>1, PTL

\* What a broker takes: legs with a price, an expiry and an open interest.
CanBeTraded(name, legs) ==
    /\ \A i \in DOMAIN legs :
          /\ legs[i].price > 0
          /\ legs[i].contract.expiry \in StratPlan.minDays..StratPlan.maxDays
          /\ ~(name = "neutral_iv_spread" /\ i = 2) => legs[i].contract.interest >= StratPlan.minInterest
    /\ Len(legs) = 2 => legs[1].contract.expiry = legs[2].contract.expiry

\* Whatever the chain, the quotes and the prices: every leg of a proposal has a
\* price and an expiry in the window of the settings, and, but for the put of
\* the neutral straddle, the open interest they ask for; a pair has one expiry
\* (select_contract, _find_atm_pair and the collar, base_strategy.py:165-195,
\* straddle_strategy.py:97-139).
THEOREM ProposalsCanBeTraded == Spec => []LegsCanBeTraded
<1>1. Asked => LegsCanBeTraded
  <2> SUFFICES ASSUME Asked, case.kind = "propose",
                      NEW name \in DOMAIN Proposals(case.context),
                      NEW legs \in Proposals(case.context)[name]
               PROVE  CanBeTraded(name, legs)
    BY Zenon DEF LegsCanBeTraded, CanBeTraded
  <2> DEFINE ctx == case.context
  <2>1. Market(ctx)
    BY AskedInMarket
  <2> HIDE DEF ctx
  <2>2. \/ legs = <<>> \/ OneBought(ctx, legs) \/ OneSold(ctx, legs)
        \/ name = "neutral_iv_spread" /\ PairBought(ctx, legs)
        \/ PairEligible(ctx, legs) \/ Collared(ctx, legs)
    BY <2>1, ProposedIs DEF ctx
  <2>3. ASSUME NEW c, c \in ctx.chain, Strat!TwiceMid(c) > 0, NEW long \in BOOLEAN
        PROVE  Strat!Leg(c, long).contract = c /\ Strat!Leg(c, long).price > 0
    BY <2>1, <2>3, LegsArePriced DEF Market
  <2>4. ASSUME NEW c, Eligible(ctx, c), NEW long \in BOOLEAN
        PROVE  /\ Strat!Leg(c, long).contract = c /\ Strat!Leg(c, long).price > 0
               /\ c.expiry \in StratPlan.minDays..StratPlan.maxDays /\ c.interest >= StratPlan.minInterest
    <3>1. c \in ctx.chain /\ Strat!TwiceMid(c) > 0
      BY <2>4 DEF Eligible
    <3>2. c.expiry \in Int
      BY <2>1, <3>1 DEF Market, Contract
    <3> QED  BY <2>3, <2>4, <3>1, <3>2, ResearchAssumption DEF Eligible
  <2>5. CASE legs = <<>>
    BY <2>5 DEF CanBeTraded
  <2>6. ASSUME NEW c, Eligible(ctx, c), NEW long \in BOOLEAN, legs = <<Strat!Leg(c, long)>>
        PROVE  CanBeTraded(name, legs)
    <3>1. Len(legs) = 1 /\ DOMAIN legs = {1} /\ legs[1] = Strat!Leg(c, long)
      BY <2>6, OneLeg, Zenon
    <3>a. /\ Strat!Leg(c, long).contract = c /\ Strat!Leg(c, long).price > 0
          /\ c.expiry \in StratPlan.minDays..StratPlan.maxDays /\ c.interest >= StratPlan.minInterest
      BY <2>4, <2>6, Zenon
    <3>2. /\ legs[1].contract = c /\ legs[1].price > 0
          /\ c.expiry \in StratPlan.minDays..StratPlan.maxDays /\ c.interest >= StratPlan.minInterest
      BY <3>1, <3>a, Zenon
    <3> QED  BY <3>1, <3>2 DEF CanBeTraded
  <2>7. ASSUME NEW c, NEW d, Eligible(ctx, c), d \in ctx.chain, Strat!TwiceMid(d) > 0, d.expiry = c.expiry,
               NEW long \in BOOLEAN, legs = <<Strat!Leg(c, TRUE), Strat!Leg(d, long)>>,
               name = "neutral_iv_spread" \/ d.interest >= StratPlan.minInterest
        PROVE  CanBeTraded(name, legs)
    <3>a. legs = <<Strat!Leg(c, TRUE), Strat!Leg(d, long)>>
      BY <2>7
    <3>1. DOMAIN legs = {1, 2} /\ legs[1] = Strat!Leg(c, TRUE) /\ legs[2] = Strat!Leg(d, long)
      BY <3>a, TwoLegs
    <3>2. Strat!Leg(d, long).contract = d /\ Strat!Leg(d, long).price > 0
      BY <2>3, <2>7, Zenon
    <3>3. /\ Strat!Leg(c, TRUE).contract = c /\ Strat!Leg(c, TRUE).price > 0
          /\ c.expiry \in StratPlan.minDays..StratPlan.maxDays /\ c.interest >= StratPlan.minInterest
      BY <2>4, <2>7, Zenon
    <3>4. /\ legs[1].contract = c /\ legs[1].price > 0 /\ legs[2].contract = d /\ legs[2].price > 0
          /\ d.expiry \in StratPlan.minDays..StratPlan.maxDays
      BY <2>7, <3>1, <3>2, <3>3, Zenon
    <3> QED  BY <2>7, <3>1, <3>3, <3>4 DEF CanBeTraded
  <2>8. CASE OneBought(ctx, legs)
    <3>1. PICK c : Eligible(ctx, c) /\ legs = <<Strat!Leg(c, TRUE)>>
      BY <2>8 DEF OneBought
    <3> QED  BY <2>6, <3>1
  <2>9. CASE OneSold(ctx, legs)
    <3>1. PICK c : Eligible(ctx, c) /\ legs = <<Strat!Leg(c, FALSE)>>
      BY <2>9 DEF OneSold
    <3> QED  BY <2>6, <3>1
  <2>10. CASE name = "neutral_iv_spread" /\ PairBought(ctx, legs)
    <3>1. PICK c, d : /\ Eligible(ctx, c) /\ d \in ctx.chain /\ Strat!TwiceMid(d) > 0 /\ d.expiry = c.expiry
                      /\ legs = <<Strat!Leg(c, TRUE), Strat!Leg(d, TRUE)>>
      BY <2>10 DEF PairBought
    <3> QED  BY <2>7, <2>10, <3>1
  <2>11. CASE PairEligible(ctx, legs)
    <3>1. PICK c, d : /\ Eligible(ctx, c) /\ Eligible(ctx, d) /\ d.expiry = c.expiry
                      /\ legs = <<Strat!Leg(c, TRUE), Strat!Leg(d, TRUE)>>
      BY <2>11 DEF PairEligible
    <3>2. d \in ctx.chain /\ Strat!TwiceMid(d) > 0 /\ d.interest >= StratPlan.minInterest
      BY <3>1 DEF Eligible
    <3> QED  BY <2>7, <3>1, <3>2, TRUE \in BOOLEAN, Zenon
  <2>12. CASE Collared(ctx, legs)
    <3>1. PICK c, d : /\ Eligible(ctx, c) /\ Eligible(ctx, d) /\ d.expiry = c.expiry
                      /\ legs = <<Strat!Leg(c, TRUE), Strat!Leg(d, FALSE)>>
      BY <2>12, Zenon DEF Collared
    <3>2. d \in ctx.chain /\ Strat!TwiceMid(d) > 0 /\ d.interest >= StratPlan.minInterest
      BY <3>1 DEF Eligible
    <3> QED  BY <2>7, <3>1, <3>2, FALSE \in BOOLEAN, Zenon
  <2> QED  BY <2>2, <2>5, <2>8, <2>9, <2>10, <2>11, <2>12
<1> QED  BY OnlyAsked, <1>1, PTL

-----------------------------------------------------------------------------
(* The trading calendar.                                                   *)

LEMMA SmallestIsThere ==
    ASSUME NEW S \in SUBSET Nat, S # {}
    PROVE  \E x \in S : \A y \in S : x <= y
<1> DEFINE R == OpToRel(<, Nat)
<1>1. IsWellFoundedOn(R, Nat)
  BY NatLessThanWellFounded
<1>2. \A m, n \in Nat : <<m, n>> \in R <=> m < n
  BY DEF OpToRel
<1> HIDE DEF R
<1>3. PICK n \in S : \A m \in S : ~(<<m, n>> \in R)
  BY <1>1, WFMin
<1>4. ASSUME NEW m \in S PROVE n <= m
  <2>1. m \in Nat /\ n \in Nat
    OBVIOUS
  <2>2. ~(m < n)
    BY <1>2, <1>3, <2>1
  <2> QED  BY <2>1, <2>2
<1> QED  BY <1>4

LEMMA LargestIsThere ==
    ASSUME NEW bound \in Nat, NEW S \in SUBSET (0..bound), S # {}
    PROVE  \E x \in S : \A y \in S : x >= y
<1> DEFINE D == {bound - x : x \in S}
<1>1. D \in SUBSET Nat /\ D # {}
  <2>1. \A x \in S : bound - x \in Nat
    OBVIOUS
  <2>2. PICK x : x \in S
    OBVIOUS
  <2>3. bound - x \in D
    BY <2>2
  <2> QED  BY <2>1, <2>3
<1>2. PICK d \in D : \A y \in D : d <= y
  BY <1>1, SmallestIsThere
<1>3. PICK x \in S : d = bound - x
  BY <1>2
<1>4. ASSUME NEW y \in S PROVE x >= y
  <2>1. bound - y \in D
    OBVIOUS
  <2>2. d <= bound - y
    BY <1>2, <2>1
  <2>3. x \in Int /\ y \in Int
    OBVIOUS
  <2> QED  BY <1>3, <2>2, <2>3
<1> QED  BY <1>4

LEMMA MinOfDays ==
    ASSUME NEW S \in SUBSET Nat, S # {}
    PROVE  Cal!Min(S) \in S /\ \A y \in S : Cal!Min(S) <= y
BY SmallestIsThere DEF Cal!Min

LEMMA MaxOfDays ==
    ASSUME NEW bound \in Nat, NEW S \in SUBSET (0..bound), S # {}
    PROVE  Cal!Max(S) \in S /\ \A y \in S : Cal!Max(S) >= y
BY LargestIsThere DEF Cal!Max

LEMMA SameCardinality == \A S : Cal!Cardinality(S) = Cardinality(S)
BY DEF Cardinality, Cal!Cardinality

\* The days of an interval on which the market was shut though it was no weekend.
ShutBetween(T, from, to) == {d \in from..to : ~Cal!IsWeekend(d) /\ d \notin T}
Known(T, from, to) == [holidays |-> ShutBetween(T, from, to), from |-> from, to |-> to]

\* A calendar tells the truth of the days T on which the market was open: it
\* knows nothing, or just the days between two of them.
Faithful(cal, T) == cal = Cal!Blank({}) \/ \E from, to \in T : from <= to /\ cal = Known(T, from, to)

\* A process that learns part of the days from the beginning, or all of them,
\* keeps a faithful calendar faithful.
LEMMA LearningIsFaithful ==
    ASSUME NEW bound \in Nat, NEW T \in SUBSET (1..bound), NEW cal, Faithful(cal, T),
           NEW m \in Int, NEW S, S = {t \in T : t <= m} \/ S = {}, cal = Cal!Blank({}) \/ S \in {T, {}}
    PROVE  Faithful(Cal!Learn(cal, S), T)
<1>1. CASE Cal!Cardinality(S) < 2
  BY <1>1, Zenon DEF Cal!Learn
<1>2. CASE ~(Cal!Cardinality(S) < 2)
  <2> DEFINE first == Cal!Min(S)
             last == Cal!Max(S)
  <2>1. S # {}
    BY <1>2, FS_EmptySet, SameCardinality
  <2>2. S \in SUBSET T /\ S \in SUBSET Nat /\ S \in SUBSET (0..bound)
    <3>1. S \subseteq T
      OBVIOUS
    <3> QED  BY <3>1
  <2>3. /\ first \in S /\ \A y \in S : first <= y
        /\ last \in S /\ \A y \in S : last >= y
    BY <2>1, <2>2, MinOfDays, MaxOfDays
  <2>4. Cal!Learn(cal, S)
          = [holidays |-> cal.holidays \union {d \in first..last : ~Cal!IsWeekend(d) /\ d \notin S},
             from |-> IF cal.from = Cal!NoDay THEN first ELSE Cal!Min({cal.from, first}),
             to |-> IF cal.to = Cal!NoDay THEN last ELSE Cal!Max({cal.to, last})]
    BY <1>2, Zenon DEF Cal!Learn
  <2> HIDE DEF first, last
  <2>5. first \in T /\ last \in T /\ first <= last /\ first \in Nat /\ last \in Nat
    BY <2>2, <2>3
  <2>6. {d \in first..last : ~Cal!IsWeekend(d) /\ d \notin S} = ShutBetween(T, first, last)
    <3>1. ASSUME NEW d \in first..last PROVE d \in S <=> d \in T
      <4>1. last <= m
        BY <2>3
      <4> QED  BY <2>5, <3>1, <4>1, <2>1
    <3> QED  BY <3>1 DEF ShutBetween
  <2>7. CASE cal = Cal!Blank({})
    <3>1. cal.holidays = {} /\ cal.from = Cal!NoDay /\ cal.to = Cal!NoDay
      BY <2>7 DEF Cal!Blank
    <3>2. Cal!Learn(cal, S) = Known(T, first, last)
      BY <2>4, <2>6, <3>1 DEF Known
    <3> QED  BY <2>5, <3>2 DEF Faithful
  <2>8. CASE cal # Cal!Blank({})
    <3>1. S = T
      BY <2>1, <2>8
    <3>2. PICK from \in T, to \in T : from <= to /\ cal = Known(T, from, to)
      BY <2>8 DEF Faithful
    <3>3. cal.holidays = ShutBetween(T, from, to) /\ cal.from = from /\ cal.to = to
      BY <3>2 DEF Known
    <3>4. from # Cal!NoDay /\ to # Cal!NoDay /\ from \in Nat /\ to \in Nat
      BY DEF Cal!NoDay
    <3>5. first <= from /\ to <= last
      BY <2>3, <3>1
    <3>6. Cal!Min({from, first}) = first
      <4>1. {from, first} \in SUBSET Nat /\ {from, first} # {}
        BY <2>5, <3>4
      <4>2. Cal!Min({from, first}) \in {from, first} /\ Cal!Min({from, first}) <= first
        BY <4>1, MinOfDays
      <4> QED  BY <2>5, <3>4, <3>5, <4>2
    <3>7. Cal!Max({to, last}) = last
      <4>1. {to, last} \in SUBSET (0..bound) /\ {to, last} # {}
        BY <2>5, <3>4
      <4>2. Cal!Max({to, last}) \in {to, last} /\ Cal!Max({to, last}) >= last
        BY <4>1, MaxOfDays
      <4> QED  BY <2>5, <3>4, <3>5, <4>2
    <3>8. ShutBetween(T, from, to) \union ShutBetween(T, first, last) = ShutBetween(T, first, last)
      BY <2>5, <3>4, <3>5 DEF ShutBetween
    <3>9. Cal!Learn(cal, S) = Known(T, first, last)
      BY <2>4, <2>6, <3>3, <3>4, <3>6, <3>7, <3>8 DEF Known
    <3> QED  BY <2>5, <3>9 DEF Faithful
  <2> QED  BY <2>7, <2>8
<1> QED  BY <1>1, <1>2

LEMMA LoadingIsFaithful ==
    ASSUME NEW cal, NEW T, Faithful(cal, T)
    PROVE  Cal!Loaded({}, cal) = cal
<1>1. CASE cal = Cal!Blank({})
  BY <1>1 DEF Cal!Loaded, Cal!Blank
<1>2. ASSUME NEW from \in T, NEW to \in T, cal = Known(T, from, to) PROVE Cal!Loaded({}, cal) = cal
  BY <1>2 DEF Cal!Loaded, Known
<1> QED  BY <1>1, <1>2 DEF Faithful

LEMMA CalendarToLearn ==
    ASSUME Asked, case.kind = "calendar"
    PROVE  /\ case.first \in Nat /\ case.last \in Nat /\ case.first <= case.last
           /\ Traded(case, case.last) \in SUBSET (1..case.last)
           /\ Traded(case, case.first) = {t \in Traded(case, case.last) : t <= case.first}
           /\ \A t \in Traded(case, case.last) : ~Cal!IsWeekend(t) /\ MarketFrom <= t
<1>1. PICK later \in 0..Learning, first \in Nat, last \in Nat :
           /\ first = MarketFrom + Learning /\ last = MarketFrom + Learning + later
           /\ case.first = first /\ case.last = last
  <2>1. PICK later \in 0..Learning, offline \in BOOLEAN :
          \E shut \in SUBSET Working(MarketFrom, MarketFrom + Learning + later) :
             case = [kind |-> "calendar", shut |-> shut, offline |-> offline,
                     first |-> MarketFrom + Learning, last |-> MarketFrom + Learning + later]
    BY Zenon DEF Asked, CalendarAsked
  <2>2. case.first = MarketFrom + Learning /\ case.last = MarketFrom + Learning + later
    BY <2>1
  <2> QED  BY <2>2, ResearchAssumption
<1>2. MarketFrom \in Nat \ {0} /\ first <= last
  BY <1>1, ResearchAssumption
<1>3. Traded(case, last) \in SUBSET (1..last)
  BY <1>2 DEF Traded, Working
<1>4. Traded(case, first) = {t \in Traded(case, last) : t <= first}
  BY <1>2 DEF Traded, Working
<1>5. \A t \in Traded(case, last) : ~Cal!IsWeekend(t) /\ MarketFrom <= t
  BY <1>2 DEF Traded, Working
<1> QED  BY <1>1, <1>2, <1>3, <1>4, <1>5

LEMMA SessionsAreFaithful ==
    ASSUME Asked, case.kind = "calendar"
    PROVE  /\ Faithful(FirstCalendar(case).cal, Traded(case, case.last))
           /\ Faithful(SecondCalendar(case), Traded(case, case.last))
<1> DEFINE T == Traded(case, case.last)
           S == Traded(case, case.first)
           R == IF case.offline THEN {} ELSE T
           blank == Cal!Blank({})
           one == Cal!Learn(blank, S)
           disk == Cal!Saved(blank, blank, one)
           two == Cal!Learn(disk, R)
<1>1. /\ case.last \in Nat /\ T \in SUBSET (1..case.last)
      /\ case.first \in Int /\ S = {t \in T : t <= case.first}
  BY CalendarToLearn
<1>2. Faithful(blank, T)
  BY DEF Faithful
<1>3. Cal!Loaded({}, blank) = blank
  BY <1>2, LoadingIsFaithful
<1>4. FirstCalendar(case).cal = one /\ FirstCalendar(case).disk = disk
  BY <1>3, Zenon DEF FirstCalendar, Cal!Session
<1> HIDE DEF T, S, blank
<1>5. Faithful(one, T)
  BY <1>1, <1>2, LearningIsFaithful DEF blank
<1>6. Faithful(disk, T)
  BY <1>2, <1>5 DEF Cal!Saved
<1> HIDE DEF one, disk
<1>7. Cal!Loaded({}, disk) = disk
  BY <1>6, LoadingIsFaithful
<1>8. SecondCalendar(case) = two
  BY <1>4, <1>7, Zenon DEF SecondCalendar, Cal!Session, T
<1>9. Faithful(two, T)
  <2>1. PICK bound \in Nat : bound = case.last /\ T \in SUBSET (1..bound)
    BY <1>1
  <2>2. R \in {T, {}}
    OBVIOUS
  <2> HIDE DEF R
  <2>3. R = {t \in T : t <= bound} \/ R = {}
    <3>1. T = {t \in T : t <= bound}
      <4>1. \A t \in T : t <= bound
        BY <2>1
      <4> QED  BY <4>1, Zenon
    <3> QED  BY <2>2, <3>1
  <2>4. bound \in Int
    OBVIOUS
  <2> QED  BY <1>6, <2>1, <2>2, <2>3, <2>4, LearningIsFaithful
<1> QED  BY <1>4, <1>5, <1>8, <1>9 DEF T

\* What a faithful calendar says of the days it has seen, and of later ones.
LEMMA SeenDays ==
    ASSUME NEW T, NEW from \in Nat \ {0}, NEW to \in Nat \ {0}, NEW d \in from..to, \A t \in T : ~Cal!IsWeekend(t)
    PROVE  Cal!IsTradingDay(Known(T, from, to), d) <=> d \in T
BY DEF Known, ShutBetween, Cal!IsTradingDay, Cal!IsHoliday, Cal!NoDay

LEMMA LaterDays ==
    ASSUME NEW bound \in Nat, NEW T \in SUBSET (1..bound), NEW cal, Faithful(cal, T), NEW d \in Nat, d > bound
    PROVE  Cal!IsTradingDay(cal, d) <=> ~Cal!IsWeekend(d) /\ ~Cal!IsFixedHoliday(d)
<1>1. d \notin cal.holidays /\ (cal.to = Cal!NoDay \/ ~(d <= cal.to))
  <2>1. CASE cal = Cal!Blank({})
    BY <2>1 DEF Cal!Blank
  <2>2. ASSUME NEW from \in T, NEW to \in T, cal = Known(T, from, to)
        PROVE  d \notin cal.holidays /\ ~(d <= cal.to)
    BY <2>2 DEF Known, ShutBetween
  <2> QED  BY <2>1, <2>2 DEF Faithful
<1> QED  BY <1>1 DEF Cal!IsTradingDay, Cal!IsHoliday

\* The market does not stay shut for longer than the 60 days that are searched.
OpensInTime ==
    case.kind = "calendar" =>
        \A d \in MarketFrom..case.last :
            (\E t \in Traded(case, case.last) : d < t)
            => \E t \in Traded(case, case.last) : t \in (d + 1)..(d + 60)

LEMMA NextDays ==
    ASSUME NEW T \in SUBSET Nat, NEW from \in Nat \ {0}, NEW to \in T, to # 0, NEW d \in from..(to - 1),
           \A t \in T : ~Cal!IsWeekend(t), \E t \in T : t \in (d + 1)..(d + 60)
    PROVE  Cal!NextTradingDay(Known(T, from, to), d) = Min({t \in T \intersect (from..to) : t > d})
<1> DEFINE cal == Known(T, from, to)
           after == {t \in T \intersect (from..to) : t > d}
<1>1. \A e \in from..to : Cal!IsTradingDay(cal, e) <=> e \in T
  BY SeenDays
<1>2. after \in SUBSET Nat /\ to \in after
  OBVIOUS
<1>3. PICK x \in after : \A y \in after : x <= y
  BY <1>2, SmallestIsThere
<1>4. Min(after) = x
  <2>1. Min(after) \in after /\ \A y \in after : Min(after) <= y
    BY <1>3 DEF Min
  <2>2. x <= Min(after) /\ Min(after) <= x
    BY <1>3, <2>1
  <2> QED  BY <1>2, <1>3, <2>1, <2>2
<1>5. x \in T /\ x \in from..to /\ x > d /\ x <= to
  BY <1>3
<1>6. x <= d + 60
  <2>1. PICK t \in T : t \in (d + 1)..(d + 60)
    OBVIOUS
  <2>2. CASE t <= to
    <3>1. t \in after
      BY <2>1, <2>2
    <3> QED  BY <1>3, <1>5, <2>1, <3>1
  <2>3. CASE t > to
    BY <1>5, <2>1, <2>3
  <2> QED  BY <2>1, <2>2, <2>3
<1> HIDE DEF cal, after
<1>7. Cal!IsTradingDay(cal, x) /\ \A e \in (d + 1)..(x - 1) : Cal!IsHoliday(cal, e)
  <2>1. Cal!IsTradingDay(cal, x)
    BY <1>1, <1>5
  <2>2. ASSUME NEW e \in (d + 1)..(x - 1) PROVE Cal!IsHoliday(cal, e)
    <3>1. e \in from..to /\ e < x /\ e > d
      BY <1>5
    <3>2. e \notin T
      BY <1>3, <3>1 DEF after
    <3>3. ~Cal!IsTradingDay(cal, e)
      BY <1>1, <3>1, <3>2
    <3> QED  BY <3>3 DEF Cal!IsTradingDay
  <2> QED  BY <2>1, <2>2
<1>8. ASSUME NEW y \in (d + 1)..(d + 60), Cal!IsTradingDay(cal, y),
             \A e \in (d + 1)..(y - 1) : Cal!IsHoliday(cal, e)
      PROVE  y = x
  <2>1. CASE y < x
    <3>1. y \in from..to /\ y > d
      BY <1>5, <2>1
    <3>2. y \in after
      BY <1>1, <1>8, <3>1 DEF after
    <3> QED  BY <1>3, <1>5, <2>1, <3>2
  <2>2. CASE x < y
    <3>1. x \in (d + 1)..(y - 1)
      BY <1>5, <2>2
    <3>2. Cal!IsHoliday(cal, x)
      BY <1>8, <3>1
    <3> QED  BY <1>7, <3>2 DEF Cal!IsTradingDay
  <2> QED  BY <1>5, <2>1, <2>2
<1>9. x \in (d + 1)..(d + 60)
  BY <1>5, <1>6
<1>10. Cal!NextTradingDay(cal, d) = x
  BY <1>7, <1>8, <1>9 DEF Cal!NextTradingDay
<1> QED  BY <1>4, <1>10 DEF cal, after

\* Whatever days the market was open, however many days two processes learn
\* from and whether or not the second is refused the history: a calendar tells
\* the open days of what it has seen, later days by the table, and counts days
\* and finds the next one by that, as long as the market does not stay shut
\* for longer than the 60 days that are searched (learn_from_history,
\* is_holiday, next_trading_day, trading_calendar.py:230-268,320-362).
THEOREM CalendarIsTrue == Spec => [](OpensInTime => CalendarTellsTheMarket)
<1>1. Asked => (OpensInTime => CalendarTellsTheMarket)
  <2> DEFINE T == Traded(case, case.last)
             seen(cal) == IF cal.to = Cal!NoDay THEN {} ELSE cal.from..cal.to
             open(cal) == T \intersect seen(cal)
             Now(cal) == \A d \in seen(cal) : Cal!IsOpen(cal, d, Cal!SessionOpens) <=> d \in open(cal)
             Later(cal) == \A d \in (case.last + 1)..(case.last + Ahead) :
                              Cal!IsTradingDay(cal, d) <=> ~Cal!IsWeekend(d) /\ ~Cal!IsFixedHoliday(d)
             Counts(cal) == \A d \in seen(cal) \ {cal.to} :
                /\ Cal!NextTradingDay(cal, d) = Min({t \in open(cal) : t > d})
                /\ Cal!TradingDaysBetween(cal, d, cal.to) = Cardinality({t \in open(cal) : t >= d})
  <2> SUFFICES ASSUME Asked, case.kind = "calendar", OpensInTime,
                      NEW cal \in {FirstCalendar(case).cal, SecondCalendar(case)}
               PROVE  Now(cal) /\ Later(cal) /\ Counts(cal)
    BY Zenon DEF CalendarTellsTheMarket
  <2>1. Faithful(cal, T)
    BY SessionsAreFaithful
  <2>2. PICK last \in Nat : /\ last = case.last /\ T \in SUBSET (1..last)
                            /\ \A t \in T : ~Cal!IsWeekend(t) /\ MarketFrom <= t
    BY CalendarToLearn
  <2>3. \A d \in MarketFrom..last : (\E t \in T : d < t) => \E t \in T : t \in (d + 1)..(d + 60)
    BY <2>2 DEF OpensInTime
  <2>4. MarketFrom \in Nat \ {0} /\ Ahead \in Nat
    BY ResearchAssumption
  <2> HIDE DEF T
  <2>5. Later(cal)
    <3>1. ASSUME NEW d \in (last + 1)..(last + Ahead)
          PROVE  Cal!IsTradingDay(cal, d) <=> ~Cal!IsWeekend(d) /\ ~Cal!IsFixedHoliday(d)
      <4>1. d \in Nat /\ d > last
        BY <2>4
      <4> QED  BY <2>1, <2>2, <4>1, LaterDays
    <3> QED  BY <2>2, <3>1
  <2>6. CASE cal = Cal!Blank({})
    <3>1. seen(cal) = {}
      BY <2>6 DEF Cal!Blank
    <3> QED  BY <2>5, <3>1
  <2>7. ASSUME NEW from \in T, NEW to \in T, from <= to, cal = Known(T, from, to)
        PROVE  Now(cal) /\ Counts(cal)
    <3>1. from \in Nat \ {0} /\ to \in Nat \ {0} /\ from \in 1..last /\ to \in 1..last /\ MarketFrom <= from
      BY <2>2, <2>7
    <3>2. seen(cal) = from..to /\ cal.to = to
      BY <2>7, <3>1 DEF Known, Cal!NoDay
    <3>3. \A d \in from..to : Cal!IsTradingDay(cal, d) <=> d \in T
      BY <2>2, <2>7, <3>1, SeenDays
    <3> HIDE DEF seen
    <3>4. Now(cal)
      <4>1. \A d \in from..to : Cal!IsOpen(cal, d, Cal!SessionOpens) <=> d \in T
        <5>1. Cal!SessionOpens <= Cal!SessionOpens /\ Cal!SessionOpens <= Cal!SessionCloses
          BY DEF Cal!SessionOpens, Cal!SessionCloses
        <5> QED  BY <3>3, <5>1, Zenon DEF Cal!IsOpen
      <4>2. \A d \in from..to : d \in open(cal) <=> d \in T
        BY <3>2
      <4> HIDE DEF open
      <4> QED  BY <3>2, <4>1, <4>2
    <3>5. ASSUME NEW d \in seen(cal) \ {cal.to}
          PROVE  /\ Cal!NextTradingDay(cal, d) = Min({t \in open(cal) : t > d})
                 /\ Cal!TradingDaysBetween(cal, d, cal.to) = Cardinality({t \in open(cal) : t >= d})
      <4>a. d \in from..to /\ d # to
        BY <3>2
      <4>1. d \in from..(to - 1) /\ d \in MarketFrom..last /\ d < to
        BY <2>4, <3>1, <4>a
      <4>2. \E t \in T : t \in (d + 1)..(d + 60)
        BY <2>3, <2>7, <4>1
      <4>3. Cal!NextTradingDay(cal, d) = Min({t \in T \intersect (from..to) : t > d})
        <5>1. T \in SUBSET Nat /\ to # 0 /\ \A t \in T : ~Cal!IsWeekend(t)
          BY <2>2, <3>1
        <5> QED  BY <2>7, <3>1, <4>1, <4>2, <5>1, NextDays
      <4>4. {e \in d..to : Cal!IsTradingDay(cal, e)} = {t \in T \intersect (from..to) : t >= d}
        <5>1. \A e \in d..to : e \in from..to
          BY <3>1, <4>1
        <5> QED  BY <3>1, <3>3, <4>1, <5>1
      <4>5. Cal!TradingDaysBetween(cal, d, to) = Cardinality({t \in T \intersect (from..to) : t >= d})
        BY <4>4, SameCardinality DEF Cal!TradingDaysBetween
      <4> QED  BY <3>2, <4>3, <4>5
    <3> QED  BY <3>4, <3>5
  <2> QED  BY <2>1, <2>5, <2>6, <2>7 DEF Faithful
<1> QED  BY OnlyAsked, <1>1, PTL

-----------------------------------------------------------------------------
Join(a, b) == a \o b
Joins == INSTANCE SequenceFacts WITH Op <- Join

\* When the first m sequences hold members of T and the others none, what
\* they make up together begins with what the first m make up.
Ordered(n, m, seq, S, T, acc) ==
    /\ acc[n] \in Seq(S) /\ acc[m] \in Seq(T)
    /\ Len(acc[m]) <= Len(acc[n])
    /\ acc[m] = SubSeq(acc[n], 1, Len(acc[m]))
    /\ \A p \in DOMAIN acc[n] : p <= Len(acc[m]) <=> acc[n][p] \in T
Divided(n, m, seq, S, T, acc) ==
    /\ n \in Nat /\ m \in 0..n /\ T \subseteq S
    /\ \A k \in 1..n : seq[k] \in Seq(S)
    /\ \A k \in 1..m : seq[k] \in Seq(T)
    /\ \A k \in (m + 1)..n : \A j \in DOMAIN seq[k] : seq[k][j] \notin T
    /\ Joins!Walk(acc, <<>>, seq, n)

LEMMA JoinedInOrder ==
    ASSUME NEW n, NEW m, NEW seq, NEW S, NEW T, NEW acc, Divided(n, m, seq, S, T, acc)
    PROVE  Ordered(n, m, seq, S, T, acc)
<1> USE DEF Divided
<1> n \in Nat /\ m \in 0..n
  OBVIOUS
<1>1. acc[0] = <<>> /\ \A i \in 1..n : acc[i] = acc[i - 1] \o seq[i]
  BY DEF Joins!Walk, Join
<1>2. \A i \in 0..(n - 1) : i + 1 \in 1..n /\ (i + 1) - 1 = i
  OBVIOUS
<1>3. acc[m] \in Seq(T)
  <2> DEFINE A == {i \in 0..m : acc[i] \in Seq(T)}
  <2>1. 0 \in A
    <3>1. <<>> \in Seq(T) /\ 0 \in 0..m
      OBVIOUS
    <3> QED  BY <1>1, <3>1, Zenon
  <2>2. ASSUME NEW i \in 0..(m - 1), i \in A PROVE i + 1 \in A
    <3>1. acc[i] \in Seq(T) /\ seq[i + 1] \in Seq(T) /\ i + 1 \in 0..m /\ i \in 0..(n - 1)
      BY <2>2
    <3>2. acc[i + 1] = acc[i] \o seq[i + 1]
      BY <1>1, <1>2, <3>1
    <3>3. acc[i] \o seq[i + 1] \in Seq(T)
      BY <3>1
    <3> QED  BY <3>1, <3>2, <3>3, Zenon
  <2>3. m \in A
    <3> HIDE DEF A
    <3>2. m \in Nat /\ m \in 0..m
      OBVIOUS
    <3>1. \A i \in 0..m : i \in A
      BY <2>1, <2>2, <3>2, Joins!UpTo
    <3> QED  BY <3>1, <3>2
  <2> QED  BY <2>3
<1> DEFINE Kept(a) == /\ a \in Seq(S)
                      /\ Len(acc[m]) <= Len(a)
                      /\ acc[m] = SubSeq(a, 1, Len(acc[m]))
                      /\ \A p \in 1..Len(a) : p <= Len(acc[m]) <=> a[p] \in T
           B == {i \in 0..(n - m) : Kept(acc[m + i])}
<1>4. 0 \in B
  <2>1. acc[m] \in Seq(S) /\ acc[m] = SubSeq(acc[m], 1, Len(acc[m]))
    BY <1>3
  <2>2. \A p \in 1..Len(acc[m]) : acc[m][p] \in T
    BY <1>3
  <2> QED  BY <2>1, <2>2
<1>5. ASSUME NEW i \in 0..((n - m) - 1), i \in B PROVE i + 1 \in B
  <2>1. Kept(acc[m + i])
    BY <1>5
  <2>2. acc[m + (i + 1)] = acc[m + i] \o seq[m + i + 1]
    <3>1. m + (i + 1) \in 1..n /\ m + (i + 1) - 1 = m + i /\ m + (i + 1) = m + i + 1
      OBVIOUS
    <3>2. PICK x \in 1..n : x = m + (i + 1)
      BY <3>1
    <3>3. acc[x] = acc[x - 1] \o seq[x]
      BY <1>1, Zenon
    <3>4. x = m + (i + 1) /\ x - 1 = m + i /\ x = m + i + 1
      BY <3>1, <3>2
    <3> QED  BY <3>3, <3>4
  <2>3. m + i + 1 \in 1..n /\ m + i + 1 \in (m + 1)..n
    OBVIOUS
  <2>4. seq[m + i + 1] \in Seq(S)
    BY <2>3
  <2>5. \A j \in DOMAIN seq[m + i + 1] : seq[m + i + 1][j] \notin T
    BY <2>3
  <2> DEFINE a == acc[m + i]
             b == seq[m + i + 1]
             l == Len(acc[m])
  <2>6. a \in Seq(S) /\ b \in Seq(S) /\ l \in Nat /\ l <= Len(a)
    BY <2>1, <2>4, <1>3
  <2>7. SubSeq(a \o b, 1, l) = SubSeq(a, 1, l)
    <3> HIDE DEF a, b, l
    <3> QED  BY <2>6
  <2>8. ASSUME NEW p \in 1..Len(a \o b) PROVE p <= l <=> (a \o b)[p] \in T
    <3>1. CASE p <= Len(a)
      <4>1. (a \o b)[p] = a[p] /\ p \in 1..Len(a)
        <5> HIDE DEF a, b
        <5> QED  BY <2>6, <2>8, <3>1
      <4> QED  BY <2>1, <4>1
    <3>2. CASE p > Len(a)
      <4>1. (a \o b)[p] = b[p - Len(a)] /\ p - Len(a) \in DOMAIN b
        <5> HIDE DEF a, b
        <5> QED  BY <2>6, <2>8, <3>2
      <4>2. (a \o b)[p] \notin T
        BY <2>5, <4>1
      <4>3. ~(p <= l)
        <5> HIDE DEF a, b, l
        <5> QED  BY <2>6, <2>8, <3>2
      <4> QED  BY <4>2, <4>3
    <3>3. p \in Int /\ Len(a) \in Int
      <4> HIDE DEF a, b
      <4> QED  BY <2>6, <2>8
    <3> QED  BY <3>1, <3>2, <3>3
  <2>9. a \o b \in Seq(S) /\ l <= Len(a \o b)
    <3> HIDE DEF a, b, l
    <3> QED  BY <2>6
  <2>10. Kept(a \o b)
    <3>1. acc[m] = SubSeq(a, 1, l)
      BY <2>1
    <3>2. acc[m] = SubSeq(a \o b, 1, l)
      BY <2>7, <3>1
    <3> QED  BY <2>8, <2>9, <3>2
  <2>11. i + 1 \in 0..(n - m)
    OBVIOUS
  <2> HIDE DEF Kept
  <2> QED  BY <2>2, <2>10, <2>11
<1>6. Kept(acc[n])
  <2>1. n - m \in Nat /\ m + (n - m) = n
    OBVIOUS
  <2>2. n - m \in B
    <3> HIDE DEF B
    <3>1. \A i \in 0..(n - m) : i \in B
      BY <1>4, <1>5, <2>1, Joins!UpTo
    <3> QED  BY <2>1, <3>1
  <2> HIDE DEF Kept
  <2> QED  BY <2>1, <2>2
<1>7. DOMAIN acc[n] = 1..Len(acc[n])
  BY <1>6
<1> QED  BY <1>3, <1>6, <1>7 DEF Ordered

-----------------------------------------------------------------------------
Horizon == ReplayPlan.horizon
\* The bar of the k-th decision, and how many there are of the first n bars.
EntryAt(k) == ReplayPlan.warmup + 1 + (k - 1) * ReplayPlan.step
CountOf(n) == (n - ReplayPlan.horizon - ReplayPlan.warmup + ReplayPlan.step - 1) \div ReplayPlan.step
Decisions(n) == IF CountOf(n) > 0 THEN CountOf(n) ELSE 0

LEMMA Quotient ==
    ASSUME NEW a \in Int, NEW d \in Nat \ {0}, NEW k \in Int
    PROVE  /\ a \div d \in Int
           /\ k <= a \div d <=> k * d <= a
<1>1. PICK q \in Int, r \in Int : q = a \div d /\ r = a % d
  OBVIOUS
<1>2. a = d * q + r /\ 0 <= r /\ r < d
  BY <1>1
<1>3. CASE k <= q
  <2>1. PICK e \in Nat : q = k + e
    <3>1. q - k \in Nat /\ q = k + (q - k)
      BY <1>3
    <3> QED  BY <3>1
  <2>2. PICK x \in Int, y \in Int : x = k * d /\ y = e * d
    OBVIOUS
  <2>3. d * q = x + y /\ y >= 0
    BY <2>1, <2>2
  <2> QED  BY <1>1, <1>2, <1>3, <2>2, <2>3
<1>4. CASE k > q
  <2>1. PICK e \in Nat : k = q + 1 + e
    <3>1. k - q - 1 \in Nat /\ k = q + 1 + (k - q - 1)
      BY <1>4
    <3> QED  BY <3>1
  <2>2. PICK x \in Int, y \in Int : x = q * d /\ y = e * d
    OBVIOUS
  <2>3. k * d = x + d + y /\ y >= 0 /\ d * q = x
    BY <2>1, <2>2
  <2> QED  BY <1>1, <1>2, <1>4, <2>2, <2>3
<1> QED  BY <1>1, <1>3, <1>4

LEMMA StepFits ==
    ASSUME NEW n \in Nat, NEW k \in Nat \ {0}, NEW d \in Nat \ {0}, NEW w \in Nat, NEW h \in Nat
    PROVE  /\ (n - h - w + d - 1) \div d \in Int /\ (k - 1) * d \in Nat
           /\ k <= (n - h - w + d - 1) \div d <=> w + 1 + (k - 1) * d + h <= n
<1>1. PICK a \in Int : a = n - h - w + d - 1
  OBVIOUS
<1>2. PICK x \in Int, y \in Nat : x = k * d /\ y = (k - 1) * d /\ x = y + d
  <2>1. k * d \in Int /\ (k - 1) * d \in Nat /\ k * d = (k - 1) * d + d
    <3>1. PICK j \in Nat : k = j + 1
      <4>1. k - 1 \in Nat /\ k = (k - 1) + 1
        OBVIOUS
      <4> QED  BY <4>1
    <3>2. (j + 1) * d = j * d + d /\ j * d \in Nat /\ (j + 1) - 1 = j
      OBVIOUS
    <3> QED  BY <3>1, <3>2
  <2> QED  BY <2>1
<1>3. a \div d \in Int /\ (k <= a \div d <=> x <= a)
  BY <1>2, Quotient
<1>4. k <= a \div d <=> w + 1 + y + h <= n
  BY <1>1, <1>2, <1>3
<1> QED  BY <1>1, <1>2, <1>3, <1>4

LEMMA EntryFits ==
    ASSUME NEW n \in Nat, NEW k \in Nat \ {0}
    PROVE  /\ CountOf(n) \in Int /\ Decisions(n) \in Nat
           /\ k \in 1..CountOf(n) <=> EntryAt(k) + Horizon <= n
           /\ k \in 1..Decisions(n) <=> EntryAt(k) + Horizon <= n
           /\ EntryAt(k) \in Nat \ {0} /\ Horizon \in Nat
<1>1. PICK d \in Nat \ {0}, w \in Nat, h \in Nat : d = ReplayPlan.step /\ w = ReplayPlan.warmup /\ h = ReplayPlan.horizon
  BY ResearchAssumption
<1>2. /\ (n - h - w + d - 1) \div d \in Int /\ (k - 1) * d \in Nat
      /\ k <= (n - h - w + d - 1) \div d <=> w + 1 + (k - 1) * d + h <= n
  BY StepFits
<1>3. /\ CountOf(n) = (n - h - w + d - 1) \div d /\ EntryAt(k) = w + 1 + (k - 1) * d /\ Horizon = h
  BY <1>1, Zenon DEF CountOf, EntryAt, Horizon
<1>4. CountOf(n) \in Int /\ (k <= CountOf(n) <=> EntryAt(k) + Horizon <= n)
  BY <1>2, <1>3
<1>5. EntryAt(k) \in Nat \ {0} /\ Horizon \in Nat
  BY <1>2, <1>3
<1> QED  BY <1>4, <1>5 DEF Decisions

-----------------------------------------------------------------------------
\* What a decision of bar i leaves, whatever the closes after its horizon are.
OutcomeOf(closes, i, o) ==
    o.signal.bar = i /\ o.entry = closes[i] /\ o.exit = closes[i + Horizon]

OutcomesOf(closes, premiums, i) == Past!OutcomesAt("cross", closes, premiums, ReplayPlan, i)

LEMMA DecidedOf ==
    ASSUME NEW closes
    PROVE  /\ Decide("cross", closes) = <<>> \/ \E s : Decide("cross", closes) = <<s>>
           /\ \A j \in DOMAIN Decide("cross", closes) : Decide("cross", closes)[j].bar = Len(closes)
<1> DEFINE s == [call |-> Strat!Direction(closes, Plan("cross")) = "bullish", buy |-> "cross" # "sold", bar |-> Len(closes)]
<1>1. s.bar = Len(closes)
  OBVIOUS
<1>2. Decide("cross", closes) = <<>> \/ Decide("cross", closes) = <<s>>
  BY Zenon DEF Decide
<1> HIDE DEF s
<1>3. CASE Decide("cross", closes) = <<>>
  <2>1. DOMAIN <<>> = {}
    OBVIOUS
  <2> QED  BY <1>3, <2>1
<1>4. CASE Decide("cross", closes) = <<s>>
  <2>1. \A j \in DOMAIN <<s>> : <<s>>[j] = s
    OBVIOUS
  <2> QED  BY <1>1, <1>4, <2>1
<1> QED  BY <1>2, <1>3, <1>4

LEMMA OutcomesAre ==
    ASSUME NEW m \in Nat, NEW closes, closes \in Seq(BarPrices), Len(closes) = m, NEW premiums,
           NEW i \in 1..m
    PROVE  /\ \E l \in {0, 1} : DOMAIN OutcomesOf(closes, premiums, i) = 1..l
           /\ \A j \in DOMAIN OutcomesOf(closes, premiums, i) :
                 OutcomeOf(closes, i, OutcomesOf(closes, premiums, i)[j])
           /\ \A S : (\A j \in DOMAIN OutcomesOf(closes, premiums, i) : OutcomesOf(closes, premiums, i)[j] \in S)
                        => OutcomesOf(closes, premiums, i) \in Seq(S)
<1> DEFINE d == Decide("cross", Past!Window(closes, i))
           outs == OutcomesOf(closes, premiums, i)
<1>1. outs = [k \in DOMAIN d |->
                 Past!Outcome(d[k], closes[i], closes[i + Horizon],
                    Past!PremiumOn(premiums, i), Past!PremiumOn(premiums, i + Horizon))]
  BY Zenon DEF OutcomesOf, Past!OutcomesAt, Horizon
<1>2. Len(Past!Window(closes, i)) = i
  BY DEF Past!Window
<1>3. d = <<>> \/ \E s : d = <<s>>
  BY DecidedOf, Zenon
<1>4. \A j \in DOMAIN d : d[j].bar = i
  BY DecidedOf, <1>2, Zenon
<1>5. PICK l \in {0, 1} : DOMAIN d = 1..l
  <2>1. CASE d = <<>>
    <3>1. DOMAIN <<>> = 1..0
      OBVIOUS
    <3> QED  BY <2>1, <3>1
  <2>2. ASSUME NEW s, d = <<s>> PROVE \E k \in {0, 1} : DOMAIN d = 1..k
    <3>1. DOMAIN <<s>> = 1..1
      OBVIOUS
    <3> QED  BY <2>2, <3>1
  <2> QED  BY <1>3, <2>1, <2>2
<1> HIDE DEF d
<1>6. DOMAIN outs = 1..l
  BY <1>1, <1>5
<1>7. \A j \in 1..l : outs[j] = Past!Outcome(d[j], closes[i], closes[i + Horizon],
                    Past!PremiumOn(premiums, i), Past!PremiumOn(premiums, i + Horizon))
  BY <1>1, <1>5
<1>8. ASSUME NEW j \in 1..l PROVE OutcomeOf(closes, i, outs[j])
  <2> HIDE DEF outs
  <2>1. outs[j].signal = d[j] /\ outs[j].entry = closes[i] /\ outs[j].exit = closes[i + Horizon]
    <3>1. outs[j] = Past!Outcome(d[j], closes[i], closes[i + Horizon],
                    Past!PremiumOn(premiums, i), Past!PremiumOn(premiums, i + Horizon))
      BY <1>7, Zenon
    <3>2. \A a, b, c, e, f : /\ Past!Outcome(a, b, c, e, f).signal = a
                             /\ Past!Outcome(a, b, c, e, f).entry = b
                             /\ Past!Outcome(a, b, c, e, f).exit = c
      BY DEF Past!Outcome
    <3> QED  BY <3>1, <3>2
  <2>2. d[j].bar = i
    BY <1>4, <1>5
  <2> QED  BY <2>1, <2>2, Zenon DEF OutcomeOf
<1>9. ASSUME NEW S, \A j \in 1..l : outs[j] \in S PROVE outs \in Seq(S)
  <2>1. outs = [j \in 1..l |-> outs[j]]
    BY <1>1, <1>6
  <2>2. [j \in 1..l |-> outs[j]] \in [1..l -> S] /\ l \in Nat
    BY <1>9
  <2>3. \A f \in [1..l -> S] : f \in Seq(S)
    BY <2>2
  <2> HIDE DEF outs
  <2> QED  BY <2>1, <2>2, <2>3
<1> HIDE DEF outs
<1>10. \A S : (\A j \in DOMAIN outs : outs[j] \in S) => outs \in Seq(S)
  BY <1>6, <1>9
<1> QED  BY <1>5, <1>6, <1>8, <1>10 DEF outs

-----------------------------------------------------------------------------
ReplayOf(closes, premiums) == Past!Replay("cross", closes, premiums, ReplayPlan)

LEMMA FoldedIsJoined ==
    ASSUME NEW seq
    PROVE  Past!FoldLeft(\o, <<>>, seq) = Joins!FoldLeft(Join, <<>>, seq)
  BY Zenon DEF Past!FoldLeft, Joins!FoldLeft, Past!MapThenFoldSet, Joins!MapThenFoldSet, Past!Max, Joins!Max, Join

\* The outcomes are those of the decisions, one after the other.
LEMMA ReplayWalks ==
    ASSUME NEW n \in Nat, NEW closes, Len(closes) = n, NEW premiums
    PROVE  \E seq, acc : /\ DOMAIN seq = 1..Decisions(n)
                         /\ \A k \in 1..Decisions(n) : seq[k] = OutcomesOf(closes, premiums, EntryAt(k))
                         /\ Joins!Walk(acc, <<>>, seq, Decisions(n))
                         /\ ReplayOf(closes, premiums) = acc[Decisions(n)]
<1> DEFINE entries == Past!Entries(n, ReplayPlan)
           seq == [k \in DOMAIN entries |-> OutcomesOf(closes, premiums, entries[k])]
<1>1. ReplayOf(closes, premiums) = Past!FoldLeft(\o, <<>>, seq)
  BY Zenon DEF ReplayOf, Past!Replay, OutcomesOf
<1>2. Decisions(n) \in Nat /\ CountOf(n) \in Int
  <2>1. 1 \in Nat \ {0}
    OBVIOUS
  <2> QED  BY <2>1, EntryFits
<1>3. 1..CountOf(n) = 1..Decisions(n)
  BY <1>2 DEF Decisions
<1>4. DOMAIN entries = 1..Decisions(n) /\ \A k \in 1..Decisions(n) : entries[k] = EntryAt(k)
  BY <1>3, Zenon DEF Past!Entries, CountOf, EntryAt
<1> HIDE DEF entries
<1>5. DOMAIN seq = 1..Decisions(n) /\ \A k \in 1..Decisions(n) : seq[k] = OutcomesOf(closes, premiums, EntryAt(k))
  BY <1>4, Zenon
<1> HIDE DEF seq
<1>6. PICK acc : Joins!Walk(acc, <<>>, seq, Decisions(n)) /\ Joins!FoldLeft(Join, <<>>, seq) = acc[Decisions(n)]
  BY <1>2, <1>5, Joins!FoldLeftWalks
<1> QED  BY <1>1, <1>5, <1>6, FoldedIsJoined

\* What is shown of the bars up to the horizon of a decision is all it needs.
LEMMA OutcomesAgree ==
    ASSUME NEW X, NEW m \in Nat, NEW closes \in Seq(BarPrices), NEW premiums \in Seq(X),
           Len(closes) = m, Len(premiums) = m, NEW n \in 0..m, NEW i \in Nat \ {0}, i + Horizon <= n, Horizon \in Nat
    PROVE  OutcomesOf(SubSeq(closes, 1, n), SubSeq(premiums, 1, n), i) = OutcomesOf(closes, premiums, i)
<1>1. i \in 1..n /\ i + Horizon \in 1..n
  OBVIOUS
<1>2. /\ SubSeq(closes, 1, n)[i] = closes[i] /\ SubSeq(closes, 1, n)[i + Horizon] = closes[i + Horizon]
      /\ SubSeq(premiums, 1, n)[i] = premiums[i] /\ SubSeq(premiums, 1, n)[i + Horizon] = premiums[i + Horizon]
  BY <1>1
<1>3. Past!Window(SubSeq(closes, 1, n), i) = Past!Window(closes, i)
  BY <1>1 DEF Past!Window
<1>4. /\ Past!PremiumOn(SubSeq(premiums, 1, n), i) = Past!PremiumOn(premiums, i)
      /\ Past!PremiumOn(SubSeq(premiums, 1, n), i + Horizon) = Past!PremiumOn(premiums, i + Horizon)
  BY <1>2, Zenon DEF Past!PremiumOn
<1>5. SubSeq(closes, 1, n)[i + ReplayPlan.horizon] = closes[i + ReplayPlan.horizon]
  BY <1>2, Zenon DEF Horizon
<1>6. Past!PremiumOn(SubSeq(premiums, 1, n), i + ReplayPlan.horizon) = Past!PremiumOn(premiums, i + ReplayPlan.horizon)
  BY <1>4, Zenon DEF Horizon
<1> QED  BY <1>2, <1>3, <1>4, <1>5, <1>6, Zenon DEF OutcomesOf, Past!OutcomesAt

LEMMA FewerDecisions ==
    ASSUME NEW m \in Nat, NEW n \in 0..m
    PROVE  Decisions(n) \in 0..Decisions(m)
<1>1. Decisions(n) \in Nat /\ Decisions(m) \in Nat
  <2>1. 1 \in Nat \ {0} /\ n \in Nat
    OBVIOUS
  <2> QED  BY <2>1, EntryFits
<1>2. CASE Decisions(n) = 0
  BY <1>1, <1>2
<1>3. CASE Decisions(n) # 0
  <2>1. Decisions(n) \in Nat \ {0} /\ Decisions(n) \in 1..Decisions(n) /\ n \in Nat
    BY <1>1, <1>3
  <2>2. EntryAt(Decisions(n)) + Horizon <= n /\ EntryAt(Decisions(n)) \in Nat /\ Horizon \in Nat
    BY <2>1, EntryFits
  <2>3. EntryAt(Decisions(n)) + Horizon <= m
    BY <2>2
  <2>4. Decisions(n) \in 1..Decisions(m)
    BY <2>1, <2>3, EntryFits
  <2> QED  BY <1>1, <2>4
<1> QED  BY <1>2, <1>3

-----------------------------------------------------------------------------
Causal(closes, all) ==
    \A k \in DOMAIN all : /\ all[k].entry = closes[all[k].signal.bar]
                          /\ all[k].exit = closes[all[k].signal.bar + Horizon]
Extended(n, known, all) ==
    /\ Len(known) <= Len(all) /\ known = SubSeq(all, 1, Len(known))
    /\ \A k \in DOMAIN all : k <= Len(known) <=> all[k].signal.bar + Horizon <= n

LEMMA ReplaysAre ==
    ASSUME NEW X, NEW m \in Nat, NEW closes \in Seq(BarPrices), NEW premiums \in Seq(X),
           Len(closes) = m, Len(premiums) = m, NEW n \in 0..m
    PROVE  /\ Causal(closes, ReplayOf(closes, premiums))
           /\ Extended(n, ReplayOf(SubSeq(closes, 1, n), SubSeq(premiums, 1, n)), ReplayOf(closes, premiums))
<1> DEFINE M == Decisions(m)
           N == Decisions(n)
           short == SubSeq(closes, 1, n)
           shorter == SubSeq(premiums, 1, n)
<1>1. M \in Nat /\ N \in 0..M /\ n \in Nat /\ N \in Nat /\ Horizon \in Nat
  <2>1. 1 \in Nat \ {0} /\ n \in Nat
    OBVIOUS
  <2> QED  BY <2>1, EntryFits, FewerDecisions
<1>2. Len(short) = n
  OBVIOUS
<1>3. PICK seq, acc : /\ DOMAIN seq = 1..M
                      /\ \A k \in 1..M : seq[k] = OutcomesOf(closes, premiums, EntryAt(k))
                      /\ Joins!Walk(acc, <<>>, seq, M)
                      /\ ReplayOf(closes, premiums) = acc[M]
  BY ReplayWalks
<1>4. PICK sew, acw : /\ DOMAIN sew = 1..N
                      /\ \A k \in 1..N : sew[k] = OutcomesOf(short, shorter, EntryAt(k))
                      /\ Joins!Walk(acw, <<>>, sew, N)
                      /\ ReplayOf(short, shorter) = acw[N]
  <2>1. n \in Nat
    BY <1>1
  <2> HIDE DEF short, shorter
  <2> QED  BY <1>2, <2>1, ReplayWalks
<1>5. ASSUME NEW k \in 1..M
      PROVE  /\ EntryAt(k) \in Nat \ {0} /\ EntryAt(k) \in 1..m
             /\ k \in 1..N <=> EntryAt(k) + Horizon <= n
  <2>1. k \in Nat \ {0} /\ k \in 1..Decisions(m)
    OBVIOUS
  <2>2. EntryAt(k) + Horizon <= m /\ EntryAt(k) \in Nat \ {0} /\ (k \in 1..N <=> EntryAt(k) + Horizon <= n)
    BY <2>1, <1>1, EntryFits
  <2> QED  BY <1>1, <2>2
<1>6. ASSUME NEW k \in 1..N PROVE sew[k] = seq[k]
  <2>1. k \in 1..M
    BY <1>1
  <2>2. EntryAt(k) \in Nat \ {0} /\ EntryAt(k) + Horizon <= n
    BY <1>5, <2>1
  <2>3. OutcomesOf(short, shorter, EntryAt(k)) = OutcomesOf(closes, premiums, EntryAt(k))
    BY <1>1, <2>2, OutcomesAgree
  <2> QED  BY <1>3, <1>4, <2>1, <2>3
<1>7. acw[N] = acc[N]
  <2>1. N \in 0..N /\ N <= M
    BY <1>1
  <2>2. \A i \in 0..N : acw[i] = acc[i]
    <3>1. N \in Nat /\ M \in Nat /\ N <= M
      BY <1>1
    <3>2. \A i \in 1..N : sew[i] = seq[i]
      BY <1>6
    <3>3. Joins!Walk(acc, <<>>, seq, M) /\ Joins!Walk(acw, <<>>, sew, N)
      BY <1>3, <1>4
    <3> HIDE DEF M, N
    <3>4. Joins!Agreed(<<>>, N, sew, acw, M, seq, acc)
      BY Joins!WalksAgree, Zenon
    <3> QED  BY <3>1, <3>2, <3>3, <3>4, Zenon DEF Joins!Agreed
  <2> QED  BY <2>1, <2>2
<1> DEFINE S == UNION {{seq[k][j] : j \in DOMAIN seq[k]} : k \in 1..M}
           T == {o \in S : o.signal.bar + Horizon <= n}
<1>8. ASSUME NEW k \in 1..M PROVE \A j \in DOMAIN seq[k] : OutcomeOf(closes, EntryAt(k), seq[k][j])
  BY <1>3, <1>5, OutcomesAre
<1>9. ASSUME NEW k \in 1..M, NEW Q, \A j \in DOMAIN seq[k] : seq[k][j] \in Q PROVE seq[k] \in Seq(Q)
  <2>1. seq[k] = OutcomesOf(closes, premiums, EntryAt(k))
    BY <1>3
  <2>2. EntryAt(k) \in 1..m
    BY <1>5
  <2> QED  BY <1>9, <2>1, <2>2, OutcomesAre
<1>10. \A k \in 1..M : \A j \in DOMAIN seq[k] : seq[k][j] \in S
  OBVIOUS
<1>11. \A k \in 1..M : \A j \in DOMAIN seq[k] : seq[k][j].signal.bar = EntryAt(k)
  BY <1>8, Zenon DEF OutcomeOf
<1>12. ASSUME NEW k \in 1..M, NEW j \in DOMAIN seq[k] PROVE seq[k][j] \in T <=> k \in 1..N
  <2>1. seq[k][j] \in S /\ seq[k][j].signal.bar = EntryAt(k)
    BY <1>10, <1>11
  <2> HIDE DEF S
  <2> QED  BY <1>5, <2>1
<1>13. \A o \in S : \E k \in 1..M : OutcomeOf(closes, EntryAt(k), o)
  BY <1>8, Zenon
<1> HIDE DEF S, T
<1>14. Ordered(M, N, seq, S, T, acc)
  <2>1. T \subseteq S
    BY DEF T
  <2>2. \A k \in 1..M : seq[k] \in Seq(S)
    BY <1>9, <1>10
  <2>3. \A k \in 1..N : k \in 1..M
    BY <1>1
  <2>4. \A k \in 1..N : seq[k] \in Seq(T)
    BY <1>9, <1>12, <2>3
  <2>5. \A k \in (N + 1)..M : k \in 1..M /\ k \notin 1..N
    BY <1>1
  <2>6. \A k \in (N + 1)..M : \A j \in DOMAIN seq[k] : seq[k][j] \notin T
    BY <1>12, <2>5
  <2>7. Joins!Walk(acc, <<>>, seq, M) /\ M \in Nat /\ N \in 0..M
    BY <1>1, <1>3
  <2> HIDE DEF M, N
  <2>8. Divided(M, N, seq, S, T, acc)
    BY <2>1, <2>2, <2>4, <2>6, <2>7, Zenon DEF Divided
  <2> QED  BY <2>8, JoinedInOrder, Zenon
<1>15. \A p \in DOMAIN acc[M] : acc[M][p] \in S
  BY <1>14 DEF Ordered
<1>16. Causal(closes, acc[M])
  BY <1>13, <1>15, Zenon DEF Causal, OutcomeOf
<1>17. Extended(n, acc[N], acc[M])
  BY <1>14, <1>15, Zenon DEF Extended, T, Ordered
<1> QED  BY <1>3, <1>4, <1>7, <1>16, <1>17, Zenon

LEMMA CausalReplay == ReplayAsked => BacktestIsCausal
<1> SUFFICES ASSUME ReplayAsked, case.kind = "replay" PROVE BacktestIsCausal
  BY DEF BacktestIsCausal
<1> DEFINE closes == case.closes
           premiums == PremiumBars(closes)
           X == {premiums[i] : i \in 1..Bars}
<1>1. closes \in [1..Bars -> BarPrices] /\ Bars \in Nat
  BY ResearchAssumption DEF ReplayAsked
<1> HIDE DEF closes
<1>2. closes \in Seq(BarPrices) /\ Len(closes) = Bars /\ DOMAIN closes = 1..Bars
  BY <1>1
<1>3. premiums \in Seq(X) /\ Len(premiums) = Bars
  <2>1. DOMAIN premiums = 1..Bars
    BY <1>2 DEF PremiumBars
  <2>2. premiums = [i \in 1..Bars |-> premiums[i]]
    BY <1>2 DEF PremiumBars
  <2> HIDE DEF premiums
  <2>3. premiums \in [1..Bars -> X]
    BY <2>1, <2>2
  <2> HIDE DEF X
  <2> QED  BY <1>1, <2>1, <2>3
<1> HIDE DEF premiums, X
<1>4. Replayed(case.closes) = ReplayOf(closes, premiums)
  BY Zenon DEF Replayed, ReplayOf, closes, premiums
<1>5. ASSUME NEW n \in 0..Bars
      PROVE  /\ Causal(closes, ReplayOf(closes, premiums))
             /\ Extended(n, ReplayOf(SubSeq(closes, 1, n), SubSeq(premiums, 1, n)), ReplayOf(closes, premiums))
  BY <1>1, <1>2, <1>3, ReplaysAre
<1>6. Causal(closes, ReplayOf(closes, premiums))
  <2>1. 0 \in 0..Bars
    BY <1>1
  <2> QED  BY <1>5, <2>1
<1>7. \A n \in ReplayPlan.horizon..Len(case.closes) :
         Extended(n, ReplayOf(SubSeq(closes, 1, n), SubSeq(premiums, 1, n)), ReplayOf(closes, premiums))
  <2>1. \A n \in ReplayPlan.horizon..Len(case.closes) : n \in 0..Bars
    BY <1>1, <1>2, ResearchAssumption DEF closes
  <2> QED  BY <1>5, <2>1
<1> QED
  BY <1>4, <1>6, <1>7, Zenon DEF BacktestIsCausal, Causal, Extended, Horizon, ReplayOf, closes, premiums

\* A decision of a replay is entered at the close of the last bar it could see
\* and judged by the bar a horizon later, and more history adds outcomes
\* without changing one, whatever the bars, the strategy, the warmup, the
\* horizon and the step (_run_symbol, signal_backtester.py:340-371).
THEOREM ReplaysAreCausal == Spec => []BacktestIsCausal
<1>1. Asked => BacktestIsCausal
  BY CausalReplay DEF Asked
<1> QED  BY OnlyAsked, <1>1, PTL

LEMMA SumInPast ==
    ASSUME NEW v
    PROVE  Past!Sum(v) = Adds!FoldLeft(Add, 0, v)
  BY Zenon DEF Past!Sum, Past!FoldLeft, Adds!FoldLeft, Past!MapThenFoldSet, Adds!MapThenFoldSet, Past!Max, Adds!Max, Add

LEMMA PastSumIs ==
    ASSUME NEW n \in Nat, NEW v, DOMAIN v = 1..n, \A i \in 1..n : v[i] \in Int
    PROVE  \E acc : Adds!Walk(acc, 0, v, n) /\ SumsTo(v, n, acc) /\ Past!Sum(v) = acc[n]
<1>1. PICK acc : Adds!Walk(acc, 0, v, n) /\ Adds!FoldLeft(Add, 0, v) = acc[n]
  BY Adds!FoldLeftWalks
<1> QED  BY <1>1, WalkSums, SumInPast

\* The curve is made of the running sums.
LEMMA CurveIs ==
    ASSUME NEW n \in Nat, NEW v, v \in Seq(Int), Len(v) = n
    PROVE  \E acc : /\ SumsTo(v, n, acc) /\ Past!Sum(v) = acc[n]
                    /\ DOMAIN Past!EquityCurve(v) = 1..n
                    /\ \A k \in 1..n : Past!EquityCurve(v)[k] = acc[k]
<1>1. DOMAIN v = 1..n /\ \A i \in 1..n : v[i] \in Int
  OBVIOUS
<1>2. PICK acc : Adds!Walk(acc, 0, v, n) /\ SumsTo(v, n, acc) /\ Past!Sum(v) = acc[n]
  BY <1>1, PastSumIs
<1>3. ASSUME NEW k \in 1..n PROVE Past!Sum(SubSeq(v, 1, k)) = acc[k]
  <2> DEFINE w == SubSeq(v, 1, k)
  <2>1. DOMAIN w = 1..k /\ \A i \in 1..k : w[i] = v[i] /\ w[i] \in Int
    OBVIOUS
  <2>2. k \in Nat /\ k <= n /\ k \in 0..k
    OBVIOUS
  <2> HIDE DEF w
  <2>3. PICK bcc : Adds!Walk(bcc, 0, w, k) /\ Past!Sum(w) = bcc[k]
    BY <2>1, <2>2, PastSumIs
  <2>4. Adds!Agreed(0, k, w, bcc, n, v, acc)
    BY Adds!WalksAgree, Zenon
  <2>5. \A i \in 1..k : w[i] = v[i]
    BY <2>1
  <2>6. \A i \in 0..k : bcc[i] = acc[i]
    BY <1>2, <2>2, <2>3, <2>4, <2>5, Zenon DEF Adds!Agreed
  <2> QED  BY <2>2, <2>3, <2>6 DEF w
<1>4. DOMAIN Past!EquityCurve(v) = 1..n /\ \A k \in 1..n : Past!EquityCurve(v)[k] = Past!Sum(SubSeq(v, 1, k))
  BY <1>1, Zenon DEF Past!EquityCurve
<1> QED  BY <1>2, <1>3, <1>4

-----------------------------------------------------------------------------
\* Three sums go together: gains, losses and the whole.
LEMMA GainsAndLosses ==
    ASSUME NEW n \in Nat, NEW v, v \in Seq(Int), Len(v) = n
    PROVE  /\ Past!Gains(v) \in Int /\ Past!Losses(v) \in Int /\ Past!Sum(v) \in Int
           /\ Past!Gains(v) - Past!Losses(v) = Past!Sum(v)
<1> DEFINE g == [k \in DOMAIN v |-> IF v[k] > 0 THEN v[k] ELSE 0]
           l == [k \in DOMAIN v |-> IF v[k] < 0 THEN v[k] ELSE 0]
<1>1. DOMAIN v = 1..n /\ \A i \in 1..n : v[i] \in Int
  OBVIOUS
<1>2. /\ DOMAIN g = 1..n /\ \A i \in 1..n : g[i] \in Int
      /\ DOMAIN l = 1..n /\ \A i \in 1..n : l[i] \in Int
      /\ \A i \in 1..n : g[i] + l[i] = v[i]
  BY <1>1
<1>3. Past!Gains(v) = Past!Sum(g) /\ Past!Losses(v) = -Past!Sum(l)
  BY Zenon DEF Past!Gains, Past!Losses
<1> HIDE DEF g, l
<1>4. PICK s : SumsTo(v, n, s) /\ Past!Sum(v) = s[n]
  BY <1>1, PastSumIs
<1>5. PICK p : SumsTo(g, n, p) /\ Past!Sum(g) = p[n]
  BY <1>2, PastSumIs
<1>6. PICK q : SumsTo(l, n, q) /\ Past!Sum(l) = q[n]
  BY <1>2, PastSumIs
<1> DEFINE A == {i \in 0..n : p[i] + q[i] = s[i]}
<1>7. 0 \in A
  BY <1>4, <1>5, <1>6 DEF SumsTo
<1>8. ASSUME NEW i \in 0..(n - 1), i \in A PROVE i + 1 \in A
  <2>1. i + 1 \in 1..n /\ (i + 1) - 1 = i /\ i + 1 \in 0..n /\ i \in 0..n
    OBVIOUS
  <2>2. s[i + 1] = s[i] + v[i + 1] /\ p[i + 1] = p[i] + g[i + 1] /\ q[i + 1] = q[i] + l[i + 1]
    BY <1>4, <1>5, <1>6, <2>1 DEF SumsTo
  <2>3. s[i] \in Int /\ p[i] \in Int /\ q[i] \in Int /\ g[i + 1] \in Int /\ l[i + 1] \in Int
    BY <1>2, <1>4, <1>5, <1>6, <2>1 DEF SumsTo
  <2>4. g[i + 1] + l[i + 1] = v[i + 1] /\ p[i] + q[i] = s[i]
    BY <1>2, <1>8, <2>1
  <2>5. PICK a \in Int, b \in Int, c \in Int, d \in Int : p[i] = a /\ q[i] = b /\ g[i + 1] = c /\ l[i + 1] = d
    BY <2>3
  <2>6. p[i + 1] + q[i + 1] = s[i + 1]
    BY <2>2, <2>4, <2>5
  <2> QED  BY <2>1, <2>6
<1>9. p[n] + q[n] = s[n] /\ p[n] \in Int /\ q[n] \in Int /\ s[n] \in Int
  <2>1. n \in 0..n
    OBVIOUS
  <2>2. \A i \in 0..n : i \in A
    <3> HIDE DEF A
    <3> QED  BY <1>7, <1>8, Adds!UpTo
  <2> QED  BY <2>1, <2>2, <1>4, <1>5, <1>6 DEF SumsTo
<1> QED  BY <1>3, <1>4, <1>5, <1>6, <1>9

-----------------------------------------------------------------------------
LEMMA MaxIs ==
    ASSUME NEW S, NEW x \in S, x \in Int, \A y \in S : y \in Int /\ y <= x
    PROVE  Past!Max(S) = x
<1>1. Past!Max(S) \in S /\ \A y \in S : Past!Max(S) >= y
  <2>1. \E z \in S : \A y \in S : z >= y
    OBVIOUS
  <2> QED  BY <2>1 DEF Past!Max
<1>2. PICK z \in S : z = Past!Max(S) /\ z >= x
  BY <1>1
<1> QED  BY <1>2

LEMMA LargerOf ==
    ASSUME NEW a \in Int, NEW b \in Int
    PROVE  Past!Max({a, b}) = IF a >= b THEN a ELSE b
<1>1. CASE a >= b
  <2>1. a \in {a, b} /\ \A y \in {a, b} : y \in Int /\ y <= a
    BY <1>1
  <2> QED  BY <1>1, <2>1, MaxIs
<1>2. CASE ~(a >= b)
  <2>1. b \in {a, b} /\ \A y \in {a, b} : y \in Int /\ y <= b
    BY <1>2
  <2> QED  BY <1>2, <2>1, MaxIs
<1> QED  BY <1>1, <1>2

Fall(acc, v) == LET peak == Past!Max({acc.peak, v}) IN [peak |-> peak, worst |-> Past!Max({acc.worst, peak - v})]
Falls == INSTANCE SequenceFacts WITH Op <- Fall

FallsTo(p, w, v, acc) ==
    \E q, x \in Int : /\ acc = [peak |-> q, worst |-> x]
                      /\ q >= p /\ q >= v /\ (q = p \/ q = v)
                      /\ x >= w /\ x >= q - v /\ (x = w \/ x = q - v)

LEMMA FallIs ==
    ASSUME NEW p \in Int, NEW w \in Int, NEW v \in Int
    PROVE  FallsTo(p, w, v, Fall([peak |-> p, worst |-> w], v))
<1> DEFINE acc == [peak |-> p, worst |-> w]
<1> DEFINE q == IF p >= v THEN p ELSE v
           x == IF w >= q - v THEN w ELSE q - v
<1>1. Past!Max({p, v}) = q /\ q \in Int
  BY LargerOf
<1>2. Past!Max({w, q - v}) = x /\ x \in Int
  <2>1. q \in Int /\ q - v \in Int
    OBVIOUS
  <2> HIDE DEF q
  <2> QED  BY <2>1, LargerOf
<1>3. acc.peak = p /\ acc.worst = w
  OBVIOUS
<1>4. Fall(acc, v) = [peak |-> q, worst |-> x]
  <2> HIDE DEF q, x
  <2> QED  BY <1>1, <1>2, <1>3 DEF Fall
<1>5. q >= p /\ q >= v /\ (q = p \/ q = v)
  OBVIOUS
<1>6. x >= w /\ x >= q - v /\ (x = w \/ x = q - v)
  OBVIOUS
<1> HIDE DEF q, x
<1> QED  BY <1>1, <1>2, <1>4, <1>5, <1>6 DEF FallsTo

LEMMA DrawdownFolds ==
    ASSUME NEW v
    PROVE  Past!MaxDrawdown(v)
              = Falls!FoldLeft(Fall, [peak |-> Past!EquityCurve(v)[1], worst |-> 0], Past!EquityCurve(v)).worst
  BY Zenon DEF Past!MaxDrawdown, Past!FoldLeft, Falls!FoldLeft, Past!MapThenFoldSet, Falls!MapThenFoldSet, Past!Max, Falls!Max, Fall

\* The deepest fall of a curve up to a point.
Deepest(curve, upTo, w) ==
    /\ \A a, b \in 1..upTo : a <= b => curve[a] - curve[b] <= w
    /\ \E a, b \in 1..upTo : a <= b /\ curve[a] - curve[b] = w

LEMMA DrawdownIs ==
    ASSUME NEW n \in Nat \ {0}, NEW curve, DOMAIN curve = 1..n, \A i \in 1..n : curve[i] \in Int,
           NEW acc, Falls!Walk(acc, [peak |-> curve[1], worst |-> 0], curve, n)
    PROVE  acc[n].worst \in Int /\ Deepest(curve, n, acc[n].worst)
<1>1. acc[0] = [peak |-> curve[1], worst |-> 0] /\ \A i \in 1..n : acc[i] = Fall(acc[i - 1], curve[i])
  BY Zenon DEF Falls!Walk
<1> DEFINE Good(i) == \E p, w \in Int :
                        /\ acc[i] = [peak |-> p, worst |-> w]
                        /\ Deepest(curve, i, w)
                        /\ \A a \in 1..i : curve[a] <= p
                        /\ \E a \in 1..i : curve[a] = p
           A == {i \in 0..(n - 1) : Good(i + 1)}
<1>2. Good(1)
  <2>1. 1 \in 1..n /\ 1 - 1 = 0 /\ curve[1] \in Int
    OBVIOUS
  <2>2. PICK q, x \in Int : /\ Fall(acc[0], curve[1]) = [peak |-> q, worst |-> x]
                            /\ q >= curve[1] /\ (q = curve[1] \/ q = curve[1])
                            /\ x >= 0 /\ x >= q - curve[1] /\ (x = 0 \/ x = q - curve[1])
    <3>1. 0 \in Int
      OBVIOUS
    <3>2. FallsTo(curve[1], 0, curve[1], Fall([peak |-> curve[1], worst |-> 0], curve[1]))
      BY <2>1, <3>1, FallIs, Zenon
    <3> QED  BY <1>1, <3>2, Zenon DEF FallsTo
  <2>3. q = curve[1] /\ x = 0
    BY <2>1, <2>2
  <2>4. acc[1] = [peak |-> q, worst |-> x]
    BY <1>1, <2>1, <2>2
  <2>5. \A a \in 1..1 : a = 1
    OBVIOUS
  <2>6. Deepest(curve, 1, x)
    BY <2>1, <2>3, <2>5 DEF Deepest
  <2>7. \A a \in 1..1 : curve[a] <= q
    BY <2>1, <2>3, <2>5
  <2>8. \E a \in 1..1 : curve[a] = q
    <3>1. 1 \in 1..1
      OBVIOUS
    <3> QED  BY <2>3, <3>1
  <2> QED  BY <2>4, <2>6, <2>7, <2>8, Zenon
<1>3. ASSUME NEW i \in 1..(n - 1), Good(i) PROVE Good(i + 1)
  <2>1. i + 1 \in 1..n /\ (i + 1) - 1 = i /\ curve[i + 1] \in Int /\ i \in 1..n
    OBVIOUS
  <2>2. PICK p, w \in Int : /\ acc[i] = [peak |-> p, worst |-> w]
                            /\ Deepest(curve, i, w)
                            /\ \A a \in 1..i : curve[a] <= p
                            /\ \E a \in 1..i : curve[a] = p
    BY <1>3
  <2>3. PICK q, x \in Int : /\ Fall(acc[i], curve[i + 1]) = [peak |-> q, worst |-> x]
                            /\ q >= p /\ q >= curve[i + 1] /\ (q = p \/ q = curve[i + 1])
                            /\ x >= w /\ x >= q - curve[i + 1] /\ (x = w \/ x = q - curve[i + 1])
    <3>1. FallsTo(p, w, curve[i + 1], Fall([peak |-> p, worst |-> w], curve[i + 1]))
      BY <2>1, FallIs, Zenon
    <3> QED  BY <2>2, <3>1, Zenon DEF FallsTo
  <2>4. acc[i + 1] = [peak |-> q, worst |-> x]
    BY <1>1, <2>1, <2>3
  <2>5. \A a \in 1..(i + 1) : a = i + 1 \/ a \in 1..i
    OBVIOUS
  <2>6. \A a \in 1..(i + 1) : curve[a] <= q /\ curve[a] \in Int
    <3>1. \A a \in 1..i : a \in 1..n
      OBVIOUS
    <3>2. \A a \in 1..i : curve[a] <= q /\ curve[a] \in Int
      <4>1. \A a \in 1..i : curve[a] <= p /\ curve[a] \in Int
        BY <2>2, <3>1
      <4>2. p \in Int /\ q \in Int /\ q >= p
        BY <2>2, <2>3
      <4> QED  BY <4>1, <4>2
    <3>3. curve[i + 1] <= q /\ curve[i + 1] \in Int
      BY <2>1, <2>3
    <3> QED  BY <2>5, <3>2, <3>3, Zenon
  <2>7. \A a \in 1..i : a \in 1..(i + 1)
    OBVIOUS
  <2>8. \E a \in 1..(i + 1) : curve[a] = q
    BY <2>2, <2>3, <2>7
  <2>9. \A a, b \in 1..(i + 1) : a <= b => curve[a] - curve[b] <= x
    <3> SUFFICES ASSUME NEW a \in 1..(i + 1), NEW b \in 1..(i + 1), a <= b PROVE curve[a] - curve[b] <= x
      OBVIOUS
    <3>1. CASE b = i + 1
      BY <2>1, <2>3, <2>6, <3>1
    <3>2. CASE b \in 1..i
      <4>1. a \in 1..i
        BY <3>2
      <4>2. curve[a] - curve[b] <= w
        BY <2>2, <3>2, <4>1, Zenon DEF Deepest
      <4> QED  BY <2>3, <2>6, <4>2
    <3> QED  BY <2>5, <3>1, <3>2
  <2>10. \E a, b \in 1..(i + 1) : a <= b /\ curve[a] - curve[b] = x
    <3>1. CASE x = w
      <4>1. PICK a \in 1..i, b \in 1..i : a <= b /\ curve[a] - curve[b] = w
        BY <2>2, Zenon DEF Deepest
      <4> QED  BY <2>7, <3>1, <4>1
    <3>2. CASE x = q - curve[i + 1]
      <4>1. PICK a \in 1..(i + 1) : curve[a] = q
        BY <2>8
      <4>2. i + 1 \in 1..(i + 1) /\ a <= i + 1
        OBVIOUS
      <4> QED  BY <3>2, <4>1, <4>2
    <3> QED  BY <2>3, <3>1, <3>2
  <2>11. Deepest(curve, i + 1, x)
    BY <2>9, <2>10, Zenon DEF Deepest
  <2> QED  BY <2>4, <2>6, <2>8, <2>11
<1>4. Good(n)
  <2> HIDE DEF Good
  <2>1. 0 \in A
    BY <1>2
  <2>2. ASSUME NEW i \in 0..((n - 1) - 1), i \in A PROVE i + 1 \in A
    <3>1. i + 1 \in 1..(n - 1) /\ i + 1 \in 0..(n - 1)
      OBVIOUS
    <3> QED  BY <1>3, <2>2, <3>1
  <2>3. n - 1 \in Nat /\ n - 1 \in 0..(n - 1) /\ (n - 1) + 1 = n
    OBVIOUS
  <2>4. \A i \in 0..(n - 1) : i \in A
    <3> HIDE DEF A
    <3> QED  BY <2>1, <2>2, <2>3, Falls!UpTo
  <2>5. n - 1 \in A
    BY <2>3, <2>4
  <2> QED  BY <2>3, <2>5
<1> QED  BY <1>4

-----------------------------------------------------------------------------
Streak(acc, v) ==
    LET now == CASE v > 0 -> 0 [] v < 0 -> acc.now + 1 [] v = 0 -> acc.now
    IN  [now |-> now, longest |-> Past!Max({acc.longest, now})]
Streaks == INSTANCE SequenceFacts WITH Op <- Streak

LEMMA StreakFolds ==
    ASSUME NEW v
    PROVE  Past!LongestLosingStreak(v) = Streaks!FoldLeft(Streak, [now |-> 0, longest |-> 0], v).longest
  BY Zenon DEF Past!LongestLosingStreak, Past!FoldLeft, Streaks!FoldLeft, Past!MapThenFoldSet, Streaks!MapThenFoldSet,
               Past!Max, Streaks!Max, Streak

StreaksTo(m, w, v, acc) ==
    \E now, longest \in Nat :
        /\ acc = [now |-> now, longest |-> longest]
        /\ v > 0 => now = 0
        /\ v < 0 => now = m + 1
        /\ v = 0 => now = m
        /\ longest >= w /\ longest >= now /\ (longest = w \/ longest = now)

LEMMA StreakIs ==
    ASSUME NEW m \in Nat, NEW w \in Nat, NEW v \in Int
    PROVE  StreaksTo(m, w, v, Streak([now |-> m, longest |-> w], v))
<1> DEFINE acc == [now |-> m, longest |-> w]
           now == CASE v > 0 -> 0 [] v < 0 -> acc.now + 1 [] v = 0 -> acc.now
           longest == IF w >= now THEN w ELSE now
<1>1. acc.now = m /\ acc.longest = w
  OBVIOUS
<1>2. now \in Nat /\ (v > 0 => now = 0) /\ (v < 0 => now = m + 1) /\ (v = 0 => now = m)
  <2> HIDE DEF acc
  <2>1. CASE v > 0
    <3>1. now = 0
      BY <2>1
    <3> HIDE DEF now
    <3> QED  BY <2>1, <3>1
  <2>2. CASE v < 0
    <3>1. now = acc.now + 1
      BY <2>2
    <3> HIDE DEF now
    <3> QED  BY <1>1, <2>2, <3>1
  <2>3. CASE v = 0
    <3>1. now = acc.now
      BY <2>3
    <3> HIDE DEF now
    <3> QED  BY <1>1, <2>3, <3>1
  <2> QED  BY <2>1, <2>2, <2>3
<1>3. Past!Max({acc.longest, now}) = longest
  <2>1. w \in Int /\ now \in Int
    BY <1>2
  <2> HIDE DEF acc, now
  <2> QED  BY <1>1, <2>1, LargerOf
<1>4. Streak(acc, v) = [now |-> now, longest |-> longest]
  <2> HIDE DEF longest, acc
  <2> QED  BY <1>3, Zenon DEF Streak
<1>5. longest >= w /\ longest >= now /\ (longest = w \/ longest = now) /\ longest \in Nat
  <2> HIDE DEF now
  <2> QED  BY <1>2
<1> HIDE DEF longest, now
<1> QED  BY <1>2, <1>4, <1>5, Zenon DEF StreaksTo

LossesIn(v, a, b) == Cardinality({i \in a..b : v[i] < 0})
Quiet(v, a, b) == \A i \in a..b : v[i] <= 0

LEMMA NoLosses ==
    ASSUME NEW v, NEW a \in Int, NEW b \in Int, b < a
    PROVE  LossesIn(v, a, b) = 0 /\ Quiet(v, a, b)
<1>1. a..b = {}
  OBVIOUS
<1>2. {i \in a..b : v[i] < 0} = {}
  BY <1>1
<1> QED  BY <1>1, <1>2, FS_EmptySet DEF LossesIn, Quiet

LEMMA MoreLosses ==
    ASSUME NEW v, NEW a \in Int, NEW b \in Int, a <= b + 1, v[b + 1] \in Int
    PROVE  /\ LossesIn(v, a, b) \in Nat
           /\ v[b + 1] < 0 => LossesIn(v, a, b + 1) = LossesIn(v, a, b) + 1
           /\ ~(v[b + 1] < 0) => LossesIn(v, a, b + 1) = LossesIn(v, a, b)
           /\ Quiet(v, a, b + 1) <=> Quiet(v, a, b) /\ v[b + 1] <= 0
<1> DEFINE S == {i \in a..b : v[i] < 0}
           T == {i \in a..(b + 1) : v[i] < 0}
<1>1. IsFiniteSet(S) /\ Cardinality(S) \in Nat
  <2>1. IsFiniteSet(a..b) /\ S \in SUBSET (a..b)
    BY FS_Interval
  <2>2. IsFiniteSet(S)
    <3> HIDE DEF S
    <3> QED  BY <2>1, FS_Subset
  <2> HIDE DEF S
  <2> QED  BY <2>2, FS_CardinalityType
<1>2. \A i \in a..(b + 1) : i \in a..b \/ i = b + 1
  OBVIOUS
<1>3. \A i \in a..b : i \in a..(b + 1) /\ i # b + 1
  OBVIOUS
<1>4. b + 1 \in a..(b + 1)
  OBVIOUS
<1>5. Quiet(v, a, b + 1) <=> Quiet(v, a, b) /\ v[b + 1] <= 0
  BY <1>2, <1>3, <1>4, Zenon DEF Quiet
<1>6. v[b + 1] < 0 => T = S \cup {b + 1} /\ b + 1 \notin S
  BY <1>2, <1>3, <1>4
<1>7. ~(v[b + 1] < 0) => T = S
  BY <1>2, <1>3, <1>4
<1>8. LossesIn(v, a, b) = Cardinality(S) /\ LossesIn(v, a, b + 1) = Cardinality(T)
  BY DEF LossesIn
<1> HIDE DEF S, T
<1>9. b + 1 \notin S => Cardinality(S \cup {b + 1}) = Cardinality(S) + 1
  BY <1>1, FS_AddElement
<1> QED  BY <1>1, <1>5, <1>6, <1>7, <1>8, <1>9

\* The streak that ends at i, and the longest of those that have ended by i.
Current(v, i, now) ==
    /\ \A a \in 1..(i + 1) : Quiet(v, a, i) => LossesIn(v, a, i) <= now
    /\ \E a \in 1..(i + 1) : Quiet(v, a, i) /\ LossesIn(v, a, i) = now
Longest(v, i, w) ==
    /\ \A a, b \in 1..i : a <= b /\ Quiet(v, a, b) => LossesIn(v, a, b) <= w
    /\ w = 0 \/ \E a, b \in 1..i : a <= b /\ Quiet(v, a, b) /\ LossesIn(v, a, b) = w

LEMMA CurrentGoesOn ==
    ASSUME NEW v, NEW i \in Nat, v[i + 1] \in Int, NEW m \in Nat, Current(v, i, m), NEW now \in Nat,
           v[i + 1] > 0 => now = 0, v[i + 1] < 0 => now = m + 1, v[i + 1] = 0 => now = m
    PROVE  Current(v, i + 1, now)
<1>1. \A a \in 1..((i + 1) + 1) : a \in 1..(i + 1) \/ a = i + 2
  OBVIOUS
<1>2. LossesIn(v, i + 2, i + 1) = 0 /\ Quiet(v, i + 2, i + 1)
  BY NoLosses
<1>3. ASSUME NEW a \in 1..(i + 1)
      PROVE  /\ LossesIn(v, a, i) \in Nat
             /\ v[i + 1] < 0 => LossesIn(v, a, i + 1) = LossesIn(v, a, i) + 1
             /\ ~(v[i + 1] < 0) => LossesIn(v, a, i + 1) = LossesIn(v, a, i)
             /\ Quiet(v, a, i + 1) <=> Quiet(v, a, i) /\ v[i + 1] <= 0
  <2>1. a \in Int /\ i \in Int /\ a <= i + 1
    OBVIOUS
  <2> QED  BY <2>1, MoreLosses
<1>4. ASSUME NEW a \in 1..((i + 1) + 1), Quiet(v, a, i + 1) PROVE LossesIn(v, a, i + 1) <= now
  <2>1. CASE a \in 1..(i + 1)
    <3>1. Quiet(v, a, i) /\ v[i + 1] <= 0
      BY <1>3, <1>4, <2>1
    <3>2. LossesIn(v, a, i) <= m
      BY <2>1, <3>1, Zenon DEF Current
    <3> QED  BY <1>3, <2>1, <3>1, <3>2
  <2>2. CASE a = i + 2
    BY <1>2, <2>2
  <2> QED  BY <1>1, <2>1, <2>2
<1>5. \E a \in 1..((i + 1) + 1) : Quiet(v, a, i + 1) /\ LossesIn(v, a, i + 1) = now
  <2>1. CASE v[i + 1] > 0
    <3>1. i + 2 \in 1..((i + 1) + 1)
      OBVIOUS
    <3> QED  BY <1>2, <2>1, <3>1
  <2>2. CASE ~(v[i + 1] > 0)
    <3>1. PICK a \in 1..(i + 1) : Quiet(v, a, i) /\ LossesIn(v, a, i) = m
      BY Zenon DEF Current
    <3>2. Quiet(v, a, i + 1) /\ LossesIn(v, a, i + 1) = now
      BY <1>3, <2>2, <3>1
    <3>3. a \in 1..((i + 1) + 1)
      OBVIOUS
    <3> QED  BY <3>2, <3>3
  <2> QED  BY <2>1, <2>2
<1> QED  BY <1>4, <1>5, Zenon DEF Current

LEMMA LongestGoesOn ==
    ASSUME NEW v, NEW i \in Nat, NEW w \in Nat, Longest(v, i, w), NEW now \in Nat, Current(v, i + 1, now),
           NEW x \in Nat, x >= w, x >= now, x = w \/ x = now, \A a \in 1..(i + 1) : LossesIn(v, a, i + 1) \in Nat,
           \A a, b \in 1..i : LossesIn(v, a, b) \in Nat
    PROVE  Longest(v, i + 1, x)
<1>1. \A a \in 1..i : a \in 1..(i + 1)
  OBVIOUS
<1>2. \A a \in 1..(i + 1) : a \in 1..((i + 1) + 1)
  OBVIOUS
<1>3. ASSUME NEW a \in 1..(i + 1), NEW b \in 1..(i + 1), a <= b, Quiet(v, a, b)
      PROVE  LossesIn(v, a, b) <= x
  <2>1. CASE b = i + 1
    <3>1. LossesIn(v, a, i + 1) <= now
      BY <1>2, <1>3, <2>1, Zenon DEF Current
    <3>2. LossesIn(v, a, i + 1) \in Nat
      OBVIOUS
    <3> QED  BY <2>1, <3>1, <3>2
  <2>2. CASE b \in 1..i
    <3>1. a \in 1..i
      BY <1>3, <2>2
    <3>2. LossesIn(v, a, b) <= w
      BY <1>3, <2>2, <3>1, Zenon DEF Longest
    <3> QED  BY <2>2, <3>1, <3>2
  <2> QED  BY <2>1, <2>2
<1>4. x = 0 \/ \E a, b \in 1..(i + 1) : a <= b /\ Quiet(v, a, b) /\ LossesIn(v, a, b) = x
  <2>1. CASE x = w /\ x # 0
    <3>1. PICK a \in 1..i, b \in 1..i : a <= b /\ Quiet(v, a, b) /\ LossesIn(v, a, b) = w
      BY <2>1, Zenon DEF Longest
    <3> QED  BY <1>1, <2>1, <3>1
  <2>2. CASE x = now /\ x # 0
    <3>1. PICK a \in 1..((i + 1) + 1) : Quiet(v, a, i + 1) /\ LossesIn(v, a, i + 1) = now
      BY Zenon DEF Current
    <3>2. CASE a = i + 2
      <4>1. LossesIn(v, i + 2, i + 1) = 0
        BY NoLosses
      <4> QED  BY <2>2, <3>1, <3>2, <4>1
    <3>3. CASE a \in 1..(i + 1)
      <4>1. i + 1 \in 1..(i + 1) /\ a <= i + 1
        BY <3>3
      <4> QED  BY <2>2, <3>1, <3>3, <4>1
    <3> QED  BY <3>2, <3>3
  <2> QED  BY <2>1, <2>2
<1> QED  BY <1>3, <1>4, Zenon DEF Longest

LEMMA LossesAreCounted ==
    ASSUME NEW n \in Nat, NEW v, \A i \in 1..n : v[i] \in Int,
           NEW a \in 1..n, NEW b \in 1..n
    PROVE  LossesIn(v, a, b) \in Nat
<1>1. a \in Int /\ b \in Int /\ b - 1 \in Int /\ (b - 1) + 1 = b
  OBVIOUS
<1> SUFFICES LossesIn(v, a, b) \in Nat
  OBVIOUS
<1> DEFINE S == {i \in a..b : v[i] < 0}
<1>2. IsFiniteSet(a..b) /\ S \in SUBSET (a..b)
  BY <1>1, FS_Interval
<1> HIDE DEF S
<1>3. Cardinality(S) \in Nat
  BY <1>2, FS_Subset, FS_CardinalityType
<1> QED  BY <1>3 DEF S, LossesIn

LEMMA StreaksAre ==
    ASSUME NEW n \in Nat, NEW v, DOMAIN v = 1..n, \A i \in 1..n : v[i] \in Int,
           NEW acc, Streaks!Walk(acc, [now |-> 0, longest |-> 0], v, n)
    PROVE  acc[n].longest \in Nat /\ Longest(v, n, acc[n].longest)
<1>1. acc[0] = [now |-> 0, longest |-> 0] /\ \A i \in 1..n : acc[i] = Streak(acc[i - 1], v[i])
  BY Zenon DEF Streaks!Walk
<1> DEFINE Good(i) == \E m, w \in Nat : /\ acc[i] = [now |-> m, longest |-> w]
                                        /\ Current(v, i, m) /\ Longest(v, i, w)
           A == {i \in 0..n : Good(i)}
<1>2. Good(0)
  <2>1. 1..(0 + 1) = {1} /\ 1..0 = {} /\ 0 \in Nat
    OBVIOUS
  <2>2. LossesIn(v, 1, 0) = 0 /\ Quiet(v, 1, 0)
    BY NoLosses
  <2>3. Current(v, 0, 0)
    BY <2>1, <2>2 DEF Current
  <2>4. Longest(v, 0, 0)
    BY <2>1 DEF Longest
  <2> QED  BY <1>1, <2>1, <2>3, <2>4, Zenon
<1>3. ASSUME NEW i \in 0..(n - 1), Good(i) PROVE Good(i + 1)
  <2>1. i + 1 \in 1..n /\ (i + 1) - 1 = i /\ v[i + 1] \in Int /\ i \in Nat
    OBVIOUS
  <2>2. PICK m \in Nat, w \in Nat : acc[i] = [now |-> m, longest |-> w] /\ Current(v, i, m) /\ Longest(v, i, w)
    BY <1>3, Zenon
  <2>3. StreaksTo(m, w, v[i + 1], Streak([now |-> m, longest |-> w], v[i + 1]))
    BY <2>1, StreakIs, Zenon
  <2>4. acc[i + 1] = Streak([now |-> m, longest |-> w], v[i + 1])
    BY <1>1, <2>1, <2>2
  <2>5. PICK now \in Nat, x \in Nat :
           /\ acc[i + 1] = [now |-> now, longest |-> x]
           /\ v[i + 1] > 0 => now = 0
           /\ v[i + 1] < 0 => now = m + 1
           /\ v[i + 1] = 0 => now = m
           /\ x >= w /\ x >= now /\ (x = w \/ x = now)
    BY <2>3, <2>4, Zenon DEF StreaksTo
  <2>6. Current(v, i + 1, now)
    BY <2>1, <2>2, <2>5, CurrentGoesOn
  <2>7. \A a \in 1..(i + 1) : LossesIn(v, a, i + 1) \in Nat
    <3>1. \A a \in 1..(i + 1) : a \in 1..n
      BY <2>1
    <3> QED  BY <2>1, <3>1, LossesAreCounted
  <2>8. \A a, b \in 1..i : LossesIn(v, a, b) \in Nat
    <3>1. \A a \in 1..i : a \in 1..n
      OBVIOUS
    <3> QED  BY <3>1, LossesAreCounted
  <2>9. Longest(v, i + 1, x)
    BY <2>1, <2>2, <2>5, <2>6, <2>7, <2>8, LongestGoesOn
  <2> QED  BY <2>5, <2>6, <2>9, Zenon
<1>4. Good(n)
  <2> HIDE DEF Good
  <2>1. 0 \in A /\ n \in 0..n
    BY <1>2
  <2>2. ASSUME NEW i \in 0..(n - 1), i \in A PROVE i + 1 \in A
    <3>1. i + 1 \in 0..n
      OBVIOUS
    <3> QED  BY <1>3, <2>2, <3>1
  <2>3. \A i \in 0..n : i \in A
    <3> HIDE DEF A
    <3> QED  BY <2>1, <2>2, Streaks!UpTo
  <2> QED  BY <2>1, <2>3
<1>5. PICK m \in Nat, w \in Nat : acc[n] = [now |-> m, longest |-> w] /\ Longest(v, n, w)
  BY <1>4, Zenon
<1>6. acc[n].longest = w
  BY <1>5
<1> QED  BY <1>5, <1>6

-----------------------------------------------------------------------------
LEMMA SortedInPast == \A S, key : Past!SortedBy(S, key) = SortedBy(S, key)
  BY Zenon DEF Past!SortedBy, SortedBy, Past!InOrder, InOrder, Past!ByKey, ByKey, Past!Cardinality, Cardinality

\* At most half of some numbers lie below their median.
LEMMA MedianIs ==
    ASSUME NEW n \in Nat \ {0}, NEW v, v \in Seq(Int), Len(v) = n
    PROVE  Cardinality({i \in DOMAIN v : 2 * v[i] < Past!TwiceMedian(v)}) * 2 <= n
<1> DEFINE order == SortedBy(DOMAIN v, v)
           mid == n \div 2
           L == {i \in DOMAIN v : 2 * v[i] < Past!TwiceMedian(v)}
           I == {order[k] : k \in 1..mid}
<1>1. DOMAIN v = 1..n /\ \A i \in 1..n : v[i] \in Int
  OBVIOUS
<1>2. IsFiniteSet(1..n) /\ Cardinality(1..n) = n
  BY FS_Interval
<1>3. SortsBy(1..n, v, order)
  <2>1. 1..n \in SUBSET Int /\ \A i \in 1..n : v[i] \in Int
    BY <1>1
  <2> QED  BY <1>1, <1>2, <2>1, SortingSorts
<1>4. mid \in Nat /\ 2 * mid <= n /\ (n % 2 = 1 => mid + 1 \in 1..n) /\ (n % 2 # 1 => mid \in 1..n /\ mid + 1 \in 1..n)
      /\ mid <= n
  <2>1. n % 2 \in {0, 1} /\ n = 2 * mid + (n % 2) /\ mid \in Int
    OBVIOUS
  <2> HIDE DEF mid
  <2>2. n % 2 = 0 \/ n % 2 = 1
    BY <2>1
  <2> QED  BY <2>1, <2>2
<1>5. Past!TwiceMedian(v) = IF n % 2 = 1 THEN 2 * v[order[mid + 1]] ELSE v[order[mid]] + v[order[mid + 1]]
  BY SortedInPast, Zenon DEF Past!TwiceMedian
<1> HIDE DEF order, mid
<1>6. \A k \in 1..n : order[k] \in 1..n /\ v[order[k]] \in Int
  BY <1>1, <1>2, <1>3, Zenon DEF SortsBy
<1>7. ASSUME NEW k \in 1..n, NEW l \in 1..n, k <= l PROVE v[order[k]] <= v[order[l]]
  <2>1. CASE k = l
    BY <1>6, <2>1
  <2>2. CASE k < l
    <3>1. v[order[k]] < v[order[l]] \/ v[order[k]] = v[order[l]]
      BY <1>2, <1>3, <2>2, Zenon DEF SortsBy
    <3> QED  BY <1>6, <3>1
  <2> QED  BY <1>7, <2>1, <2>2
<1>8. mid + 1 \in 1..n /\ Past!TwiceMedian(v) <= 2 * v[order[mid + 1]]
  <2>1. CASE n % 2 = 1
    BY <1>4, <1>5, <1>6, <2>1
  <2>2. CASE n % 2 # 1
    <3>1. mid \in 1..n /\ mid + 1 \in 1..n /\ mid <= mid + 1
      BY <1>4, <2>2
    <3>2. v[order[mid]] <= v[order[mid + 1]] /\ v[order[mid]] \in Int /\ v[order[mid + 1]] \in Int
      BY <1>6, <1>7, <3>1
    <3>3. Past!TwiceMedian(v) = v[order[mid]] + v[order[mid + 1]]
      BY <1>5, <2>2
    <3> QED  BY <3>1, <3>2, <3>3
  <2> QED  BY <2>1, <2>2
<1>9. L \subseteq I
  <2> SUFFICES ASSUME NEW i \in 1..n, 2 * v[i] < Past!TwiceMedian(v) PROVE \E k \in 1..mid : i = order[k]
    BY <1>1
  <2>1. PICK k \in 1..n : order[k] = i
    BY <1>2, <1>3, Zenon DEF SortsBy
  <2>2. CASE k <= mid
    <3>1. k \in 1..mid
      BY <1>4, <2>2
    <3> QED  BY <2>1, <3>1
  <2>3. CASE k > mid
    <3>1. mid + 1 <= k
      BY <1>4, <2>3
    <3>2. v[order[mid + 1]] <= v[i]
      BY <1>7, <1>8, <2>1, <3>1
    <3>3. v[order[mid + 1]] \in Int /\ v[i] \in Int
      BY <1>1, <1>6, <1>8
    <3>4. Past!TwiceMedian(v) \in Int
      BY <1>4, <1>5, <1>6
    <3> QED  BY <1>8, <3>2, <3>3, <3>4
  <2> QED  BY <1>4, <2>2, <2>3
<1>10. IsFiniteSet(I) /\ Cardinality(I) <= mid
  <2> DEFINE f == [k \in 1..mid |-> order[k]]
  <2>1. f \in Surjection(1..mid, I)
    BY DEF Surjection
  <2>2. IsFiniteSet(1..mid) /\ Cardinality(1..mid) = mid
    BY <1>4, FS_Interval
  <2> HIDE DEF I, f
  <2> QED  BY <2>1, <2>2, FS_Surjection
<1>11. Cardinality(L) <= Cardinality(I) /\ Cardinality(L) \in Nat /\ Cardinality(I) \in Nat
  <2> HIDE DEF L, I
  <2> QED  BY <1>9, <1>10, FS_Subset, FS_CardinalityType
<1>12. Cardinality(L) * 2 <= n
  <2> HIDE DEF L, I
  <2> QED  BY <1>4, <1>10, <1>11
<1> QED  BY <1>12

-----------------------------------------------------------------------------
LEMMA PercentIs ==
    ASSUME NEW a \in Int, NEW b \in Int
    PROVE  Past!Percent(a, b) \in Int
<1>1. CASE a <= 0
  BY <1>1 DEF Past!Percent
<1>2. CASE ~(a <= 0)
  <2>1. PICK x \in Int : x = (b - a) * 100
    OBVIOUS
  <2>2. Past!Percent(a, b) = x \div a /\ a \in Nat \ {0}
    BY <1>2, <2>1 DEF Past!Percent
  <2> QED  BY <2>2, Quotient
<1> QED  BY <1>1, <1>2

FiguresOf(moves) ==
    LET curve == Past!EquityCurve(moves)
        spans == {s \in (DOMAIN moves) \X (DOMAIN moves) : s[1] <= s[2]}
        losses(s) == Cardinality({i \in s[1]..s[2] : moves[i] < 0})
    IN  /\ Past!MaxDrawdown(moves) = Max({curve[s[1]] - curve[s[2]] : s \in spans})
        /\ Past!LongestLosingStreak(moves)
              = Max({losses(s) : s \in {t \in spans : \A i \in t[1]..t[2] : moves[i] <= 0}} \union {0})
        /\ Past!HasProfitFactor(moves) => (Past!IsProfitable(moves) <=> curve[Len(moves)] > 0)
        /\ Cardinality({i \in DOMAIN moves : 2 * moves[i] < Past!TwiceMedian(moves)}) * 2 <= Len(moves)

LEMMA SameMax == \A S : Past!Max(S) = Max(S)
  BY DEF Past!Max, Max

LEMMA FiguresMean ==
    ASSUME NEW n \in Nat \ {0}, NEW v, v \in Seq(Int), Len(v) = n
    PROVE  FiguresOf(v)
<1>1. DOMAIN v = 1..n /\ \A i \in 1..n : v[i] \in Int
  OBVIOUS
<1> DEFINE curve == Past!EquityCurve(v)
           spans == {s \in (1..n) \X (1..n) : s[1] <= s[2]}
<1>2. PICK sum : /\ SumsTo(v, n, sum) /\ Past!Sum(v) = sum[n]
                 /\ DOMAIN curve = 1..n
                 /\ \A k \in 1..n : curve[k] = sum[k]
  BY CurveIs
<1> HIDE DEF curve
<1>3. \A k \in 1..n : curve[k] \in Int
  <2>1. \A k \in 1..n : k \in 0..n
    OBVIOUS
  <2> QED  BY <1>2, <2>1 DEF SumsTo
<1>4. Past!MaxDrawdown(v) = Max({curve[s[1]] - curve[s[2]] : s \in spans})
  <2>1. PICK acc : /\ Falls!Walk(acc, [peak |-> curve[1], worst |-> 0], curve, n)
                   /\ Falls!FoldLeft(Fall, [peak |-> curve[1], worst |-> 0], curve) = acc[n]
    BY <1>2, Falls!FoldLeftWalks
  <2>2. acc[n].worst \in Int /\ Deepest(curve, n, acc[n].worst)
    BY <1>2, <1>3, <2>1, DrawdownIs
  <2>3. Past!MaxDrawdown(v) = acc[n].worst
    BY <2>1, DrawdownFolds DEF curve
  <2> DEFINE S == {curve[s[1]] - curve[s[2]] : s \in spans}
             w == acc[n].worst
  <2>4. w \in S
    <3>1. PICK a \in 1..n, b \in 1..n : a <= b /\ curve[a] - curve[b] = w
      BY <2>2, Zenon DEF Deepest
    <3>2. <<a, b>> \in spans /\ <<a, b>>[1] = a /\ <<a, b>>[2] = b
      BY <3>1
    <3> HIDE DEF spans, w
    <3> QED  BY <3>1, <3>2
  <2>5. \A y \in S : y \in Int /\ y <= w
    <3> SUFFICES ASSUME NEW s \in spans PROVE curve[s[1]] - curve[s[2]] \in Int /\ curve[s[1]] - curve[s[2]] <= w
      BY Zenon
    <3>1. s[1] \in 1..n /\ s[2] \in 1..n /\ s[1] <= s[2]
      OBVIOUS
    <3> HIDE DEF spans, w
    <3>2. curve[s[1]] - curve[s[2]] <= w
      BY <2>2, <3>1, Zenon DEF Deepest, w
    <3> QED  BY <1>3, <3>1, <3>2
  <2>6. w \in Int
    BY <2>2
  <2> HIDE DEF S, w
  <2>7. Past!Max(S) = w
    BY <2>4, <2>5, <2>6, MaxIs
  <2> QED  BY <2>3, <2>7, SameMax, Zenon DEF S, w
<1>5. Past!LongestLosingStreak(v)
         = Max({LossesIn(v, s[1], s[2]) : s \in {t \in spans : Quiet(v, t[1], t[2])}} \union {0})
  <2>1. PICK acc : /\ Streaks!Walk(acc, [now |-> 0, longest |-> 0], v, n)
                   /\ Streaks!FoldLeft(Streak, [now |-> 0, longest |-> 0], v) = acc[n]
    BY <1>1, Streaks!FoldLeftWalks
  <2>2. acc[n].longest \in Nat /\ Longest(v, n, acc[n].longest)
    BY <1>1, <2>1, StreaksAre
  <2>3. Past!LongestLosingStreak(v) = acc[n].longest
    BY <2>1, StreakFolds
  <2> DEFINE Q == {t \in spans : Quiet(v, t[1], t[2])}
             S == {LossesIn(v, s[1], s[2]) : s \in Q} \union {0}
             w == acc[n].longest
  <2>4. w \in S
    <3>1. CASE w = 0
      BY <3>1
    <3>2. CASE w # 0
      <4>1. PICK a \in 1..n, b \in 1..n : a <= b /\ Quiet(v, a, b) /\ LossesIn(v, a, b) = w
        BY <2>2, <3>2, Zenon DEF Longest
      <4>2. <<a, b>> \in spans /\ <<a, b>>[1] = a /\ <<a, b>>[2] = b
        BY <4>1
      <4> HIDE DEF spans, w
      <4>3. <<a, b>> \in Q
        BY <4>1, <4>2
      <4> HIDE DEF Q
      <4> QED  BY <4>1, <4>2, <4>3
    <3> QED  BY <3>1, <3>2
  <2>5. \A y \in S : y \in Int /\ y <= w
    <3>1. 0 \in Int /\ 0 <= w
      BY <2>2
    <3>2. ASSUME NEW s \in Q PROVE LossesIn(v, s[1], s[2]) \in Int /\ LossesIn(v, s[1], s[2]) <= w
      <4>1. s[1] \in 1..n /\ s[2] \in 1..n /\ s[1] <= s[2] /\ Quiet(v, s[1], s[2])
        OBVIOUS
      <4> HIDE DEF spans, Q, w
      <4>2. LossesIn(v, s[1], s[2]) <= w
        BY <2>2, <4>1, Zenon DEF Longest, w
      <4>3. LossesIn(v, s[1], s[2]) \in Nat
        BY <1>1, <4>1, LossesAreCounted
      <4> QED  BY <4>2, <4>3
    <3> HIDE DEF Q, w
    <3> QED  BY <3>1, <3>2
  <2>6. w \in Int
    BY <2>2
  <2> HIDE DEF S, w
  <2>7. Past!Max(S) = w
    BY <2>4, <2>5, <2>6, MaxIs
  <2> QED  BY <2>3, <2>7, SameMax, Zenon DEF S, w
<1>6. Past!HasProfitFactor(v) => (Past!IsProfitable(v) <=> curve[Len(v)] > 0)
  <2>1. curve[Len(v)] = Past!Sum(v)
    <3>1. n \in 1..n
      OBVIOUS
    <3> QED  BY <1>2, <3>1
  <2>2. /\ Past!Gains(v) \in Int /\ Past!Losses(v) \in Int /\ Past!Sum(v) \in Int
        /\ Past!Gains(v) - Past!Losses(v) = Past!Sum(v)
    BY GainsAndLosses
  <2>3. Past!Gains(v) > Past!Losses(v) <=> curve[Len(v)] > 0
    BY <2>1, <2>2
  <2> QED  BY <2>3, Zenon DEF Past!IsProfitable
<1>7. Cardinality({i \in DOMAIN v : 2 * v[i] < Past!TwiceMedian(v)}) * 2 <= Len(v)
  BY MedianIs
<1> HIDE DEF spans
<1>8. spans = {s \in (DOMAIN v) \X (DOMAIN v) : s[1] <= s[2]}
  BY <1>1 DEF spans
<1> QED  BY <1>4, <1>5, <1>6, <1>7, <1>8, Zenon DEF FiguresOf, LossesIn, Quiet, curve

LEMMA TrueFigures == ReplayAsked => FiguresAreTrue
<1> SUFFICES ASSUME ReplayAsked, case.kind = "replay", Len(case.closes) > 1 PROVE FiguresAreTrue
  BY DEF FiguresAreTrue
<1> DEFINE moves == [i \in 1..(Len(case.closes) - 1) |-> Past!Percent(case.closes[i], case.closes[i + 1])]
<1>1. case.closes \in [1..Bars -> BarPrices] /\ Bars \in Nat /\ BarPrices \subseteq Int
  BY ResearchAssumption DEF ReplayAsked
<1>2. Len(case.closes) = Bars /\ \A i \in 1..Bars : case.closes[i] \in Int
  <2> DEFINE closes == case.closes
  <2> HIDE DEF closes
  <2>1. closes \in [1..Bars -> BarPrices] /\ Bars \in Nat /\ BarPrices \subseteq Int
    BY <1>1 DEF closes
  <2>2. Len(closes) = Bars /\ \A i \in 1..Bars : closes[i] \in Int
    <3>1. \A i \in 1..Bars : closes[i] \in BarPrices
      BY <2>1
    <3>2. Len(closes) = Bars
      BY <2>1
    <3> QED  BY <2>1, <3>1, <3>2, Zenon
  <2> QED  BY <2>2, Zenon DEF closes
<1>3. PICK n \in Nat \ {0} : n = Len(case.closes) - 1 /\ n + 1 = Bars
  <2>1. Bars - 1 \in Nat \ {0} /\ (Bars - 1) + 1 = Bars
    BY <1>1, <1>2
  <2> QED  BY <1>2, <2>1
<1>4. \A i \in 1..n : moves[i] \in Int
  <2> SUFFICES ASSUME NEW i \in 1..n PROVE Past!Percent(case.closes[i], case.closes[i + 1]) \in Int
    BY <1>3
  <2>1. i \in 1..Bars /\ i + 1 \in 1..Bars
    BY <1>3
  <2> QED  BY <1>2, <2>1, PercentIs
<1>5. moves = [i \in 1..n |-> moves[i]]
  BY <1>3
<1>6. moves \in Seq(Int) /\ Len(moves) = n
  <2> HIDE DEF moves
  <2>1. moves \in [1..n -> Int] /\ DOMAIN moves = 1..n
    BY <1>4, <1>5
  <2> QED  BY <2>1
<1>7. FiguresOf(moves)
  <2> HIDE DEF moves
  <2> QED  BY <1>6, FiguresMean
<1> QED  BY <1>7, Zenon DEF FiguresAreTrue, FiguresOf

\* The figures of any history are what they are named for: the drawdown, the
\* streak of losses, the profit factor and the median (metrics.py:76-166).
THEOREM FiguresMeanWhatTheySay == Spec => []FiguresAreTrue
<1>1. Asked => FiguresAreTrue
  BY TrueFigures DEF Asked
<1> QED  BY OnlyAsked, <1>1, PTL

-----------------------------------------------------------------------------
(* The history of the volatility.                                          *)

Keeps == INSTANCE SequenceFacts WITH Op <- Keep

LEMMA DaysGoOn ==
    ASSUME NEW n \in Nat, NEW days, \A i \in 1..n : days[i] \in Int, \A i \in 1..n : i > 1 => days[i - 1] <= days[i]
    PROVE  \A i \in 1..n : \A k \in 1..i : days[k] <= days[i]
<1> DEFINE A == {i \in 0..n : \A k \in 1..i : days[k] <= days[i]}
<1>1. 0 \in A
  OBVIOUS
<1>2. ASSUME NEW i \in 0..(n - 1), i \in A PROVE i + 1 \in A
  <2>1. i + 1 \in 1..n /\ (i + 1) - 1 = i /\ days[i + 1] \in Int /\ i + 1 \in 0..n
    OBVIOUS
  <2>2. \A k \in 1..(i + 1) : k = i + 1 \/ k \in 1..i
    OBVIOUS
  <2>3. ASSUME NEW k \in 1..i PROVE days[k] <= days[i + 1]
    <3>1. i \in 1..n /\ i + 1 > 1 /\ k \in 1..n
      OBVIOUS
    <3>2. days[i] <= days[i + 1]
      <4>1. PICK x \in 1..n : x = i + 1 /\ x > 1 /\ x - 1 = i
        BY <2>1, <3>1
      <4>2. days[x - 1] <= days[x]
        BY <4>1
      <4> QED  BY <4>1, <4>2
    <3>3. days[k] <= days[i] /\ days[k] \in Int /\ days[i] \in Int
      BY <1>2, <3>1
    <3> QED  BY <2>1, <3>2, <3>3
  <2>4. days[i + 1] <= days[i + 1]
    BY <2>1
  <2> QED  BY <2>1, <2>2, <2>3, <2>4
<1>3. \A i \in 0..n : i \in A
  <2> HIDE DEF A
  <2> QED  BY <1>1, <1>2, Keeps!UpTo
<1>4. \A i \in 1..n : i \in 0..n
  OBVIOUS
<1> QED  BY <1>3, <1>4

\* The j-th reading is the last one of a day among the first i.
LastOf(r, i, d, j) == /\ j \in 1..i /\ r[j].points # {} /\ r[j].day = d
                      /\ \A k \in 1..i : k > j /\ r[k].day = d => r[k].points = {}
\* No reading so far was so late that a day has been forgotten.
Fresh(r, i, d) == \A k \in 1..i : r[k].points # {} => d >= r[k].day - IvPlan.maxDays
LevelOf(r, j) == Iv!AtmIv(r[j].points, IvPlan.spot)

HistoryOf(r, i, history) ==
    /\ \A d : d \in DOMAIN history <=> Fresh(r, i, d) /\ \E j \in 1..i : LastOf(r, i, d, j)
    /\ \A d \in DOMAIN history : \A j \in 1..i : LastOf(r, i, d, j) => history[d] = LevelOf(r, j)

LEMMA HistoryGoesOn ==
    ASSUME NEW r, NEW i \in Nat, \A k \in 1..(i + 1) : r[k].day \in Int /\ r[k].day <= r[i + 1].day,
           NEW history, HistoryOf(r, i, history)
    PROVE  HistoryOf(r, i + 1, Keep(history, r[i + 1]))
<1> DEFINE today == r[i + 1].day
           max == IvPlan.maxDays
<1>1. i + 1 \in 1..(i + 1) /\ today \in Int /\ max \in Nat
  BY ResearchAssumption
<1>2. \A k \in 1..(i + 1) : k \in 1..i \/ k = i + 1
  OBVIOUS
<1>3. \A k \in 1..i : k \in 1..(i + 1) /\ k # i + 1 /\ i + 1 > k
  OBVIOUS
<1>4. \A d : Fresh(r, i + 1, d) <=> Fresh(r, i, d) /\ (r[i + 1].points # {} => d >= today - max)
  BY <1>1, <1>2, <1>3, Zenon DEF Fresh
<1>5. ASSUME NEW d, NEW j \in 1..i
      PROVE  LastOf(r, i + 1, d, j) <=> LastOf(r, i, d, j) /\ (d = today => r[i + 1].points = {})
  BY <1>1, <1>2, <1>3, Zenon DEF LastOf
<1>6. CASE r[i + 1].points = {}
  <2>1. Keep(history, r[i + 1]) = history
    BY <1>6, Zenon DEF Keep, Iv!RecordSurface
  <2>2. \A d : Fresh(r, i + 1, d) <=> Fresh(r, i, d)
    BY <1>4, <1>6, Zenon
  <2>3. \A d : ~LastOf(r, i + 1, d, i + 1)
    BY <1>6, Zenon DEF LastOf
  <2>4. \A d : \A j \in 1..i : LastOf(r, i + 1, d, j) <=> LastOf(r, i, d, j)
    BY <1>5, <1>6, Zenon
  <2>5. \A d : (\E j \in 1..(i + 1) : LastOf(r, i + 1, d, j)) <=> (\E j \in 1..i : LastOf(r, i, d, j))
    BY <1>2, <1>3, <2>3, <2>4, Zenon
  <2>6. \A d \in DOMAIN history : \A j \in 1..(i + 1) : LastOf(r, i + 1, d, j) => history[d] = LevelOf(r, j)
    BY <1>2, <2>3, <2>4, Zenon DEF HistoryOf
  <2>7. \A d : d \in DOMAIN history <=> Fresh(r, i + 1, d) /\ \E j \in 1..(i + 1) : LastOf(r, i + 1, d, j)
    BY <2>2, <2>5, Zenon DEF HistoryOf
  <2> QED  BY <2>1, <2>6, <2>7, Zenon DEF HistoryOf
<1>7. CASE r[i + 1].points # {}
  <2> DEFINE value == LevelOf(r, i + 1)
             after == [d \in {e \in DOMAIN history \union {today} : e >= today - max} |->
                         IF d = today THEN value ELSE history[d]]
  <2>1. Keep(history, r[i + 1]) = after
    BY <1>7, Zenon DEF Keep, Iv!RecordSurface, Iv!Record, LevelOf
  <2>2. \A d : d \in DOMAIN after <=> (d \in DOMAIN history \/ d = today) /\ d >= today - max
    OBVIOUS
  <2>3. \A d \in DOMAIN after : after[d] = IF d = today THEN value ELSE history[d]
    OBVIOUS
  <2> HIDE DEF after, value
  <2>4. \A d : LastOf(r, i + 1, d, i + 1) <=> d = today
    <3>1. \A k \in 1..(i + 1) : ~(k > i + 1)
      OBVIOUS
    <3> QED  BY <1>1, <1>7, <3>1, Zenon DEF LastOf
  <2>5. \A d : \A j \in 1..i : LastOf(r, i + 1, d, j) <=> LastOf(r, i, d, j) /\ d # today
    BY <1>5, <1>7, Zenon
  <2>6. Fresh(r, i + 1, today)
    BY <1>1 DEF Fresh
  <2>7. today >= today - max
    <3> HIDE DEF today, max
    <3> QED  BY <1>1
  <2>8. \A d : d \in DOMAIN after <=> Fresh(r, i + 1, d) /\ \E j \in 1..(i + 1) : LastOf(r, i + 1, d, j)
    <3> TAKE d
    <3>1. CASE d = today
      <4>1. LastOf(r, i + 1, d, i + 1)
        BY <2>4, <3>1, Zenon
      <4> QED  BY <1>1, <2>2, <2>6, <2>7, <3>1, <4>1, Zenon
    <3>2. CASE d # today
      <4>1. (\E j \in 1..(i + 1) : LastOf(r, i + 1, d, j)) <=> (\E j \in 1..i : LastOf(r, i, d, j))
        BY <1>2, <1>3, <2>4, <2>5, <3>2, Zenon
      <4>2. Fresh(r, i + 1, d) <=> Fresh(r, i, d) /\ d >= today - max
        BY <1>4, <1>7, Zenon
      <4>3. d \in DOMAIN history <=> Fresh(r, i, d) /\ \E j \in 1..i : LastOf(r, i, d, j)
        BY Zenon DEF HistoryOf
      <4> QED  BY <2>2, <3>2, <4>1, <4>2, <4>3, Zenon
    <3> QED  BY <3>1, <3>2
  <2>9. \A d \in DOMAIN after : \A j \in 1..(i + 1) : LastOf(r, i + 1, d, j) => after[d] = LevelOf(r, j)
    <3> SUFFICES ASSUME NEW d \in DOMAIN after, NEW j \in 1..(i + 1), LastOf(r, i + 1, d, j)
                 PROVE  after[d] = LevelOf(r, j)
      BY Zenon
    <3>1. CASE j = i + 1
      <4>1. d = today
        BY <2>4, <3>1, Zenon
      <4> QED  BY <2>3, <3>1, <4>1, Zenon DEF value
    <3>2. CASE j \in 1..i
      <4>1. LastOf(r, i, d, j) /\ d # today
        BY <2>5, <3>2, Zenon
      <4>2. d \in DOMAIN history
        BY <2>2, <4>1, Zenon
      <4>3. history[d] = LevelOf(r, j)
        BY <3>2, <4>1, <4>2, Zenon DEF HistoryOf
      <4> QED  BY <2>3, <4>1, <4>3, Zenon
    <3> QED  BY <1>2, <3>1, <3>2
  <2> QED  BY <2>1, <2>8, <2>9, Zenon DEF HistoryOf
<1> QED  BY <1>6, <1>7

LEMMA HistoryFolds ==
    ASSUME NEW r
    PROVE  FoldLeft(Keep, << >>, r) = Keeps!FoldLeft(Keep, << >>, r)
  BY Zenon DEF FoldLeft, Keeps!FoldLeft, MapThenFoldSet, Keeps!MapThenFoldSet, Max, Keeps!Max

LEMMA HistoryIs ==
    ASSUME NEW n \in Nat, NEW r, DOMAIN r = 1..n, \A i \in 1..n : r[i].day \in Int,
           \A i \in 1..n : \A k \in 1..i : r[k].day <= r[i].day
    PROVE  HistoryOf(r, n, FoldLeft(Keep, << >>, r))
<1>1. PICK acc : Keeps!Walk(acc, << >>, r, n) /\ Keeps!FoldLeft(Keep, << >>, r) = acc[n]
  BY Keeps!FoldLeftWalks
<1>2. acc[0] = << >> /\ \A i \in 1..n : acc[i] = Keep(acc[i - 1], r[i])
  BY <1>1, Zenon DEF Keeps!Walk
<1> DEFINE A == {i \in 0..n : HistoryOf(r, i, acc[i])}
<1>3. 0 \in A
  <2>1. 1..0 = {} /\ DOMAIN << >> = {} /\ 0 \in 0..n
    OBVIOUS
  <2>2. HistoryOf(r, 0, << >>)
    BY <2>1, Zenon DEF HistoryOf
  <2> QED  BY <1>2, <2>1, <2>2, Zenon
<1>4. ASSUME NEW i \in 0..(n - 1), i \in A PROVE i + 1 \in A
  <2>1. i + 1 \in 1..n /\ (i + 1) - 1 = i /\ i + 1 \in 0..n /\ i \in Nat
    OBVIOUS
  <2>2. acc[i + 1] = Keep(acc[i], r[i + 1])
    BY <1>2, <2>1
  <2>3. \A k \in 1..(i + 1) : r[k].day \in Int /\ r[k].day <= r[i + 1].day
    <3>1. \A k \in 1..(i + 1) : k \in 1..n
      BY <2>1
    <3> QED  BY <2>1, <3>1
  <2>4. HistoryOf(r, i + 1, Keep(acc[i], r[i + 1]))
    BY <1>4, <2>1, <2>3, HistoryGoesOn
  <2> QED  BY <2>1, <2>2, <2>4, Zenon
<1>5. n \in A
  <2>1. n \in 0..n
    OBVIOUS
  <2>2. \A i \in 0..n : i \in A
    <3> HIDE DEF A
    <3> QED  BY <1>3, <1>4, Keeps!UpTo
  <2> QED  BY <2>1, <2>2
<1> QED  BY <1>1, <1>5, HistoryFolds

-----------------------------------------------------------------------------
LEMMA SameIvSizes == \A S : Iv!Cardinality(S) = Cardinality(S)
  BY DEF Cardinality, Iv!Cardinality

Matches(f, S, T) ==
    /\ IsFiniteSet(S)
    /\ f \in [S -> T]
    /\ \A i, j \in S : f[i] = f[j] => i = j
    /\ \A t \in T : \E i \in S : f[i] = t

LEMMA Matched ==
    ASSUME NEW f, NEW S, NEW T, Matches(f, S, T)
    PROVE  Cardinality(S) = Cardinality(T)
<1>1. f \in Bijection(S, T) /\ IsFiniteSet(S)
  BY Zenon DEF Matches, Bijection, Injection, Surjection, IsInjective
<1> QED  BY <1>1, FS_Bijection DEF ExistsBijection

LastRead(r, n) == {i \in 1..n : r[i].points # {} /\ \A j \in (i + 1)..n : r[j].day = r[i].day => r[j].points = {}}
Recent(r, n) == {i \in LastRead(r, n) : r[i].day >= r[n].day - IvPlan.maxDays}

InTime(r, n) ==
    /\ \A i \in 1..n : r[i].day \in Int
    /\ \A i \in 1..n : \A k \in 1..i : r[k].day <= r[i].day
    /\ r[n].points # {}
Counted(r, n, history, now) ==
    /\ Cardinality(Recent(r, n)) \in Nat \ {0}
    /\ Cardinality(DOMAIN history) = Cardinality(Recent(r, n))
    /\ Cardinality({i \in Recent(r, n) : Iv!Below(LevelOf(r, i), now)}) \in Nat
    /\ Cardinality({d \in DOMAIN history : Iv!Below(history[d], now)})
          = Cardinality({i \in Recent(r, n) : Iv!Below(LevelOf(r, i), now)})

LEMMA RankIs ==
    ASSUME NEW n \in Nat \ {0}, NEW r, InTime(r, n), NEW history, HistoryOf(r, n, history), NEW now
    PROVE  Counted(r, n, history, now)
<1> DEFINE S == Recent(r, n)
           f == [i \in S |-> r[i].day]
           DB == {d \in DOMAIN history : Iv!Below(history[d], now)}
           SB == {i \in S : Iv!Below(LevelOf(r, i), now)}
           g == [i \in SB |-> r[i].day]
<1>1. n \in 1..n
  OBVIOUS
<1>0. /\ \A i \in 1..n : r[i].day \in Int
      /\ \A i \in 1..n : \A k \in 1..i : r[k].day <= r[i].day
      /\ r[n].points # {}
  BY DEF InTime
<1>2. ASSUME NEW i \in 1..n
      PROVE  (\A j \in (i + 1)..n : r[j].day = r[i].day => r[j].points = {})
                <=> (\A k \in 1..n : k > i /\ r[k].day = r[i].day => r[k].points = {})
  <2>1. \A k : k \in (i + 1)..n <=> k \in 1..n /\ k > i
    OBVIOUS
  <2> QED  BY <2>1, Zenon
<1>3. \A i \in 1..n : i \in LastRead(r, n) <=> LastOf(r, n, r[i].day, i)
  BY <1>2, Zenon DEF LastRead, LastOf
<1>4. ASSUME NEW i \in 1..n PROVE Fresh(r, n, r[i].day) <=> r[i].day >= r[n].day - IvPlan.maxDays
  <2>1. CASE r[i].day >= r[n].day - IvPlan.maxDays
    <3>1. ASSUME NEW k \in 1..n PROVE r[i].day >= r[k].day - IvPlan.maxDays
      <4>1. r[k].day <= r[n].day /\ r[k].day \in Int /\ r[i].day \in Int /\ r[n].day \in Int /\ IvPlan.maxDays \in Int
        BY <1>0, <1>1, ResearchAssumption
      <4> QED  BY <2>1, <4>1
    <3> QED  BY <2>1, <3>1, Zenon DEF Fresh
  <2>2. CASE ~(r[i].day >= r[n].day - IvPlan.maxDays)
    BY <1>0, <1>1, <2>2, Zenon DEF Fresh
  <2> QED  BY <2>1, <2>2
<1>5. \A i \in S : i \in 1..n /\ LastOf(r, n, r[i].day, i) /\ Fresh(r, n, r[i].day)
  BY <1>3, <1>4, Zenon DEF Recent, LastRead
<1>6. \A i \in 1..n : LastOf(r, n, r[i].day, i) /\ Fresh(r, n, r[i].day) => i \in S
  BY <1>3, <1>4, Zenon DEF Recent
<1> HIDE DEF S
<1>7. ASSUME NEW i \in S, NEW j \in S, r[i].day = r[j].day PROVE i = j
  <2>1. ~(i > j) /\ ~(j > i)
    BY <1>5, <1>7, Zenon DEF LastOf
  <2>2. i \in Int /\ j \in Int
    BY <1>5
  <2> QED  BY <2>1, <2>2
<1>8. \A i \in S : r[i].day \in DOMAIN history
  BY <1>5, Zenon DEF HistoryOf
<1>9. \A i \in S : history[r[i].day] = LevelOf(r, i)
  BY <1>5, <1>8, Zenon DEF HistoryOf
<1>10. \A d \in DOMAIN history : \E i \in S : r[i].day = d
  <2> SUFFICES ASSUME NEW d \in DOMAIN history PROVE \E i \in S : r[i].day = d
    BY Zenon
  <2>1. PICK j \in 1..n : LastOf(r, n, d, j) /\ Fresh(r, n, d)
    BY Zenon DEF HistoryOf
  <2>2. r[j].day = d
    BY <2>1, Zenon DEF LastOf
  <2> QED  BY <1>6, <2>1, <2>2, Zenon
<1>11. IsFiniteSet(S) /\ Cardinality(S) \in Nat /\ n \in S
  <2>1. IsFiniteSet(1..n) /\ S \in SUBSET (1..n)
    BY <1>5, FS_Interval
  <2>2. LastOf(r, n, r[n].day, n)
    <3>1. \A k \in 1..n : ~(k > n)
      OBVIOUS
    <3> QED  BY <1>0, <1>1, <3>1, Zenon DEF LastOf
  <2>3. Fresh(r, n, r[n].day)
    <3>1. r[n].day >= r[n].day - IvPlan.maxDays
      BY <1>0, <1>1, ResearchAssumption
    <3> QED  BY <1>1, <1>4, <3>1
  <2>4. IsFiniteSet(S)
    BY <2>1, FS_Subset
  <2>5. Cardinality(S) \in Nat
    BY <2>4, FS_CardinalityType
  <2> QED  BY <1>1, <1>6, <2>2, <2>3, <2>4, <2>5, Zenon
<1>12. Cardinality(S) # 0
  BY <1>11, FS_EmptySet
<1>13. Cardinality(S) = Cardinality(DOMAIN history)
  <2>1. f \in [S -> DOMAIN history] /\ \A i \in S : f[i] = r[i].day
    BY <1>8
  <2> HIDE DEF f
  <2>2. \A i, j \in S : f[i] = f[j] => i = j
    BY <1>7, <2>1
  <2>3. \A d \in DOMAIN history : \E i \in S : f[i] = d
    BY <1>10, <2>1, Zenon
  <2>4. Matches(f, S, DOMAIN history)
    BY <1>11, <2>1, <2>2, <2>3, Zenon DEF Matches
  <2> QED  BY <2>4, Matched, Zenon
<1>14. Cardinality(SB) = Cardinality(DB) /\ Cardinality(SB) \in Nat
  <2>1. \A i \in SB : i \in S /\ r[i].day \in DB
    BY <1>8, <1>9, Zenon
  <2>2. g \in [SB -> DB] /\ \A i \in SB : g[i] = r[i].day
    BY <2>1
  <2>3. \A d \in DB : \E i \in SB : r[i].day = d
    BY <1>9, <1>10, Zenon
  <2>4. IsFiniteSet(SB)
    BY <1>11, FS_Subset
  <2> HIDE DEF g, SB, DB
  <2>5. \A i, j \in SB : g[i] = g[j] => i = j
    BY <1>7, <2>1, <2>2
  <2>6. \A d \in DB : \E i \in SB : g[i] = d
    BY <2>2, <2>3, Zenon
  <2>7. Matches(g, SB, DB)
    BY <2>2, <2>4, <2>5, <2>6, Zenon DEF Matches
  <2>8. Cardinality(SB) \in Nat
    BY <2>4, FS_CardinalityType
  <2> QED  BY <2>7, <2>8, Matched, Zenon
<1> QED  BY <1>11, <1>12, <1>13, <1>14 DEF S, Counted

LEMMA RankOfLastYear == IvAsked => RankIsOfTheLastYear
<1> DEFINE N == Len(case.days)
           points(i) == Iv!Points(case.chains[i], IvPlan.spot, IvPlan.minInterest)
           r == Readings(case)
           now == Iv!AtmIv(points(N), IvPlan.spot)
           history == Recorded(case)
           rank == Iv!Rank(history, now, IvPlan.minSamples)
<1> SUFFICES ASSUME IvAsked, case.kind = "iv", points(N) # {} PROVE RankIsOfTheLastYear
  BY Zenon DEF RankIsOfTheLastYear
<1>1. PICK n \in Nat \ {0} : case.days \in [1..n -> Int] /\ \A i \in 1..n : i > 1 => case.days[i - 1] <= case.days[i]
  BY Zenon DEF IvAsked
<1>2. N = n /\ DOMAIN case.days = 1..n /\ \A i \in 1..n : case.days[i] \in Int
  <2> DEFINE days == case.days
  <2> HIDE DEF days
  <2>1. days \in [1..n -> Int]
    BY <1>1 DEF days
  <2>2. Len(days) = n /\ DOMAIN days = 1..n /\ \A i \in 1..n : days[i] \in Int
    BY <2>1
  <2> QED  BY <2>2, Zenon DEF days
<1>3. DOMAIN r = 1..n /\ \A i \in 1..n : r[i] = [points |-> points(i), day |-> case.days[i]]
  BY <1>2, Zenon DEF Readings
<1> HIDE DEF r, points
<1>4. \A i \in 1..n : r[i].points = points(i) /\ r[i].day = case.days[i]
  <2> TAKE i \in 1..n
  <2>1. r[i] = [points |-> points(i), day |-> case.days[i]]
    BY <1>3
  <2> QED  BY <2>1
<1>5. n \in Nat /\ n \in 1..n
  OBVIOUS
<1>6. \A i \in 1..n : r[i].day \in Int
  BY <1>2, <1>4
<1>7. \A i \in 1..n : \A k \in 1..i : r[k].day <= r[i].day
  <2>1. \A i \in 1..n : \A k \in 1..i : case.days[k] <= case.days[i]
    BY <1>1, <1>2, <1>5, DaysGoOn
  <2>2. \A i \in 1..n : \A k \in 1..i : k \in 1..n
    OBVIOUS
  <2> QED  BY <1>4, <2>1, <2>2, Zenon
<1>8. HistoryOf(r, n, history)
  <2>1. history = FoldLeft(Keep, << >>, r)
    BY Zenon DEF Recorded, r
  <2> HIDE DEF history
  <2> QED  BY <1>3, <1>5, <1>6, <1>7, <2>1, HistoryIs
<1>9. r[n].points # {}
  BY <1>2, <1>4, <1>5
<1> HIDE DEF history, now
<1> DEFINE DB == {d \in DOMAIN history : Iv!Below(history[d], now)}
           SB == {i \in Recent(r, n) : Iv!Below(LevelOf(r, i), now)}
<1>10. /\ Cardinality(Recent(r, n)) \in Nat \ {0}
       /\ Cardinality(DOMAIN history) = Cardinality(Recent(r, n))
       /\ Cardinality(DB) = Cardinality(SB) /\ Cardinality(SB) \in Nat
  <2>1. InTime(r, n)
    BY <1>6, <1>7, <1>9, Zenon DEF InTime
  <2>2. Counted(r, n, history, now)
    BY <1>8, <2>1, RankIs, Zenon
  <2> QED  BY <2>2, Zenon DEF Counted
<1>11. rank = [known |-> Cardinality(DOMAIN history) >= IvPlan.minSamples,
               below |-> Cardinality(DB), samples |-> Cardinality(DOMAIN history)]
  BY SameIvSizes, Zenon DEF Iv!Rank
<1> HIDE DEF rank, DB, SB
<1>12. (rank.known <=> Cardinality(Recent(r, n)) >= IvPlan.minSamples)
  BY <1>10, <1>11, Zenon
<1>13. rank.samples = Cardinality(Recent(r, n)) /\ rank.below = Cardinality(SB)
  BY <1>10, <1>11
<1>14. ~(Iv!IsRich(rank, 80) /\ Iv!IsCheap(rank, 20))
  <2>1. PICK s \in Nat \ {0} : rank.samples = s
    BY <1>10, <1>13
  <2>2. PICK b : rank.below = b
    OBVIOUS
  <2>3. ~(100 * b >= 80 * s /\ 100 * b <= 20 * s)
    <3>1. b \in Nat
      BY <1>10, <1>13, <2>2
    <3> QED  BY <2>1, <3>1
  <2> QED  BY <2>1, <2>2, <2>3, Zenon DEF Iv!IsRich, Iv!IsCheap
<1> DEFINE read == {i \in 1..n : points(i) # {} /\ \A j \in (i + 1)..n : case.days[j] = case.days[i] => points(j) = {}}
           recent == {i \in read : case.days[i] >= case.days[n] - IvPlan.maxDays}
<1>15. \A i \in 1..n : i \in Recent(r, n) <=> i \in recent
  <2>1. \A i \in 1..n : \A j \in (i + 1)..n : j \in 1..n
    OBVIOUS
  <2> QED  BY <1>4, <1>5, <2>1, Zenon DEF Recent, LastRead
<1>16. Recent(r, n) = recent
  <2>1. Recent(r, n) \subseteq 1..n /\ recent \subseteq 1..n
    BY Zenon DEF Recent, LastRead
  <2> QED  BY <1>15, <2>1, Zenon
<1>17. SB = {i \in recent : Iv!Below(Iv!AtmIv(points(i), IvPlan.spot), now)}
  <2>1. \A i \in Recent(r, n) : LevelOf(r, i) = Iv!AtmIv(points(i), IvPlan.spot)
    BY <1>4, Zenon DEF LevelOf, Recent, LastRead
  <2>2. SB = {i \in Recent(r, n) : Iv!Below(Iv!AtmIv(points(i), IvPlan.spot), now)}
    BY <2>1, Zenon DEF SB
  <2> HIDE DEF recent
  <2> QED  BY <1>16, <2>2, Zenon
<1> QED
  BY <1>2, <1>12, <1>13, <1>14, <1>16, <1>17, Zenon DEF RankIsOfTheLastYear, points, rank, history, now

\* A volatility is ranked against the days of the last year on which there was
\* one, each by its last reading, whatever days the bot missed or read twice,
\* and is never both rich and cheap (IVHistory, iv_surface.py:250-377).
THEOREM RanksAreOfTheLastYear == Spec => []RankIsOfTheLastYear
<1>1. Asked => RankIsOfTheLastYear
  BY RankOfLastYear DEF Asked
<1> QED  BY OnlyAsked, <1>1, PTL

-----------------------------------------------------------------------------
(* The search over the past.                                               *)

LEMMA ReturnIs ==
    ASSUME NEW o, o.entry \in Int, o.exit \in Int, o.entryPremium \in Int, o.exitPremium \in Int
    PROVE  Past!EffectiveReturn(o) \in Int
<1>1. Past!Percent(o.entryPremium, o.exitPremium) \in Int /\ Past!Percent(o.entry, o.exit) \in Int
  BY PercentIs
<1> DEFINE s == IF o.signal.buy THEN 1 ELSE -1
           u == IF o.signal.call = o.signal.buy THEN 1 ELSE -1
           x == Past!Percent(o.entryPremium, o.exitPremium)
           y == Past!Percent(o.entry, o.exit)
<1>2. s \in Int /\ u \in Int
  OBVIOUS
<1>3. Past!EffectiveReturn(o) = IF Past!HasRealPremium(o) THEN s * x ELSE u * y
  BY Zenon DEF Past!EffectiveReturn
<1> HIDE DEF s, u, x, y
<1>4. s * x \in Int /\ u * y \in Int
  BY <1>1, <1>2 DEF x, y
<1> QED  BY <1>3, <1>4, Zenon

\* What any strategy leaves at a bar has a return.
LEMMA OutcomesReturn ==
    ASSUME NEW strategy, NEW closes, NEW premiums, NEW plan, NEW i,
           closes[i] \in Int, closes[i + plan.horizon] \in Int,
           premiums[i].price \in Int, premiums[i + plan.horizon].price \in Int
    PROVE  LET out == Past!OutcomesAt(strategy, closes, premiums, plan, i)
           IN  /\ \E l \in {0, 1} : out = [j \in 1..l |-> out[j]]
               /\ \A j \in DOMAIN out : Past!EffectiveReturn(out[j]) \in Int
<1> DEFINE d == Decide(strategy, Past!Window(closes, i))
           out == Past!OutcomesAt(strategy, closes, premiums, plan, i)
           c == closes[i]
           e == closes[i + plan.horizon]
           p == Past!PremiumOn(premiums, i)
           q == Past!PremiumOn(premiums, i + plan.horizon)
<1>1. out = [j \in DOMAIN d |-> Past!Outcome(d[j], c, e, p, q)]
  BY Zenon DEF Past!OutcomesAt
<1>2. d = <<>> \/ \E s : d = <<s>>
  BY Zenon DEF Decide
<1>3. PICK l \in {0, 1} : DOMAIN d = 1..l
  <2> HIDE DEF d
  <2>1. CASE d = <<>>
    <3>1. DOMAIN <<>> = 1..0
      OBVIOUS
    <3> QED  BY <2>1, <3>1
  <2>2. ASSUME NEW s, d = <<s>> PROVE \E k \in {0, 1} : DOMAIN d = 1..k
    <3>1. DOMAIN <<s>> = 1..1
      OBVIOUS
    <3> QED  BY <2>2, <3>1
  <2> QED  BY <1>2, <2>1, <2>2
<1>4. p \in Int /\ q \in Int
  <2>1. \A x : 0 \in Int /\ (x \in Int => x \in Int)
    OBVIOUS
  <2> QED  BY <2>1, Zenon DEF Past!PremiumOn
<1> HIDE DEF d, c, e, p, q
<1>5. \A s : Past!EffectiveReturn(Past!Outcome(s, c, e, p, q)) \in Int
  <2>1. TAKE s
  <2>2. DEFINE o == Past!Outcome(s, c, e, p, q)
  <2>3. o.entry = c /\ o.exit = e /\ o.entryPremium = p /\ o.exitPremium = q
    BY DEF Past!Outcome
  <2>4. c \in Int /\ e \in Int
    BY DEF c, e
  <2> HIDE DEF o
  <2>5. Past!EffectiveReturn(o) \in Int
    BY <1>4, <2>3, <2>4, ReturnIs
  <2> QED  BY <2>5 DEF o
<1>6. out = [j \in 1..l |-> out[j]] /\ \A j \in DOMAIN out : out[j] = Past!Outcome(d[j], c, e, p, q)
  <2> HIDE DEF out
  <2> QED  BY <1>1, <1>3, Zenon
<1> QED  BY <1>3, <1>5, <1>6, Zenon

\* What a search replays has a return for each outcome, whatever the strategy.
LEMMA ReplayReturns ==
    ASSUME NEW strategy, NEW n \in Nat, NEW closes, NEW premiums, Len(closes) = n,
           \A i \in 1..n : closes[i] \in Int /\ premiums[i].price \in Int
    PROVE  Past!Returns(Past!Replay(strategy, closes, premiums, FoldPlan)) \in Seq(Int)
<1>1. PICK d \in Nat \ {0}, w \in Nat, h \in Nat : d = FoldPlan.step /\ w = FoldPlan.warmup /\ h = FoldPlan.horizon
  BY FoldAssumption
<1> DEFINE entries == Past!Entries(n, FoldPlan)
           M == (n - h - w + d - 1) \div d
           N == IF M > 0 THEN M ELSE 0
           seq == [k \in DOMAIN entries |-> Past!OutcomesAt(strategy, closes, premiums, FoldPlan, entries[k])]
           S == UNION {{seq[k][j] : j \in DOMAIN seq[k]} : k \in 1..N}
<1>2. M \in Int
  <2>1. 1 \in Nat \ {0}
    OBVIOUS
  <2> QED  BY <2>1, StepFits
<1>3. DOMAIN entries = 1..M /\ \A k \in 1..M : entries[k] = w + 1 + (k - 1) * d
  BY <1>1, Zenon DEF Past!Entries
<1>4. N \in Nat /\ 1..N = 1..M
  BY <1>2
<1> HIDE DEF N, M
<1>5. ASSUME NEW k \in 1..M PROVE entries[k] \in 1..n /\ entries[k] + FoldPlan.horizon \in 1..n
  <2>1. k \in Nat \ {0} /\ k <= M
    BY <1>2
  <2>2. w + 1 + (k - 1) * d + h <= n /\ (k - 1) * d \in Nat
    BY <2>1, StepFits DEF M
  <2>3. PICK y \in Nat : y = (k - 1) * d
    BY <2>2
  <2> HIDE DEF entries
  <2>4. entries[k] = w + 1 + y /\ w + 1 + y + h <= n
    BY <1>3, <2>2, <2>3
  <2>5. w + 1 + y \in 1..n /\ w + 1 + y + h \in 1..n
    BY <2>4
  <2>6. entries[k] = w + 1 + y /\ FoldPlan.horizon = h
    BY <1>1, <2>4
  <2> QED  BY <2>5, <2>6, Zenon
<1>6. DOMAIN seq = 1..N /\ \A k \in 1..N : seq[k] = Past!OutcomesAt(strategy, closes, premiums, FoldPlan, entries[k])
  BY <1>3, <1>4, Zenon
<1>7. Past!Replay(strategy, closes, premiums, FoldPlan) = Joins!FoldLeft(Join, <<>>, seq)
  <2>1. Past!Replay(strategy, closes, premiums, FoldPlan) = Past!FoldLeft(\o, <<>>, seq)
    BY Zenon DEF Past!Replay
  <2> QED  BY <2>1, FoldedIsJoined
<1> HIDE DEF seq, entries
<1>8. ASSUME NEW k \in 1..N
      PROVE  /\ \E l \in {0, 1} : seq[k] = [j \in 1..l |-> seq[k][j]]
             /\ \A j \in DOMAIN seq[k] : Past!EffectiveReturn(seq[k][j]) \in Int
  <2>1. /\ closes[entries[k]] \in Int /\ closes[entries[k] + FoldPlan.horizon] \in Int
        /\ premiums[entries[k]].price \in Int /\ premiums[entries[k] + FoldPlan.horizon].price \in Int
    BY <1>4, <1>5
  <2>2. LET out == Past!OutcomesAt(strategy, closes, premiums, FoldPlan, entries[k])
        IN  /\ \E l \in {0, 1} : out = [j \in 1..l |-> out[j]]
            /\ \A j \in DOMAIN out : Past!EffectiveReturn(out[j]) \in Int
    BY <2>1, OutcomesReturn
  <2> QED  BY <1>6, <2>2, Zenon
<1>9. \A k \in 1..N : \A j \in DOMAIN seq[k] : seq[k][j] \in S
  OBVIOUS
<1>10. \A o \in S : Past!EffectiveReturn(o) \in Int
  <2>1. \A k \in 1..N : \A j \in DOMAIN seq[k] : Past!EffectiveReturn(seq[k][j]) \in Int
    BY <1>8
  <2>2. \A o \in S : \E k \in 1..N : \E j \in DOMAIN seq[k] : o = seq[k][j]
    OBVIOUS
  <2> HIDE DEF S
  <2> QED  BY <2>1, <2>2
<1> HIDE DEF S
<1>11. ASSUME NEW k \in 1..N PROVE seq[k] \in Seq(S)
  <2>1. PICK l \in {0, 1} : seq[k] = [j \in 1..l |-> seq[k][j]]
    BY <1>8
  <2>2. DOMAIN seq[k] = 1..l /\ l \in Nat
    BY <2>1
  <2>3. [j \in 1..l |-> seq[k][j]] \in [1..l -> S]
    BY <1>9, <2>2
  <2>4. \A f \in [1..l -> S] : f \in Seq(S)
    BY <2>2
  <2> QED  BY <2>1, <2>3, <2>4
<1>12. PICK acc : Joins!Walk(acc, <<>>, seq, N) /\ Joins!FoldLeft(Join, <<>>, seq) = acc[N]
  <2>1. N \in Nat /\ DOMAIN seq = 1..N
    BY <1>4, <1>6
  <2> QED  BY <2>1, Joins!FoldLeftWalks, Zenon
<1>13. acc[N] \in Seq(S)
  <2>1. N \in 0..N /\ \A k \in (N + 1)..N : FALSE
    BY <1>4
  <2>2. Divided(N, N, seq, S, S, acc)
    BY <1>4, <1>11, <1>12, <2>1, Zenon DEF Divided
  <2> QED  BY <2>2, JoinedInOrder, Zenon DEF Ordered
<1> DEFINE outcomes == acc[N]
<1>14. Past!Returns(outcomes) \in Seq(Int)
  <2>1. outcomes \in Seq(S)
    BY <1>13
  <2> HIDE DEF outcomes
  <2>2. Len(outcomes) \in Nat /\ DOMAIN outcomes = 1..Len(outcomes) /\ \A k \in DOMAIN outcomes : outcomes[k] \in S
    BY <2>1
  <2>3. Past!Returns(outcomes) = [k \in 1..Len(outcomes) |-> Past!EffectiveReturn(outcomes[k])]
    BY <2>2, Zenon DEF Past!Returns
  <2>4. [k \in 1..Len(outcomes) |-> Past!EffectiveReturn(outcomes[k])] \in [1..Len(outcomes) -> Int]
    BY <1>10, <2>2
  <2>5. \A f \in [1..Len(outcomes) -> Int] : f \in Seq(Int)
    BY <2>2
  <2> QED  BY <2>3, <2>4, <2>5
<1> QED  BY <1>7, <1>12, <1>14

-----------------------------------------------------------------------------
(* Means, as fractions.                                                    *)
Fractions == Int \X (Nat \ {0})
PlusOf(a, b) == Past!Plus(a, b)
Means == INSTANCE SequenceFacts WITH Op <- PlusOf

LEMMA FractionIs ==
    ASSUME NEW f \in Fractions
    PROVE  /\ f[1] \in Int /\ f[2] \in Int /\ f[2] > 0
           /\ \E a \in Int, b \in Nat \ {0} : f[1] = a /\ f[2] = b
  BY DEF Fractions

LEMMA PlusIs ==
    ASSUME NEW f \in Fractions, NEW g \in Fractions
    PROVE  Past!Plus(f, g) \in Fractions
<1>1. PICK a \in Int, b \in Nat \ {0} : f[1] = a /\ f[2] = b
  BY FractionIs
<1>2. PICK c \in Int, d \in Nat \ {0} : g[1] = c /\ g[2] = d
  BY FractionIs
<1>3. a * d + c * b \in Int /\ b * d \in Nat \ {0}
  OBVIOUS
<1>4. Past!Plus(f, g) = <<a * d + c * b, b * d>>
  BY <1>1, <1>2, Zenon DEF Past!Plus
<1> QED  BY <1>3, <1>4 DEF Fractions

LEMMA LessIs ==
    ASSUME NEW f \in Fractions, NEW g \in Fractions, NEW h \in Fractions
    PROVE  /\ ~Past!Less(f, f)
           /\ Past!Less(f, g) => ~Past!Less(g, f)
           /\ ~Past!Less(f, g) /\ ~Past!Less(g, h) => ~Past!Less(f, h)
<1>1. PICK a \in Int, b \in Nat \ {0} : f[1] = a /\ f[2] = b
  BY FractionIs
<1>2. PICK c \in Int, d \in Nat \ {0} : g[1] = c /\ g[2] = d
  BY FractionIs
<1>3. PICK m \in Int, n \in Nat \ {0} : h[1] = m /\ h[2] = n
  BY FractionIs
<1>4. /\ Past!Less(f, f) <=> a * b < a * b
      /\ Past!Less(f, g) <=> a * d < c * b
      /\ Past!Less(g, f) <=> c * b < a * d
      /\ Past!Less(g, h) <=> c * n < m * d
      /\ Past!Less(f, h) <=> a * n < m * b
  BY <1>1, <1>2, <1>3, Zenon DEF Past!Less
<1>5. a * b \in Int /\ a * d \in Int /\ c * b \in Int /\ c * n \in Int /\ m * d \in Int /\ a * n \in Int /\ m * b \in Int
  OBVIOUS
<1>6. ASSUME a * d >= c * b, c * n >= m * d PROVE a * n >= m * b
  <2>1. (a * d) * n >= (c * b) * n
    <3>1. PICK x \in Int, y \in Int : x = a * d /\ y = c * b
      OBVIOUS
    <3>2. x >= y
      BY <1>6, <3>1
    <3>3. x * n >= y * n
      BY <3>2
    <3> QED  BY <3>1, <3>3
  <2>2. (c * n) * b >= (m * d) * b
    <3>1. PICK x \in Int, y \in Int : x = c * n /\ y = m * d
      OBVIOUS
    <3>2. x >= y
      BY <1>6, <3>1
    <3>3. x * b >= y * b
      BY <3>2
    <3> QED  BY <3>1, <3>3
  <2>3. PICK p \in Int, q \in Int : p = a * n /\ q = m * b
    OBVIOUS
  <2>4. /\ (a * d) * n = p * d /\ (m * d) * b = q * d
        /\ (c * b) * n = (c * n) * b
        /\ (c * b) * n \in Int
    BY <2>3
  <2>5. p * d >= q * d /\ p * d \in Int /\ q * d \in Int
    BY <2>1, <2>2, <2>4
  <2>6. ASSUME p < q PROVE FALSE
    <3>1. PICK e \in Nat \ {0} : q = p + e
      <4>1. q - p \in Nat \ {0} /\ q = p + (q - p)
        BY <2>6
      <4> QED  BY <4>1
    <3>2. q * d = p * d + e * d /\ e * d \in Nat \ {0}
      BY <3>1
    <3> QED  BY <2>5, <3>2
  <2> QED  BY <2>3, <2>6
<1>7. /\ ~(a * b < a * b)
      /\ a * d < c * b => ~(c * b < a * d)
      /\ ~(a * d < c * b) /\ ~(c * n < m * d) => ~(a * n < m * b)
  <2>1. PICK p \in Int, q \in Int, r \in Int, s \in Int, t \in Int, u \in Int, v \in Int :
           p = a * b /\ q = a * d /\ r = c * b /\ s = c * n /\ t = m * d /\ u = a * n /\ v = m * b
    BY <1>5
  <2>2. q >= r /\ s >= t => u >= v
    BY <1>6, <2>1
  <2>3. ~(p < p) /\ (q < r => ~(r < q)) /\ (~(q < r) /\ ~(s < t) => ~(u < v))
    BY <2>2
  <2> QED  BY <2>1, <2>3, Zenon
<1> QED  BY <1>4, <1>7, Zenon

\* What the search has of a combination: the returns of each of its n tests.
HasTests(results, n) == DOMAIN results = 1..n /\ \A k \in 1..n : results[k].test \in Seq(Int)

LEMMA PastSize == \A S : Past!Cardinality(S) = Cardinality(S)
  BY Zenon DEF Past!Cardinality, Cardinality

LEMMA UsableTests ==
    ASSUME NEW results, NEW n \in Nat, HasTests(results, n)
    PROVE  /\ Past!Usable(results, 1) \subseteq 1..n
           /\ Past!Cardinality(Past!Usable(results, 1)) \in Nat
           /\ Past!Cardinality(Past!Usable(results, 1)) > 0 <=> Past!Usable(results, 1) # {}
           /\ \A k \in Past!Usable(results, 1) : Len(results[k].test) \in Nat \ {0}
<1> DEFINE U == Past!Usable(results, 1)
<1>1. U \subseteq 1..n
  BY Zenon DEF Past!Usable, HasTests
<1>2. IsFiniteSet(U)
  BY <1>1, FS_Interval, FS_Subset
<1>3. Cardinality(U) \in Nat /\ (Cardinality(U) = 0 <=> U = {})
  BY <1>2, FS_CardinalityType, FS_EmptySet
<1>4. ASSUME NEW k \in U PROVE Len(results[k].test) \in Nat \ {0}
  <2>1. Len(results[k].test) >= 1
    BY DEF Past!Usable, Past!IsUsable
  <2>2. results[k].test \in Seq(Int)
    BY <1>1 DEF HasTests
  <2> QED  BY <2>1, <2>2
<1> HIDE DEF U
<1>5. Cardinality(U) \in Nat /\ (Cardinality(U) > 0 <=> U # {})
  BY <1>3
<1> QED  BY <1>1, <1>4, <1>5, PastSize DEF U

LEMMA ExpectancyIs ==
    ASSUME NEW results, NEW n \in Nat, HasTests(results, n)
    PROVE  Past!TestExpectancy(results, 1) \in Fractions
<1> DEFINE U == Past!Usable(results, 1)
           seq == [k \in DOMAIN results |-> IF k \in U THEN <<Past!Sum(results[k].test), Len(results[k].test)>> ELSE <<0, 1>>]
<1>1. Past!TestExpectancy(results, 1) = Means!FoldLeft(PlusOf, <<0, 1>>, seq)
  BY Zenon DEF Past!TestExpectancy, Past!FoldLeft, Means!FoldLeft, Past!MapThenFoldSet, Means!MapThenFoldSet, Past!Max, Means!Max, PlusOf
<1>2. <<0, 1>> \in Fractions
  BY DEF Fractions
<1>3. ASSUME NEW k \in U PROVE <<Past!Sum(results[k].test), Len(results[k].test)>> \in Fractions
  <2>1. k \in 1..n /\ Len(results[k].test) \in Nat \ {0}
    BY UsableTests
  <2>2. results[k].test \in Seq(Int)
    BY <2>1 DEF HasTests
  <2>3. Past!Sum(results[k].test) \in Int
    <3>1. PICK l \in Nat : l = Len(results[k].test)
      BY <2>1
    <3> QED  BY <2>2, <3>1, GainsAndLosses
  <2> QED  BY <2>1, <2>3 DEF Fractions
<1> HIDE DEF U
<1>4. DOMAIN seq = 1..n /\ \A k \in 1..n : seq[k] \in Fractions
  BY <1>2, <1>3, Zenon DEF HasTests
<1> HIDE DEF seq
<1>5. PICK acc : Means!Walk(acc, <<0, 1>>, seq, n) /\ Means!FoldLeft(PlusOf, <<0, 1>>, seq) = acc[n]
  <2>1. n \in Nat /\ DOMAIN seq = 1..n
    BY <1>4
  <2> QED  BY <2>1, Means!FoldLeftWalks, Zenon
<1> DEFINE A == {i \in 0..n : acc[i] \in Fractions}
<1>6. 0 \in A
  <2>1. acc[0] = <<0, 1>> /\ 0 \in 0..n
    BY <1>5 DEF Means!Walk
  <2> QED  BY <1>2, <2>1
<1>7. ASSUME NEW i \in 0..(n - 1), i \in A PROVE i + 1 \in A
  <2>1. i + 1 \in 1..n /\ i + 1 \in 0..n /\ (i + 1) - 1 = i
    OBVIOUS
  <2>2. acc[i + 1] = Past!Plus(acc[i], seq[i + 1])
    BY <1>5, <2>1 DEF Means!Walk, PlusOf
  <2>3. acc[i] \in Fractions /\ seq[i + 1] \in Fractions
    BY <1>4, <1>7, <2>1
  <2>4. acc[i + 1] \in Fractions
    BY <2>2, <2>3, PlusIs
  <2> QED  BY <2>1, <2>4
<1>8. n \in A
  <2>1. n \in 0..n
    OBVIOUS
  <2> HIDE DEF A
  <2>2. \A i \in 0..n : i \in A
    BY <1>6, <1>7, Means!UpTo
  <2> QED  BY <2>1, <2>2
<1> QED  BY <1>1, <1>5, <1>8

LEMMA MeanIs ==
    ASSUME NEW results, NEW n \in Nat, HasTests(results, n), Past!Usable(results, 1) # {}
    PROVE  Past!MeanExpectancy(results, 1) \in Fractions
<1>1. PICK a \in Int, b \in Nat \ {0} :
         Past!TestExpectancy(results, 1)[1] = a /\ Past!TestExpectancy(results, 1)[2] = b
  BY ExpectancyIs, FractionIs
<1>2. PICK c \in Nat \ {0} : c = Past!Cardinality(Past!Usable(results, 1))
  BY UsableTests
<1>3. Past!MeanExpectancy(results, 1) = <<a, b * c>>
  BY <1>1, <1>2, Zenon DEF Past!MeanExpectancy
<1>4. b * c \in Nat \ {0}
  OBVIOUS
<1> QED  BY <1>3, <1>4 DEF Fractions

-----------------------------------------------------------------------------
(* The ranking of the combinations.                                        *)

\* What comes first by rank, and then by position, is a strict order.
LEMMA RanksAreStrict ==
    ASSUME NEW S \in SUBSET Int, NEW A, NEW before,
           \A i \in S : <<i, i>> \notin A,
           \A i, j \in S : <<i, j>> \in A => <<j, i>> \notin A,
           \A i, j, k \in S : <<i, j>> \notin A /\ <<j, k>> \notin A => <<i, k>> \notin A,
           \A i, j \in S : <<i, j>> \in before <=> <<i, j>> \in A \/ (<<j, i>> \notin A /\ i < j)
    PROVE  IsStrict(S, before)
<1>1. /\ \A i \in S : i \in Int /\ ~(i < i)
      /\ \A i, j \in S : i # j => i < j \/ j < i
  OBVIOUS
<1>2. \A i \in S : <<i, i>> \notin before
  BY <1>1, Zenon
<1>3. \A i, j \in S : i # j => <<i, j>> \in before \/ <<j, i>> \in before
  BY <1>1, Zenon
<1>4. ASSUME NEW i \in S, NEW j \in S, NEW k \in S, <<i, j>> \in before, <<j, k>> \in before
      PROVE  <<i, k>> \in before
  <2>1. <<j, i>> \notin A /\ <<k, j>> \notin A
    BY <1>4
  <2>2. <<k, i>> \notin A
    BY <2>1
  <2>3. CASE <<i, j>> \in A \/ <<j, k>> \in A
    <3>1. <<i, k>> \in A
      BY <2>1, <2>3
    <3> QED  BY <3>1
  <2>4. CASE <<i, j>> \notin A /\ <<j, k>> \notin A
    <3>1. i < j /\ j < k
      BY <1>4, <2>4
    <3>2. i < k
      BY <1>1, <3>1
    <3> QED  BY <2>2, <3>2
  <2> QED  BY <2>3, <2>4
<1> QED  BY <1>2, <1>3, <1>4, Zenon DEF IsStrict

LEMMA OutranksIs ==
    ASSUME NEW n \in Nat, NEW a, NEW b, NEW c, HasTests(a, n), HasTests(b, n), HasTests(c, n)
    PROVE  /\ ~Past!Outranks(a, a, 1)
           /\ Past!Outranks(a, b, 1) => ~Past!Outranks(b, a, 1)
           /\ ~Past!Outranks(a, b, 1) /\ ~Past!Outranks(b, c, 1) => ~Past!Outranks(a, c, 1)
<1> DEFINE Has(r) == Past!Usable(r, 1) # {}
           Mean(r) == Past!MeanExpectancy(r, 1)
<1>1. \A r, s : Past!Outranks(r, s, 1) <=> Has(r) /\ (Has(s) => Past!Less(Mean(s), Mean(r)))
  BY Zenon DEF Past!Outranks
<1>2. /\ Has(a) => Mean(a) \in Fractions
      /\ Has(b) => Mean(b) \in Fractions
      /\ Has(c) => Mean(c) \in Fractions
  BY MeanIs
<1> HIDE DEF Has, Mean
<1>3. Has(a) => ~Past!Less(Mean(a), Mean(a))
  BY <1>2, LessIs
<1>4. Has(a) /\ Has(b) => ~(Past!Less(Mean(b), Mean(a)) /\ Past!Less(Mean(a), Mean(b)))
  BY <1>2, LessIs
<1>5. Has(a) /\ Has(b) /\ Has(c) /\ ~Past!Less(Mean(c), Mean(b)) /\ ~Past!Less(Mean(b), Mean(a))
         => ~Past!Less(Mean(c), Mean(a))
  BY <1>2, LessIs
<1> QED  BY <1>1, <1>3, <1>4, <1>5, Zenon

LEMMA OrderedInPast == \A S, before : Past!InOrder(S, before) = InOrder(S, before)
  BY Zenon DEF Past!InOrder, InOrder, Past!Cardinality, Cardinality

LEMMA RankedIs ==
    ASSUME NEW n \in Nat, NEW m \in Nat, NEW e, DOMAIN e = 1..m, \A c \in 1..m : HasTests(e[c], n)
    PROVE  LET ranked == Past!Ranked(e, 1)
           IN  /\ DOMAIN ranked = 1..m /\ \A k \in 1..m : ranked[k] \in 1..m
               /\ \A c \in 1..m : \E k \in 1..m : ranked[k] = c
               /\ \A k, l \in 1..m : k < l => \/ Past!Outranks(e[ranked[k]], e[ranked[l]], 1)
                                              \/ ~Past!Outranks(e[ranked[l]], e[ranked[k]], 1)
<1> DEFINE S == 1..m
           A == {x \in S \X S : Past!Outranks(e[x[1]], e[x[2]], 1)}
           before == {x \in S \X S : \/ Past!Outranks(e[x[1]], e[x[2]], 1)
                                     \/ ~Past!Outranks(e[x[2]], e[x[1]], 1) /\ x[1] < x[2]}
           ranked == Past!Ranked(e, 1)
<1>1. ranked = InOrder(S, before)
  <2>1. ranked = Past!InOrder(S, before)
    BY Zenon DEF Past!Ranked
  <2> QED  BY <2>1, OrderedInPast, Zenon
<1>2. \A i, j \in S : /\ <<i, j>> \in A <=> Past!Outranks(e[i], e[j], 1)
                      /\ <<i, j>> \in before <=> \/ Past!Outranks(e[i], e[j], 1)
                                                 \/ ~Past!Outranks(e[j], e[i], 1) /\ i < j
  OBVIOUS
<1> HIDE DEF A, before, ranked
<1>3. IsStrict(S, before)
  <2>1. \A i, j, k \in S : /\ ~Past!Outranks(e[i], e[i], 1)
                           /\ Past!Outranks(e[i], e[j], 1) => ~Past!Outranks(e[j], e[i], 1)
                           /\ ~Past!Outranks(e[i], e[j], 1) /\ ~Past!Outranks(e[j], e[k], 1)
                                 => ~Past!Outranks(e[i], e[k], 1)
    BY OutranksIs
  <2>2. S \in SUBSET Int
    OBVIOUS
  <2> HIDE DEF S
  <2>3. /\ \A i \in S : <<i, i>> \notin A
        /\ \A i, j \in S : <<i, j>> \in A => <<j, i>> \notin A
        /\ \A i, j, k \in S : <<i, j>> \notin A /\ <<j, k>> \notin A => <<i, k>> \notin A
    BY <1>2, <2>1, Zenon
  <2>4. \A i, j \in S : <<i, j>> \in before <=> <<i, j>> \in A \/ (<<j, i>> \notin A /\ i < j)
    BY <1>2, Zenon
  <2> QED  BY <2>2, <2>3, <2>4, RanksAreStrict
<1>4. IsFiniteSet(S) /\ Cardinality(S) = m
  BY FS_Interval
<1>5. IsOrdered(S, before, ranked)
  BY <1>1, <1>3, <1>4, OrderIs
<1>6. /\ DOMAIN ranked = 1..m /\ \A k \in 1..m : ranked[k] \in 1..m
      /\ \A c \in 1..m : \E k \in 1..m : ranked[k] = c
      /\ \A k, l \in 1..m : k < l => <<ranked[k], ranked[l]>> \in before
  BY <1>4, <1>5, Zenon DEF IsOrdered, S
<1>7. \A k, l \in 1..m : k < l => \/ Past!Outranks(e[ranked[k]], e[ranked[l]], 1)
                                  \/ ~Past!Outranks(e[ranked[l]], e[ranked[k]], 1)
  BY <1>2, <1>6, Zenon DEF S
<1> QED  BY <1>6, <1>7 DEF ranked

\* The best is a robust combination, and none is better.
LEMMA BestIs ==
    ASSUME NEW n \in Nat, NEW m \in Nat, NEW e, DOMAIN e = 1..m, \A c \in 1..m : HasTests(e[c], n)
    PROVE  LET best == Past!Best(e, 1)
           IN  /\ best = <<>> <=> \A c \in 1..m : ~Past!IsRobust(e[c], 1)
               /\ \A c \in 1..m : Past!IsRobust(e[c], 1) =>
                     ~Past!Less(Past!MeanExpectancy(e[Head(best)], 1), Past!MeanExpectancy(e[c], 1))
<1> DEFINE ranked == Past!Ranked(e, 1)
           robust == {k \in DOMAIN ranked : Past!IsRobust(e[ranked[k]], 1)}
           best == Past!Best(e, 1)
           first == Past!Min(robust)
           Mean(c) == Past!MeanExpectancy(e[c], 1)
<1>1. /\ DOMAIN ranked = 1..m /\ \A k \in 1..m : ranked[k] \in 1..m
      /\ \A c \in 1..m : \E k \in 1..m : ranked[k] = c
      /\ \A k, l \in 1..m : k < l => \/ Past!Outranks(e[ranked[k]], e[ranked[l]], 1)
                                     \/ ~Past!Outranks(e[ranked[l]], e[ranked[k]], 1)
  BY RankedIs
<1>2. best = IF robust = {} THEN <<>> ELSE <<ranked[first]>>
  BY Zenon DEF Past!Best
<1> HIDE DEF ranked, best
<1>3. robust = {} <=> \A c \in 1..m : ~Past!IsRobust(e[c], 1)
  BY <1>1, Zenon
<1>4. robust # {} => first \in robust /\ \A k \in robust : first <= k
  <2>1. robust \in SUBSET Nat
    BY <1>1
  <2>2. robust # {} => \E x \in robust : \A y \in robust : x <= y
    BY <2>1, SmallestIsThere
  <2> HIDE DEF robust
  <2> QED  BY <2>2 DEF Past!Min
<1>5. \A x : <<x>> # <<>> /\ Head(<<x>>) = x
  OBVIOUS
<1>6. best = <<>> <=> robust = {}
  BY <1>2, <1>5, Zenon
<1>7. ASSUME NEW c \in 1..m, Past!IsRobust(e[c], 1)
      PROVE  ~Past!Less(Mean(Head(best)), Mean(c))
  <2>1. PICK l \in 1..m : ranked[l] = c
    BY <1>1
  <2>2. l \in robust /\ robust # {}
    BY <1>1, <1>7, <2>1
  <2>3. first \in 1..m /\ first <= l /\ Past!IsRobust(e[ranked[first]], 1)
    BY <1>1, <1>4, <2>2
  <2>4. Head(best) = ranked[first]
    BY <1>2, <1>5, <2>2, Zenon
  <2> DEFINE b == ranked[first]
  <2>5. b \in 1..m /\ HasTests(e[b], n) /\ HasTests(e[c], n) /\ Past!IsRobust(e[b], 1)
    BY <1>1, <2>3
  <2>6. \A x \in 1..m : Past!IsRobust(e[x], 1) => Past!Usable(e[x], 1) # {} /\ Mean(x) \in Fractions
    <3> SUFFICES ASSUME NEW x \in 1..m, Past!IsRobust(e[x], 1)
                 PROVE  Past!Usable(e[x], 1) # {} /\ Mean(x) \in Fractions
      OBVIOUS
    <3>1. HasTests(e[x], n)
      OBVIOUS
    <3>2. Past!Cardinality(Past!Usable(e[x], 1)) >= 2
      BY Zenon DEF Past!IsRobust
    <3>3. Past!Usable(e[x], 1) # {}
      BY <3>1, <3>2, UsableTests
    <3> QED  BY <3>1, <3>3, MeanIs
  <2> HIDE DEF Mean, robust, first
  <2>7. CASE first = l
    <3>1. ~Past!Less(Mean(c), Mean(c))
      BY <1>7, <2>6, LessIs
    <3> QED  BY <2>1, <2>4, <2>7, <3>1
  <2>8. CASE first < l
    <3>1. \/ Past!Outranks(e[b], e[c], 1)
          \/ ~Past!Outranks(e[c], e[b], 1)
      BY <1>1, <2>1, <2>3, <2>8
    <3>2. Mean(b) \in Fractions /\ Mean(c) \in Fractions /\ Past!Usable(e[b], 1) # {} /\ Past!Usable(e[c], 1) # {}
      BY <1>7, <2>5, <2>6
    <3>3. Past!Less(Mean(c), Mean(b)) \/ ~Past!Less(Mean(b), Mean(c))
      BY <3>1, <3>2, Zenon DEF Past!Outranks, Mean
    <3>4. Past!Less(Mean(c), Mean(b)) => ~Past!Less(Mean(b), Mean(c))
      BY <3>2, LessIs
    <3>5. ~Past!Less(Mean(b), Mean(c))
      BY <3>3, <3>4, Zenon
    <3> QED  BY <2>4, <3>5
  <2>9. first = l \/ first < l
    BY <2>3
  <2> QED  BY <2>7, <2>8, <2>9
<1> QED  BY <1>3, <1>6, <1>7, Zenon DEF best, Mean

-----------------------------------------------------------------------------
(* The folds.                                                              *)

\* run gives up when the history is too short for a fold (walk_forward.py:281).
HistorySuffices == FoldPlan.train + FoldPlan.test <= Bars
AllFolds == Past!Folds(Bars, FoldPlan.train, FoldPlan.test, FoldPlan.test)
FoldCount == (Bars - FoldPlan.train - FoldPlan.test) \div FoldPlan.test + 1

LEMMA FoldsFollow ==
    ASSUME HistorySuffices
    PROVE  /\ FoldCount \in Nat \ {0} /\ DOMAIN AllFolds = 1..FoldCount /\ AllFolds # <<>>
           /\ \A k \in 1..FoldCount :
                 /\ AllFolds[k].trainStart \in Nat /\ AllFolds[k].trainEnd \in Nat /\ AllFolds[k].testEnd \in Nat
                 /\ AllFolds[k].trainStart < AllFolds[k].trainEnd /\ AllFolds[k].trainEnd < AllFolds[k].testEnd
                 /\ AllFolds[k].testEnd <= Bars
           /\ \A j, k \in 1..FoldCount : j < k => AllFolds[j].testEnd <= AllFolds[k].trainEnd
<1>1. PICK t \in Nat \ {0}, r \in Nat \ {0}, b \in Nat : t = FoldPlan.test /\ r = FoldPlan.train /\ b = Bars
  BY FoldAssumption, ResearchAssumption
<1>2. PICK a \in Nat : a = b - r - t
  BY <1>1 DEF HistorySuffices
<1>3. FoldCount = a \div t + 1
  BY <1>1, <1>2 DEF FoldCount
<1>4. a \div t \in Int /\ \A i \in Int : i <= a \div t <=> i * t <= a
  BY <1>2, Quotient
<1>5. FoldCount \in Nat \ {0}
  <2>1. 0 \in Int /\ 0 * t <= a
    OBVIOUS
  <2>2. 0 <= a \div t
    BY <1>4, <2>1
  <2> QED  BY <1>3, <1>4, <2>2
<1>6. /\ DOMAIN AllFolds = 1..FoldCount
      /\ \A k \in 1..FoldCount : /\ AllFolds[k].trainStart = (k - 1) * t
                                 /\ AllFolds[k].trainEnd = (k - 1) * t + r
                                 /\ AllFolds[k].testEnd = (k - 1) * t + r + t
  <2>1. AllFolds = [k \in 1..FoldCount |->
                       LET start == (k - 1) * t
                       IN  [trainStart |-> start, trainEnd |-> start + r, testEnd |-> start + r + t]]
    BY <1>1, Zenon DEF AllFolds, Past!Folds, FoldCount
  <2> QED  BY <2>1
<1>7. AllFolds # <<>>
  <2>1. 1 \in DOMAIN AllFolds
    BY <1>5, <1>6
  <2>2. DOMAIN <<>> = {}
    OBVIOUS
  <2> QED  BY <2>1, <2>2
<1>8. ASSUME NEW k \in 1..FoldCount
      PROVE  /\ AllFolds[k].trainStart \in Nat /\ AllFolds[k].trainEnd \in Nat /\ AllFolds[k].testEnd \in Nat
             /\ AllFolds[k].trainStart < AllFolds[k].trainEnd /\ AllFolds[k].trainEnd < AllFolds[k].testEnd
             /\ AllFolds[k].testEnd <= Bars
  <2>1. k - 1 \in Nat /\ k - 1 <= a \div t
    BY <1>3, <1>4, <1>5
  <2>2. PICK y \in Nat : y = (k - 1) * t
    BY <2>1
  <2>3. y <= a
    BY <1>4, <2>1, <2>2
  <2>4. AllFolds[k].trainStart = y /\ AllFolds[k].trainEnd = y + r /\ AllFolds[k].testEnd = y + r + t
    BY <1>6, <2>2
  <2>5. y + r \in Nat /\ y + r + t \in Nat /\ y < y + r /\ y + r < y + r + t /\ y + r + t <= b
    BY <1>2, <2>3
  <2> QED  BY <1>1, <2>4, <2>5, Zenon
<1>9. ASSUME NEW j \in 1..FoldCount, NEW k \in 1..FoldCount, j < k
      PROVE  AllFolds[j].testEnd <= AllFolds[k].trainEnd
  <2>1. PICK d \in Nat : k - 1 = (j - 1) + 1 + d
    <3>1. k - j - 1 \in Nat /\ k - 1 = (j - 1) + 1 + (k - j - 1)
      BY <1>5, <1>9
    <3> QED  BY <3>1
  <2>2. PICK i \in Nat : i = j - 1
    BY <1>5
  <2>3. (i + 1 + d) * t = i * t + t + d * t /\ d * t \in Nat /\ i * t \in Nat
    OBVIOUS
  <2>4. i * t + r + t <= (i + 1 + d) * t + r
    BY <2>3
  <2>5. AllFolds[j].testEnd = i * t + r + t /\ AllFolds[k].trainEnd = (i + 1 + d) * t + r
    BY <1>6, <2>1, <2>2
  <2> QED  BY <2>4, <2>5
<1> QED  BY <1>5, <1>6, <1>7, <1>8, <1>9

-----------------------------------------------------------------------------
OverBars(f) == f = [i \in 1..Bars |-> f[i]]

\* The tests of a combination over a history of numbers.
Valued(closes, premiums) ==
    /\ OverBars(closes) /\ OverBars(premiums)
    /\ \A i \in 1..Bars : closes[i] \in Int /\ premiums[i].price \in Int

Sliced(f, a, b) == SubSeq(f, a, b) = [i \in 1..(b - a + 1) |-> f[i + a - 1]]

\* A slice is all that is within its bars.
LEMMA SliceIs ==
    ASSUME NEW f, OverBars(f), NEW a \in 1..Bars, NEW b \in 1..Bars, a <= b
    PROVE  Sliced(f, a, b)
<1> DEFINE X == {f[i] : i \in 1..Bars}
<1>1. Bars \in Nat
  BY ResearchAssumption
<1>2. f \in [1..Bars -> X]
  BY DEF OverBars
<1> HIDE DEF X
<1>3. f \in Seq(X) /\ Len(f) = Bars
  BY <1>1, <1>2
<1> QED  BY <1>1, <1>2, <1>3 DEF Sliced

\* The test of a fold is bars of the history.
LEMMA TestBarsAre ==
    ASSUME HistorySuffices, NEW k \in 1..FoldCount
    PROVE  \E a \in 1..Bars, b \in 1..Bars : a <= b /\ a = AllFolds[k].trainEnd + 1 /\ b = AllFolds[k].testEnd
<1>1. /\ AllFolds[k].trainEnd \in Nat /\ AllFolds[k].testEnd \in Nat
      /\ AllFolds[k].trainEnd < AllFolds[k].testEnd /\ AllFolds[k].testEnd <= Bars
  BY FoldsFollow
<1>2. PICK x \in Nat, y \in Nat : x = AllFolds[k].trainEnd /\ y = AllFolds[k].testEnd
  BY <1>1
<1>3. PICK n \in Nat : n = Bars
  BY ResearchAssumption
<1>4. x + 1 \in 1..n /\ y \in 1..n /\ x + 1 <= y
  BY <1>1, <1>2, <1>3
<1> QED  BY <1>2, <1>3, <1>4

LEMMA TestsReturn ==
    ASSUME HistorySuffices, NEW closes, NEW premiums, Valued(closes, premiums), NEW strategy
    PROVE  HasTests(Past!Evaluate(strategy, closes, premiums, AllFolds, FoldPlan), FoldCount)
<1> DEFINE results == Past!Evaluate(strategy, closes, premiums, AllFolds, FoldPlan)
<1>1. DOMAIN AllFolds = 1..FoldCount
  BY FoldsFollow
<1>2. DOMAIN results = 1..FoldCount
  BY <1>1, Zenon DEF Past!Evaluate
<1>3. ASSUME NEW k \in 1..FoldCount PROVE results[k].test \in Seq(Int)
  <2>1. results[k].test = Past!SliceReturns(strategy, closes, premiums, Past!TestBars(AllFolds[k]), FoldPlan)
    BY <1>1 DEF Past!Evaluate
  <2>2. PICK a \in 1..Bars, b \in 1..Bars : a <= b /\ a = AllFolds[k].trainEnd + 1 /\ b = AllFolds[k].testEnd
    BY TestBarsAre
  <2>3. Past!TestBars(AllFolds[k]).from = a /\ Past!TestBars(AllFolds[k]).to = b
    BY <2>2 DEF Past!TestBars
  <2>4. PICK n \in Nat : n = b - a + 1
    <3>1. Bars \in Nat
      BY ResearchAssumption
    <3>2. b - a + 1 \in Nat
      BY <2>2, <3>1
    <3> QED  BY <3>2
  <2> DEFINE c == SubSeq(closes, a, b)
             p == SubSeq(premiums, a, b)
  <2>5. /\ c = [i \in 1..n |-> closes[i + a - 1]]
        /\ p = [i \in 1..n |-> premiums[i + a - 1]]
    <3>1. OverBars(closes) /\ OverBars(premiums)
      BY DEF Valued
    <3>2. Sliced(closes, a, b)
      BY <2>2, <3>1, SliceIs
    <3>3. Sliced(premiums, a, b)
      BY <2>2, <3>1, SliceIs
    <3>4. c = [i \in 1..(b - a + 1) |-> closes[i + a - 1]] /\ p = [i \in 1..(b - a + 1) |-> premiums[i + a - 1]]
      BY <3>2, <3>3, Zenon DEF Sliced, c, p
    <3> QED  BY <2>4, <3>4, Zenon
  <2> HIDE DEF c, p
  <2>6. \A i \in 1..n : i + a - 1 \in 1..Bars
    BY <2>4, ResearchAssumption
  <2>7. \A i \in 1..n : c[i] \in Int /\ p[i].price \in Int
    BY <2>5, <2>6 DEF Valued
  <2>8. Len(c) = n
    BY <2>5
  <2>9. Past!Returns(Past!Replay(strategy, c, p, FoldPlan)) \in Seq(Int)
    BY <2>7, <2>8, ReplayReturns
  <2> QED  BY <2>1, <2>3, <2>9, Zenon DEF Past!SliceReturns, c, p
<1> HIDE DEF results
<1> QED  BY <1>2, <1>3 DEF HasTests, results

\* What a test says does not depend on the bars outside it.
LEMMA TestsIgnore ==
    ASSUME HistorySuffices, NEW k \in 1..FoldCount, NEW closes, NEW other, OverBars(closes), OverBars(other),
           \A i \in (AllFolds[k].trainEnd + 1)..AllFolds[k].testEnd : other[i] = closes[i],
           NEW premiums, NEW strategy
    PROVE  Past!Evaluate(strategy, other, premiums, <<AllFolds[k]>>, FoldPlan)[1].test
               = Past!Evaluate(strategy, closes, premiums, AllFolds, FoldPlan)[k].test
<1> DEFINE fold == AllFolds[k]
           Slice(f) == SubSeq(f, Past!TestBars(fold).from, Past!TestBars(fold).to)
<1>1. PICK a \in 1..Bars, b \in 1..Bars : a <= b /\ a = fold.trainEnd + 1 /\ b = fold.testEnd
  BY TestBarsAre
<1>2. Past!TestBars(fold).from = a /\ Past!TestBars(fold).to = b
  BY <1>1 DEF Past!TestBars
<1>3. Slice(other) = Slice(closes)
  <2>1. Sliced(other, a, b) /\ Sliced(closes, a, b)
    BY <1>1, SliceIs
  <2>2. \A i \in 1..(b - a + 1) : other[i + a - 1] = closes[i + a - 1]
    <3>1. a \in Int /\ b \in Int
      BY ResearchAssumption
    <3>2. \A i \in a..b : other[i] = closes[i]
      BY <1>1
    <3>3. \A i \in 1..(b - a + 1) : i + a - 1 \in a..b
      BY <3>1
    <3> QED  BY <3>2, <3>3
  <2>3. SubSeq(other, a, b) = SubSeq(closes, a, b)
    BY <2>1, <2>2 DEF Sliced
  <2> QED  BY <1>2, <2>3, Zenon
<1>4. Past!Evaluate(strategy, other, premiums, <<fold>>, FoldPlan)[1].test
         = Past!SliceReturns(strategy, other, premiums, Past!TestBars(fold), FoldPlan)
  <2> DEFINE S(g) == [train |-> Past!SliceReturns(strategy, other, premiums, Past!TrainBars(g), FoldPlan),
                      test |-> Past!SliceReturns(strategy, other, premiums, Past!TestBars(g), FoldPlan)]
             one == <<fold>>
  <2>1. 1 \in DOMAIN one /\ one[1] = fold
    OBVIOUS
  <2>2. Past!Evaluate(strategy, other, premiums, one, FoldPlan) = [j \in DOMAIN one |-> S(one[j])]
    BY Zenon DEF Past!Evaluate
  <2> HIDE DEF one, fold
  <2>3. Past!Evaluate(strategy, other, premiums, one, FoldPlan)[1] = S(fold)
    BY <2>1, <2>2, Zenon
  <2>4. S(fold).test = Past!SliceReturns(strategy, other, premiums, Past!TestBars(fold), FoldPlan)
    OBVIOUS
  <2> QED  BY <2>3, <2>4, Zenon DEF one
<1>5. Past!Evaluate(strategy, closes, premiums, AllFolds, FoldPlan)[k].test
         = Past!SliceReturns(strategy, closes, premiums, Past!TestBars(fold), FoldPlan)
  <2>1. DOMAIN AllFolds = 1..FoldCount
    BY FoldsFollow
  <2> QED  BY <2>1 DEF Past!Evaluate
<1>6. Past!SliceReturns(strategy, other, premiums, Past!TestBars(fold), FoldPlan)
         = Past!SliceReturns(strategy, closes, premiums, Past!TestBars(fold), FoldPlan)
  BY <1>3, Zenon DEF Past!SliceReturns
<1> QED  BY <1>4, <1>5, <1>6, Zenon

LEMMA OwnTests ==
    ASSUME HistorySuffices
    PROVE  ReplayAsked => TestsUseOnlyTheirBars
<1> SUFFICES ASSUME ReplayAsked, case.kind = "replay" PROVE TestsUseOnlyTheirBars
  BY DEF TestsUseOnlyTheirBars
<1> DEFINE closes == case.closes
           premiums == PremiumBars(closes)
           searched == Searched(closes, premiums)
           outside(k, v) == [i \in DOMAIN closes |->
                                IF i \in (AllFolds[k].trainEnd + 1)..AllFolds[k].testEnd THEN closes[i] ELSE v]
           best == Past!Best(searched, 1)
<1>1. closes \in [1..Bars -> BarPrices] /\ Bars \in Nat /\ BarPrices \subseteq Int
  BY ResearchAssumption DEF ReplayAsked
<1> HIDE DEF closes
<1>2. Len(closes) = Bars /\ DOMAIN closes = 1..Bars
  BY <1>1
<1>3. FoldsOf(closes) = AllFolds
  BY <1>2, Zenon DEF FoldsOf, AllFolds
<1>4. Valued(closes, premiums)
  <2>1. OverBars(closes)
    BY <1>1 DEF OverBars
  <2>2. premiums = [i \in 1..Bars |-> [traded |-> i % 3 # 0, price |-> closes[Bars + 1 - i]]]
    BY <1>2, Zenon DEF PremiumBars
  <2>3. \A i \in 1..Bars : closes[i] \in Int
    BY <1>1
  <2>4. \A i \in 1..Bars : Bars + 1 - i \in 1..Bars
    BY <1>1
  <2> HIDE DEF premiums
  <2>5. OverBars(premiums)
    BY <2>2 DEF OverBars
  <2>6. \A i \in 1..Bars : premiums[i].price \in Int
    BY <2>2, <2>3, <2>4
  <2> QED  BY <2>1, <2>3, <2>5, <2>6, Zenon DEF Valued
<1> HIDE DEF premiums
<1>5. /\ FoldCount \in Nat /\ DOMAIN AllFolds = 1..FoldCount /\ AllFolds # <<>>
      /\ \A j, k \in 1..FoldCount : j < k => AllFolds[j].testEnd <= AllFolds[k].trainEnd
  BY FoldsFollow
<1>6. /\ DOMAIN Combinations = 1..3 /\ Combinations[2] = "bought"
  BY DEF Combinations
<1>7. /\ DOMAIN searched = 1..3
      /\ \A c \in 1..3 : searched[c] = Past!Evaluate(Combinations[c], closes, premiums, AllFolds, FoldPlan)
  BY <1>3, <1>6, Zenon DEF Searched
<1>8. \A c \in 1..3 : HasTests(searched[c], FoldCount)
  <2> SUFFICES ASSUME NEW c \in 1..3 PROVE HasTests(searched[c], FoldCount)
    OBVIOUS
  <2>1. HasTests(Past!Evaluate(Combinations[c], closes, premiums, AllFolds, FoldPlan), FoldCount)
    BY <1>4, TestsReturn
  <2> QED  BY <1>7, <2>1, Zenon
<1> HIDE DEF searched
<1>9. /\ best = <<>> <=> \A c \in 1..3 : ~Past!IsRobust(searched[c], 1)
      /\ \A c \in 1..3 : Past!IsRobust(searched[c], 1) =>
            ~Past!Less(Past!MeanExpectancy(searched[Head(best)], 1), Past!MeanExpectancy(searched[c], 1))
  <2>1. 3 \in Nat
    OBVIOUS
  <2> QED  BY <1>5, <1>7, <1>8, <2>1, BestIs
<1>10. ASSUME NEW k \in 1..FoldCount, NEW v \in BarPrices
       PROVE  Past!Evaluate("bought", outside(k, v), premiums, <<AllFolds[k]>>, FoldPlan)[1].test = searched[2][k].test
  <2> DEFINE other == outside(k, v)
  <2>1. OverBars(other)
    BY <1>2 DEF OverBars
  <2>2. \A i \in (AllFolds[k].trainEnd + 1)..AllFolds[k].testEnd : other[i] = closes[i]
    <3>1. PICK a \in 1..Bars, b \in 1..Bars : a <= b /\ a = AllFolds[k].trainEnd + 1 /\ b = AllFolds[k].testEnd
      BY TestBarsAre
    <3>2. \A i \in a..b : i \in 1..Bars
      BY <1>1
    <3>3. other = [i \in 1..Bars |-> IF i \in a..b THEN closes[i] ELSE v]
      BY <1>2, <3>1, Zenon
    <3> HIDE DEF other
    <3>4. \A i \in a..b : other[i] = closes[i]
      BY <3>2, <3>3
    <3> QED  BY <3>1, <3>4, Zenon
  <2>3. OverBars(closes)
    BY <1>4, Zenon DEF Valued
  <2> HIDE DEF other
  <2>4. Past!Evaluate("bought", other, premiums, <<AllFolds[k]>>, FoldPlan)[1].test
           = Past!Evaluate("bought", closes, premiums, AllFolds, FoldPlan)[k].test
    BY <2>1, <2>2, <2>3, TestsIgnore
  <2>5. searched[2] = Past!Evaluate("bought", closes, premiums, AllFolds, FoldPlan)
    <3>1. 2 \in 1..3
      OBVIOUS
    <3> QED  BY <1>6, <1>7, <3>1, Zenon
  <2> QED  BY <2>4, <2>5, Zenon DEF other
<1> QED
  BY <1>3, <1>5, <1>6, <1>9, <1>10, Zenon DEF TestsUseOnlyTheirBars, closes, premiums, searched, best

\* When the history has room for a fold, the test of each comes after its
\* training, shares no bar with another and says nothing of bars outside it,
\* and the search recommends a robust combination that none is better than
\* (build_folds, _evaluate, run, best, walk_forward.py:181-397; run gives no
\* result for a shorter history, walk_forward.py:281).
THEOREM TestsStandAlone ==
    ASSUME HistorySuffices
    PROVE  Spec => []TestsUseOnlyTheirBars
<1>1. Asked => TestsUseOnlyTheirBars
  BY OwnTests DEF Asked
<1> QED  BY OnlyAsked, <1>1, PTL

-----------------------------------------------------------------------------
(* Jalali dates.                                                           *)

YearAsked == case.kind = "jalali" => case.year \in JalaliYears

LEMMA YearAskedStarts == Init => YearAsked
BY DEF Init, None, YearAsked

LEMMA YearAskedStep == YearAsked /\ [Next]_case => YearAsked'
<1> SUFFICES ASSUME YearAsked, [Next]_case PROVE YearAsked'
  OBVIOUS
<1>1. CASE UNCHANGED case
  BY <1>1 DEF YearAsked
<1>2. CASE ConvertYear
  BY <1>2 DEF ConvertYear, YearAsked
<1>3. ASSUME case'.kind # "jalali" PROVE YearAsked'
  BY <1>3 DEF YearAsked
<1>4. CASE Clear
  BY <1>3, <1>4 DEF Clear, None
<1>5. CASE OrderOnBook
  BY <1>3, <1>5 DEF OrderOnBook
<1>6. CASE SizeSignal
  BY <1>3, <1>6 DEF SizeSignal
<1>7. CASE ScanChain
  BY <1>3, <1>7 DEF ScanChain
<1>8. CASE Propose
  BY <1>3, <1>8 DEF Propose
<1>9. CASE LearnCalendar
  BY <1>3, <1>9 DEF LearnCalendar
<1>10. CASE ReplayStrategy
  BY <1>3, <1>10 DEF ReplayStrategy
<1>11. CASE RecordVolatility
  BY <1>3, <1>11 DEF RecordVolatility
<1>12. CASE AdjustContract
  BY <1>3, <1>12 DEF AdjustContract
<1> QED
  BY <1>1, <1>2, <1>4, <1>5, <1>6, <1>7, <1>8, <1>9, <1>10, <1>11, <1>12 DEF Next, Ask

LEMMA YearIsAsked == Spec => []YearAsked
BY YearAskedStarts, YearAskedStep, PTL DEF Spec

\* For years that follow one pattern of leap years, 1210 to 1633 (1831 to 2255 of
\* the other calendar), the dates of a year and the days from its first to the
\* last before the next match one to one (jalali_to_gregorian,
\* gregorian_to_jalali, trading_calendar.py:85-105).
THEOREM DatesRoundTrip ==
    ASSUME JalaliYears \subseteq Pattern
    PROVE  Spec => []JalaliRoundTrips
<1>1. YearAsked => JalaliRoundTrips
  <2> SUFFICES ASSUME YearAsked, case.kind = "jalali" PROVE JalaliRoundTrips
    BY DEF JalaliRoundTrips
  <2>1. case.year \in Pattern
    BY DEF YearAsked
  <2>2. RoundTrips(case.year)
    BY <2>1, YearRoundTrips, Zenon
  <2> QED  BY <2>2, Zenon DEF RoundTrips, JalaliRoundTrips
<1> QED  BY YearIsAsked, <1>1, PTL
=============================================================================
