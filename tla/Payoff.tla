------------------------------ MODULE Payoff -------------------------------
(***************************************************************************)
(* Profit and loss of a structure at expiry (strategies/payoff.py). A leg  *)
(* is a contract or the underlying itself; a structure has legs, the       *)
(* commission rate in 1/RateScale and says whether its legs expire         *)
(* together. Amounts count 1/RateScale; strikes are even, so that the      *)
(* probes between them are exact. Unknown is the code's None.              *)
(***************************************************************************)
EXTENDS Integers, FiniteSets, FiniteSetsExt, Sequences, SequencesExt

RateScale == 100
Unknown == [known |-> FALSE]
Known(v) == [known |-> TRUE, value |-> v]

Total(legs, Of(_)) == FoldLeft(+, 0, [i \in DOMAIN legs |-> Of(legs[i])])

Units(leg) == leg.quantity * leg.size
Signed(leg, amount) == IF leg.long THEN amount ELSE -amount
IsOption(leg) == leg.type # "stock"

-----------------------------------------------------------------------------
(* PositionLeg.                                                            *)

IntrinsicAt(leg, price) ==
    CASE leg.type = "stock" -> price
      [] leg.type = "call"  -> Max({price - leg.strike, 0})
      [] leg.type = "put"   -> Max({leg.strike - price, 0})

LegPayoff(leg, price) == Signed(leg, (IntrinsicAt(leg, price) - leg.entry) * Units(leg))

\* Positive is paid, negative is received.
LegCost(leg) == Signed(leg, leg.entry * Units(leg))

\* leg_from_contract: a buyer pays the ask and a seller gets the bid.
Price(contract, long) ==
    LET near == IF long THEN contract.ask ELSE contract.bid
    IN  IF near > 0 THEN near ELSE contract.last

LegOf(contract, long) ==
    [long |-> long, quantity |-> 1, entry |-> Price(contract, long), size |-> contract.size,
     type |-> contract.type, strike |-> contract.strike]

StockLeg(spot, quantity, size) ==
    [long |-> TRUE, quantity |-> quantity, entry |-> spot, size |-> size,
     type |-> "stock", strike |-> 0]

-----------------------------------------------------------------------------
(* StrategyPayoff.                                                         *)

\* On the turnover of all legs, whatever their direction.
Commission(s) == s.rate * Total(s.legs, LAMBDA leg : leg.entry * Units(leg))
NetPremium(s) == RateScale * Total(s.legs, LAMBDA leg : IF IsOption(leg) THEN LegCost(leg) ELSE 0)
NetCost(s) == RateScale * Total(s.legs, LegCost) + Commission(s)

PayoffAt(s, price) ==
    RateScale * Total(s.legs, LAMBDA leg : LegPayoff(leg, price)) - Commission(s)

Quantity(s, type, long) ==
    Total(s.legs, LAMBDA leg : IF leg.type = type /\ (leg.long <=> long) THEN leg.quantity ELSE 0)
LongCalls(s) == Quantity(s, "call", TRUE)
ShortCalls(s) == Quantity(s, "call", FALSE)
LongStock(s) == Quantity(s, "stock", TRUE)

\* Mutant: any bought call is taken for an unlimited profit.
UnlimitedUpsideAny(s) == LongCalls(s) > 0 \/ LongStock(s) > 0

UnlimitedUpside(s) == LongCalls(s) > ShortCalls(s) \/ (LongStock(s) > 0 /\ ShortCalls(s) = 0)
UnlimitedDownside(s) == ShortCalls(s) > LongCalls(s) + LongStock(s)

Strikes(s) == {s.legs[i].strike : i \in {j \in DOMAIN s.legs : IsOption(s.legs[j])}}

\* The payoff is piecewise linear, so its extremes are at a strike, at zero
\* or beyond the last strike.
Probes(s) ==
    LET top == Max(Strikes(s))
        span == top - Min(Strikes(s))
        pairs == {p \in Strikes(s) \X Strikes(s) :
                     p[1] < p[2] /\ \A k \in Strikes(s) : k <= p[1] \/ p[2] <= k}
    IN  {0, top + (IF span > 0 THEN span ELSE top \div 2)} \union Strikes(s)
        \union {(p[1] + p[2]) \div 2 : p \in pairs}

MaxProfit(s) ==
    IF ~s.single \/ UnlimitedUpside(s) THEN Unknown
    ELSE Known(Max({PayoffAt(s, p) : p \in Probes(s)}))
MaxLoss(s) ==
    IF ~s.single \/ UnlimitedDownside(s) THEN Unknown
    ELSE Known(Min({PayoffAt(s, p) : p \in Probes(s)}))

\* required_capital: the cost of a debit; what a credit of defined risk can
\* lose. The scanner has no margin from the broker.
RequiredCapital(s) ==
    LET loss == MaxLoss(s)
    IN  CASE NetCost(s) > 0 -> Known(NetCost(s))
          [] NetCost(s) <= 0 /\ loss.known /\ loss.value < 0 -> Known(-loss.value)
          [] OTHER -> Unknown
=============================================================================
