---------------------------- MODULE RiskSizing -----------------------------
(***************************************************************************)
(* Size, stop and target of a signal (risk/risk_calculator.py) and the     *)
(* fees they reckon with (risk/fees.py). Percentages are integers and fee  *)
(* rates count 1/Mill, so that an amount times Unit is an exact integer.   *)
(***************************************************************************)
EXTENDS Integers, FiniteSetsExt

Mill == 1000
Unit == 100 * Mill      \* percent times rate

-----------------------------------------------------------------------------
(* FeeSchedule. A schedule has buy, sell (tax included) and perOrder; the  *)
(* amounts are Mill times the rials.                                       *)

RoundTripRate(fees) == fees.buy + fees.sell
EntryFee(fees, worth, isBuy) ==
    worth * (IF isBuy THEN fees.buy ELSE fees.sell) + Mill * fees.perOrder
ExitFee(fees, worth, wasBuy) ==
    worth * (IF wasBuy THEN fees.sell ELSE fees.buy) + Mill * fees.perOrder

\* Mutant: the tax and the fee of the way out are forgotten.
RoundTripFeeEntry(fees, worth, isBuy) == EntryFee(fees, worth, isBuy)

RoundTripFee(fees, worth, isBuy) == EntryFee(fees, worth, isBuy) + ExitFee(fees, worth, isBuy)

Toward(isBuy, amount) == IF isBuy THEN amount ELSE -amount

\* breakeven_premium, times Mill.
BreakEven(fees, premium, isBuy) == Mill * premium + Toward(isBuy, premium * RoundTripRate(fees))

\* net_take_profit, times Unit.
NetTarget(fees, premium, target, isBuy) ==
    premium * Mill * (100 + Toward(isBuy, target))
    + Toward(isBuy, 100 * premium * RoundTripRate(fees))

-----------------------------------------------------------------------------
(* RiskCalculator.evaluate.                                                *)

\* round(x, 1), times Unit: the nearest tenth of a rial. An amount half way
\* between two is a binary fraction on either side of the half, so both may come.
Tenth == Unit \div 10
HalfTenth == Tenth \div 2
Rounded(amount) ==
    LET below == Tenth * (amount \div Tenth)
    IN  {x \in {below, below + Tenth} : x - amount \in -HalfTenth..HalfTenth}

\* Below the premium for a buyer, above it for a seller.
StopLosses(limits, premium, isBuy) == Rounded(premium * Mill * (100 - Toward(isBuy, limits.stop)))
TakeProfits(limits, fees, premium, isBuy) == Rounded(NetTarget(fees, premium, limits.target, isBuy))

\* A seller is taken to risk twice the premium; the fees are lost in any case.
RiskPerContract(limits, fees, cost, isBuy) ==
    cost * Mill * (IF isBuy THEN limits.stop ELSE 200) + 100 * RoundTripFee(fees, cost, isBuy)

Smallest(a, b, c) == Min({a, b, c})

\* Mutant: a limit of the account that rejects is rounded up to one contract.
QuantityAtLeastOne(limits, fees, premium, size, isBuy) ==
    IF premium <= 0 \/ size <= 0 THEN 0
    ELSE LET cost == premium * size
             risk == RiskPerContract(limits, fees, cost, isBuy)
         IN  Max({1, Smallest((limits.equity * limits.riskPct * Mill) \div Max({risk, 1}),
                              (limits.equity * limits.positionPct) \div (100 * cost),
                              limits.maxContracts)})

\* suggested_qty: what the risk budget, the exposure cap and the contract cap
\* all allow. A risk of nothing is kept off zero, as the code does.
Quantity(limits, fees, premium, size, isBuy) ==
    IF premium <= 0 \/ size <= 0 THEN 0
    ELSE LET cost == premium * size
             risk == RiskPerContract(limits, fees, cost, isBuy)
             byRisk == (limits.equity * limits.riskPct * Mill) \div Max({risk, 1})
             byExposure == (limits.equity * limits.positionPct) \div (100 * cost)
         IN  Max({0, Smallest(byRisk, byExposure, limits.maxContracts)})

\* build_risk_calculator: the equity of the broker replaces the configured one
\* only when it was read and is positive.
AccountEquity(configured, useBroker, broker) ==
    IF useBroker /\ broker > 0 THEN broker ELSE configured
=============================================================================
