----------------------------- MODULE DeskProps -----------------------------
(***************************************************************************)
(* What the calculations of the desk promise, each against a definition    *)
(* that says what the answer means and not how it is computed.             *)
(***************************************************************************)
EXTENDS Desk

\* Every way to take n units from the levels of a book.
Takings(levels, n) ==
    {t \in [DOMAIN levels -> 0..n] :
        /\ \A i \in DOMAIN levels : t[i] <= levels[i].quantity
        /\ FoldLeft(+, 0, t) = n}

CostOf(levels, taking) == FoldLeft(+, 0, [i \in DOMAIN levels |-> taking[i] * levels[i].price])

\* However the source orders its levels, an order is filled as far as the book
\* goes and at the best total price the book allows (fill_price,
\* order_book.py:133-158).
FillsAreTheBest ==
    case.kind = "book" =>
        LET buy == case.side = "buy"
            level(price, quantity) == [price |-> price, quantity |-> IF price > 0 THEN quantity ELSE 0]
            levels == [i \in DOMAIN case.rows |->
                          IF buy THEN level(case.rows[i].ask, case.rows[i].askSize)
                          ELSE level(case.rows[i].bid, case.rows[i].bidSize)]
            fill == Book!Fill(case.rows, case.side, case.quantity)
            depth == FoldLeft(+, 0, [i \in DOMAIN levels |-> levels[i].quantity])
        IN  /\ fill.filled = Min({case.quantity, depth})
            /\ Book!CanFill(case.rows, case.side, case.quantity) <=> case.quantity <= depth
            /\ \A t \in Takings(levels, fill.filled) :
                  IF buy THEN fill.cost <= CostOf(levels, t) ELSE fill.cost >= CostOf(levels, t)

\* The rate of the way out, and the money lost when a position of n contracts is
\* closed at its stop, with the fees of both ways at the prices they are really
\* charged on, times Risk!Unit.
ExitRate(c) == IF c.isBuy THEN c.fees.sell ELSE c.fees.buy
LossAtStop(c, n) ==
    Risk!Toward(c.isBuy, Risk!Unit * c.premium - c.stop) * c.size * n
    + 100 * Risk!EntryFee(c.fees, n * c.premium * c.size, c.isBuy)
    + (c.stop \div Risk!Mill) * c.size * n * ExitRate(c)
    + 100 * Risk!Mill * c.fees.perOrder

\* What half a tenth of a rial on each unit makes of the price and of its fee.
RoundingOfStop(c, n) == (Risk!HalfTenth \div Risk!Mill) * (Risk!Mill + ExitRate(c)) * c.size * n

SizeOf(c) == Risk!Quantity(c.limits, c.fees, c.premium, c.size, c.isBuy)
Budget(c) == c.limits.equity * c.limits.riskPct * Risk!Mill

\* A signal stopped out, at the stop that is printed, costs the risk budget and
\* at most what rounding moved the stop, fees included, whichever side it is on;
\* its position fits the exposure limit and the limit of contracts
\* (RiskCalculator.evaluate, risk_calculator.py:69-115, fees.py:58-80).
StopKeepsTheBudget ==
    case.kind = "risk" /\ SizeOf(case) > 0 =>
        /\ LossAtStop(case, SizeOf(case)) <= Budget(case) + RoundingOfStop(case, SizeOf(case))
        /\ 100 * SizeOf(case) * case.premium * case.size <= case.limits.equity * case.limits.positionPct
        /\ SizeOf(case) <= case.limits.maxContracts

Found == Scan!Scanned(Filter, case.chain, Spot, 1)

\* Prices of the underlying: all that has a corner of the payoff, and one more.
PriceRange(s) == 0..(2 * Max(Scan!Strikes(s)) + 1)

\* The legs of a type stand for as many units a contract.
SameSize(s, type) ==
    \A i, j \in DOMAIN s.legs :
        s.legs[i].type = type /\ s.legs[j].type = type => s.legs[i].size = s.legs[j].size

\* What a structure reports as its extremes are those of its payoff at every
\* price, and it reports none exactly when there is none.
ReportsExtremes(s) ==
    LET values == {Scan!PayoffAt(s, p) : p \in PriceRange(s)}
        end == Max(PriceRange(s))
        slope == Scan!PayoffAt(s, end) - Scan!PayoffAt(s, end - 1)
        high == Scan!MaxProfit(s)
        low == Scan!MaxLoss(s)
    IN  /\ high.known <=> slope <= 0
        /\ low.known <=> slope >= 0
        /\ high.known => high.value = Max(values)
        /\ low.known => low.value = Min(values)

\* The extremes of a structure are true where its calls have one size, whatever
\* the sizes of its puts and whichever contracts the broker corrected
\* (max_profit, max_loss, payoff.py:249-323). With calls of two sizes they are not:
\* the code counts contracts and not units (payoff.py:272-304).
ExtremesAreTrue ==
    case.kind = "scan" => \A s \in Found : s.single /\ SameSize(s, "call") => ReportsExtremes(s)

\* No structure loses more than the capital it asks for, commission included,
\* where its calls have one size and its puts have one (required_capital,
\* payoff.py:193-217, and the gates of the scanners). A condor whose commission
\* is more than its credit is the other exception: no gate of scan_iron_condor
\* looks at the profit.
CapitalCoversTheLoss ==
    case.kind = "scan" =>
        \A s \in Found :
            LET capital == Scan!RequiredCapital(s)
            IN  /\ s.single /\ SameSize(s, "call") /\ SameSize(s, "put") /\ capital.known
                /\ s.kind = "iron_condor" => Scan!MaxProfit(s).value > 0
                => \A p \in PriceRange(s) : Scan!PayoffAt(s, p) >= -capital.value
=============================================================================
