------------------------------ MODULE Scanner ------------------------------
(***************************************************************************)
(* The structures StrategyScanner finds in a chain (strategies/scanner.py) *)
(* A chain is a set of contracts [type, strike, expiry, size, bid, ask,    *)
(* last, interest, volume]; no two of them have the same type, strike and  *)
(* expiry. Expiries are counted in days from today.                        *)
(***************************************************************************)
EXTENDS Payoff

\* ScanFilters.accepts; spreads and widths are in percent.
Accepts(f, c) ==
    /\ f.minDays <= c.expiry /\ c.expiry <= f.maxDays
    /\ c.interest >= f.minInterest /\ c.volume >= f.minVolume
    /\ c.strike > 0
    /\ IF f.bothQuotes
       THEN /\ c.bid > 0 /\ c.ask > 0 /\ c.bid <= c.ask
            /\ 200 * (c.ask - c.bid) <= f.maxSpread * (c.ask + c.bid)
       ELSE c.bid > 0 \/ c.ask > 0 \/ c.last > 0

Usable(f, chain) == {c \in chain : Accepts(f, c)}
OfType(contracts, type) == {c \in contracts : c.type = type}
Expiries(contracts) == {c.expiry : c \in contracts}
At(contracts, expiry) == {c \in contracts : c.expiry = expiry}

Structure(kind, f, legs, single) == [kind |-> kind, legs |-> legs, rate |-> f.rate, single |-> single]

\* The n contracts of a set whose strikes are nearest to the spot.
Nearest(contracts, spot, n) ==
    {c \in contracts :
        Cardinality({d \in contracts : IF c.strike > spot THEN d.strike < c.strike
                                       ELSE d.strike > c.strike}) < n}

-----------------------------------------------------------------------------

LongStraddles(f, chain, spot) ==
    {s \in {Structure("long_straddle", f, <<LegOf(p[1], TRUE), LegOf(p[2], TRUE)>>, TRUE) :
            p \in {q \in OfType(Usable(f, chain), "call") \X OfType(Usable(f, chain), "put") :
                      q[1].strike = q[2].strike /\ q[1].expiry = q[2].expiry}} :
        NetCost(s) > 0}

PutsBelow(contracts, spot) == {c \in OfType(contracts, "put") : c.strike < spot}
CallsAbove(contracts, spot) == {c \in OfType(contracts, "call") : c.strike > spot}

\* The four nearest protections and caps of each expiry.
Collars(f, chain, spot, quantity) ==
    UNION {LET usable == At(Usable(f, chain), e)
           IN  {Structure("collar", f,
                    <<StockLeg(spot, quantity, p[2].size),
                      [LegOf(p[1], TRUE) EXCEPT !.quantity = quantity],
                      [LegOf(p[2], FALSE) EXCEPT !.quantity = quantity]>>, TRUE) :
                p \in Nearest(PutsBelow(usable, spot), spot, 4)
                      \X Nearest(CallsAbove(usable, spot), spot, 4)} :
           e \in Expiries(Usable(f, chain))}

CondorOf(f, longPut, shortPut, shortCall, longCall) ==
    Structure("iron_condor", f, <<LegOf(longPut, TRUE), LegOf(shortPut, FALSE),
                                  LegOf(shortCall, FALSE), LegOf(longCall, TRUE)>>, TRUE)

\* combinations of sorted contracts: the strikes rise from leg to leg.
IsCondor(longPut, shortPut, shortCall, longCall) ==
    /\ longPut.strike < shortPut.strike /\ shortPut.strike < shortCall.strike
    /\ shortCall.strike < longCall.strike

\* Only condors that bring a credit.
IronCondors(f, chain, spot) ==
    UNION {LET usable == At(Usable(f, chain), e)
               puts == Nearest(PutsBelow(usable, spot), spot, 5)
               calls == Nearest(CallsAbove(usable, spot), spot, 5)
           IN  {s \in {CondorOf(f, q[1], q[2], q[3], q[4]) :
                       q \in {x \in puts \X puts \X calls \X calls : IsCondor(x[1], x[2], x[3], x[4])}} :
                    NetPremium(s) < 0} :
           e \in Expiries(Usable(f, chain))}

\* Mutant: the gate on the profit of a spread is left out.
IsSoundSpreadAny(s, lower, upper) == TRUE

\* The gates of _vertical_spreads: no dearer than it can ever be worth, and a
\* profit is possible.
IsSoundSpread(s, lower, upper) ==
    LET ceiling == RateScale * (upper.strike - lower.strike) * Max({lower.size, upper.size})
    IN  /\ NetPremium(s) <= ceiling /\ -NetPremium(s) <= ceiling
        /\ MaxProfit(s).known => MaxProfit(s).value > 0

Spreads(f, chain, spot, type, longIsLower, kind) ==
    UNION {LET of(lower, upper) == Structure(kind, f, IF longIsLower
                                    THEN <<LegOf(lower, TRUE), LegOf(upper, FALSE)>>
                                    ELSE <<LegOf(upper, TRUE), LegOf(lower, FALSE)>>, TRUE)
               usable == OfType(At(Usable(f, chain), e), type)
           IN  {of(p[1], p[2]) :
                p \in {q \in usable \X usable :
                         /\ q[1].strike < q[2].strike
                         /\ spot > 0 => 100 * (q[2].strike - q[1].strike) <= f.maxWidth * spot
                         /\ IsSoundSpread(of(q[1], q[2]), q[1], q[2])}} :
           e \in Expiries(Usable(f, chain))}

\* Sells the near expiry and buys the far one; only as a debit.
Calendars(f, chain) ==
    {s \in {Structure("calendar_spread", f, <<LegOf(p[1], FALSE), LegOf(p[2], TRUE)>>, FALSE) :
            p \in {q \in Usable(f, chain) \X Usable(f, chain) :
                      /\ q[1].type = q[2].type /\ q[1].strike = q[2].strike
                      /\ q[2].expiry - q[1].expiry >= f.minGap}} :
        NetPremium(s) > 0}

\* scan_all, before each list is cut to its limit.
Scanned(f, chain, spot, quantity) ==
    LongStraddles(f, chain, spot)
    \union (IF spot > 0 THEN Collars(f, chain, spot, quantity) ELSE {})
    \union IronCondors(f, chain, spot)
    \union Spreads(f, chain, spot, "call", TRUE,  "bull_call_spread")
    \union Spreads(f, chain, spot, "call", FALSE, "bear_call_spread")
    \union Spreads(f, chain, spot, "put",  TRUE,  "bull_put_spread")
    \union Spreads(f, chain, spot, "put",  FALSE, "bear_put_spread")
    \union Calendars(f, chain)
=============================================================================
