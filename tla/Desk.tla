------------------------------- MODULE Desk --------------------------------
(***************************************************************************)
(* The calculations behind an order, beside those of Research: each step   *)
(* takes an input one of them may be given. They keep no state between     *)
(* calls, so what is checked is that every input gets the right answer.    *)
(***************************************************************************)
EXTENDS Research

CONSTANTS
    BookRows,       \* levels a row of the order book may quote
    MaxOrder,       \* bound: the largest order put to a book
    Limits, Fees,   \* risk limits and fee schedules
    BrokerEquities, \* equity the broker may report, 0 when it was not read
    Premiums,       \* premiums to size
    Filter,         \* filter of the scanner
    Listed,         \* contracts of the chain, with the size the exchange lists, without quotes
    EnrichLimit,    \* contracts the broker is asked about, the nearest to the spot
    BrokerSizes,    \* sizes the broker may know
    Quotes,         \* [bid, ask, interest] a contract may have
    Spot            \* price of the underlying

Book == INSTANCE OrderBook
Risk == INSTANCE RiskSizing
Scan == INSTANCE Scanner

\* A stop is a distance and a fee is paid, never received; whatever else the
\* settings say are numbers (RiskLimits, risk_calculator.py:15-25, fees.py).
ASSUME DeskAssumption ==
    /\ \A l \in Limits : /\ l.stop \in Nat /\ l.equity \in Int /\ l.riskPct \in Int
                          /\ l.positionPct \in Int /\ l.target \in Int /\ l.maxContracts \in Int
                          /\ DOMAIN l = {"stop", "equity", "riskPct", "positionPct", "target", "maxContracts"}
    /\ \A f \in Fees : f.buy \in Nat /\ f.sell \in Nat /\ f.perOrder \in Nat
    /\ Premiums \subseteq Int /\ BrokerEquities \subseteq Int
    /\ \A r \in BookRows : r.bid \in Int /\ r.ask \in Int /\ r.bidSize \in Nat /\ r.askSize \in Nat
    /\ MaxOrder \in Nat
    /\ \A c \in Listed : c.type \in {"call", "put"} /\ c.strike \in Int /\ c.size \in Nat \ {0}
    /\ BrokerSizes \subseteq Nat \ {0}
    /\ \A q \in Quotes : q.bid \in Int /\ q.ask \in Int
    /\ Filter.rate \in Int /\ Spot \in Int

None == [kind |-> "none"]
Init == case = None

OrderOnBook ==
    \E n \in 1..3 : \E rows \in [1..n -> BookRows], side \in Book!Sides, q \in 1..MaxOrder :
        case' = [kind |-> "book", rows |-> rows, side |-> side, quantity |-> q]

SizeSignal ==
    \E l \in Limits, f \in Fees, p \in Premiums, isBuy, useBroker \in BOOLEAN, broker \in BrokerEquities :
        LET limits == [l EXCEPT !.equity = Risk!AccountEquity(@, useBroker, broker)]
        IN  \E stop \in Risk!StopLosses(limits, p, isBuy), target \in Risk!TakeProfits(limits, f, p, isBuy) :
                case' = [kind |-> "risk", limits |-> limits, fees |-> f, premium |-> p, size |-> 10,
                         isBuy |-> isBuy, stop |-> stop, target |-> target]

\* The contracts whose size the broker tells: of the nearest to the spot, those
\* it answers for (EnrichedOptionChain._enrich).
Enriched ==
    LET distance(c) == IF c.strike > Spot THEN c.strike - Spot ELSE Spot - c.strike
        asked == {c \in Listed : Cardinality({d \in Listed : distance(d) < distance(c)}) < EnrichLimit}
    IN  {answered \in SUBSET asked : Cardinality(answered) <= EnrichLimit}

ScanChain ==
    \E q \in [Listed -> Quotes], answered \in Enriched : \E size \in [answered -> BrokerSizes] :
        case' = [kind |-> "scan",
                 chain |-> {[type |-> c.type, strike |-> c.strike, expiry |-> c.expiry,
                             size |-> IF c \in answered THEN size[c] ELSE c.size,
                             bid |-> q[c].bid, ask |-> q[c].ask, last |-> 0,
                             interest |-> q[c].interest, volume |-> 0] : c \in Listed}]

Clear == case' = None

Next ==
    \/ case = None /\ OrderOnBook
    \/ case = None /\ SizeSignal
    \/ case = None /\ ScanChain
    \/ case = None /\ Ask
    \/ case # None /\ Clear

Spec == Init /\ [][Next]_case
=============================================================================
