----------------------------- MODULE DeskProof -----------------------------
(***************************************************************************)
(* Proofs about the calculations of the desk, for any limits, fees,        *)
(* premiums and rows of the book: the size of a signal, what an order is   *)
(* filled at and what a structure brings. The inputs of the calculations   *)
(* of Research and the days of its Jalali years are here too.              *)
(***************************************************************************)
EXTENDS DeskProps, Ordering, FunctionTheorems, FiniteSetTheorems, WellFoundedInduction, TLAPS

-----------------------------------------------------------------------------
(* The inputs.                                                             *)

\* What a step asks is an input of one of the calculations.
IsToSize(c) ==
    \E l \in Limits, f \in Fees, p \in Premiums, isBuy \in BOOLEAN, e \in Int :
       \E stop \in Risk!StopLosses([l EXCEPT !.equity = e], p, isBuy) :
       \E target \in Risk!TakeProfits([l EXCEPT !.equity = e], f, p, isBuy) :
          c = [kind |-> "risk", limits |-> [l EXCEPT !.equity = e], fees |-> f,
               premium |-> p, size |-> 10, isBuy |-> isBuy, stop |-> stop, target |-> target]
SizeAsked == case.kind = "risk" => IsToSize(case)

ProposalAsked ==
    case.kind = "propose" =>
       \E chain \in SUBSET StratListed, c \in Contexts :
          case = [kind |-> "propose",
                  context |-> [spot |-> c.spot, closes |-> c.closes, realized |-> c.realized,
                               rank |-> c.rank, holding |-> c.holding, chain |-> chain]]

CalendarAsked ==
    case.kind = "calendar" =>
       \E later \in 0..Learning, offline \in BOOLEAN :
          \E shut \in SUBSET Working(MarketFrom, MarketFrom + Learning + later) :
             case = [kind |-> "calendar", shut |-> shut, offline |-> offline,
                     first |-> MarketFrom + Learning, last |-> MarketFrom + Learning + later]

BookAsked ==
    case.kind = "book" =>
       \E n \in Nat : /\ case.rows \in [1..n -> BookRows]
                      /\ case.side \in Book!Sides /\ case.quantity \in Nat \ {0}

\* Contracts of whole units; what else a chain quotes are numbers.
IsContract(c) ==
    /\ c.type \in {"call", "put"} /\ c.size \in Nat \ {0} /\ c.strike \in Int
    /\ c.bid \in Int /\ c.ask \in Int /\ c.last \in Int
ScanAsked == case.kind = "scan" => \A c \in case.chain : IsContract(c)

ReplayAsked == case.kind = "replay" => case.closes \in [1..Bars -> BarPrices]

\* Days go on: the volatility is recorded again on the same or on a later one.
IvAsked ==
    case.kind = "iv" =>
       \E n \in Nat \ {0} : /\ case.days \in [1..n -> Int]
                            /\ \A i \in 1..n : i > 1 => case.days[i - 1] <= case.days[i]

Asked == SizeAsked /\ ProposalAsked /\ CalendarAsked /\ BookAsked /\ ReplayAsked /\ IvAsked /\ ScanAsked

LEMMA AskedStarts == Init => Asked
BY DEF Init, None, Asked, SizeAsked, ProposalAsked, CalendarAsked, BookAsked, ReplayAsked, IvAsked, ScanAsked

LEMMA AskedStep == Asked /\ [Next]_case => Asked'
<1> SUFFICES ASSUME Asked, [Next]_case PROVE Asked'
  OBVIOUS
<1>1. CASE UNCHANGED case
  <2>1. SizeAsked'
    BY <1>1, Zenon DEF Asked, SizeAsked
  <2>2. ProposalAsked' /\ CalendarAsked' /\ BookAsked' /\ ReplayAsked' /\ IvAsked' /\ ScanAsked'
    BY <1>1 DEF Asked, ProposalAsked, CalendarAsked, BookAsked, ReplayAsked, IvAsked, ScanAsked
  <2> QED  BY <2>1, <2>2 DEF Asked
<1>2. ASSUME case'.kind \notin {"risk", "propose", "calendar", "book", "replay", "iv", "scan"} PROVE Asked'
  BY <1>2 DEF Asked, SizeAsked, ProposalAsked, CalendarAsked, BookAsked, ReplayAsked, IvAsked, ScanAsked
<1>3. CASE Clear
  BY <1>2, <1>3 DEF Clear, None
<1>4. CASE ConvertYear \/ AdjustContract
  BY <1>2, <1>4 DEF ConvertYear, AdjustContract
<1>5. CASE SizeSignal
  <2>1. PICK l \in Limits, f \in Fees, p \in Premiums, isBuy \in BOOLEAN, e \in Int :
           \E stop \in Risk!StopLosses([l EXCEPT !.equity = e], p, isBuy) :
           \E target \in Risk!TakeProfits([l EXCEPT !.equity = e], f, p, isBuy) :
              case' = [kind |-> "risk", limits |-> [l EXCEPT !.equity = e], fees |-> f,
                       premium |-> p, size |-> 10, isBuy |-> isBuy, stop |-> stop, target |-> target]
    <3>1. PICK l \in Limits, f \in Fees, p \in Premiums, isBuy \in BOOLEAN,
               useBroker \in BOOLEAN, broker \in BrokerEquities :
             \E stop \in Risk!StopLosses([l EXCEPT !.equity = Risk!AccountEquity(@, useBroker, broker)], p, isBuy) :
             \E target \in Risk!TakeProfits([l EXCEPT !.equity = Risk!AccountEquity(@, useBroker, broker)], f, p, isBuy) :
                case' = [kind |-> "risk", limits |-> [l EXCEPT !.equity = Risk!AccountEquity(@, useBroker, broker)],
                         fees |-> f, premium |-> p, size |-> 10, isBuy |-> isBuy, stop |-> stop, target |-> target]
      BY <1>5, Zenon DEF SizeSignal
    <3> DEFINE e == Risk!AccountEquity(l.equity, useBroker, broker)
    <3>2. e \in Int
      BY DeskAssumption DEF Risk!AccountEquity
    <3> HIDE DEF e
    <3> QED  BY <3>1, <3>2 DEF e
  <2>2. case'.kind = "risk"
    BY <2>1
  <2>3. IsToSize(case')
    BY <2>1, Zenon DEF IsToSize
  <2>4. SizeAsked'
    BY <2>3, Zenon DEF SizeAsked
  <2> QED  BY <2>2, <2>4 DEF Asked, ProposalAsked, CalendarAsked, BookAsked, ReplayAsked, IvAsked, ScanAsked
<1>6. CASE Propose
  <2>1. case'.kind = "propose"
    BY <1>6 DEF Propose
  <2>2. ProposalAsked'
    BY <1>6, Zenon DEF Propose, ProposalAsked
  <2> QED  BY <2>1, <2>2 DEF Asked, SizeAsked, CalendarAsked, BookAsked, ReplayAsked, IvAsked, ScanAsked
<1>7. CASE LearnCalendar
  <2>1. case'.kind = "calendar"
    BY <1>7 DEF LearnCalendar
  <2>2. CalendarAsked'
    BY <1>7, Zenon DEF LearnCalendar, CalendarAsked
  <2> QED  BY <2>1, <2>2 DEF Asked, SizeAsked, ProposalAsked, BookAsked, ReplayAsked, IvAsked, ScanAsked
<1>8. CASE OrderOnBook
  <2>1. PICK n \in 1..3 : \E rows \in [1..n -> BookRows], side \in Book!Sides, q \in 1..MaxOrder :
           case' = [kind |-> "book", rows |-> rows, side |-> side, quantity |-> q]
    BY <1>8 DEF OrderOnBook
  <2>2. case'.kind = "book"
    BY <2>1
  <2>3. n \in Nat /\ \A q \in 1..MaxOrder : q \in Nat \ {0}
    BY DeskAssumption
  <2>4. case'.rows \in [1..n -> BookRows] /\ case'.side \in Book!Sides /\ case'.quantity \in Nat \ {0}
    BY <2>1, <2>3
  <2>5. BookAsked'
    BY <2>3, <2>4, Zenon DEF BookAsked
  <2> QED  BY <2>2, <2>5 DEF Asked, SizeAsked, ProposalAsked, CalendarAsked, ReplayAsked, IvAsked, ScanAsked
<1>9. CASE ReplayStrategy
  <2>1. case'.kind = "replay" /\ case'.closes \in [1..Bars -> BarPrices]
    BY <1>9 DEF ReplayStrategy
  <2> QED  BY <2>1 DEF Asked, SizeAsked, ProposalAsked, CalendarAsked, BookAsked, ReplayAsked, IvAsked, ScanAsked
<1>10. CASE RecordVolatility
  <2>a. PICK n \in 1..IvDays :
           \E days \in [1..n -> 0..(n * IvPlan.maxDays)], chains \in [1..n -> IvChains] :
              /\ \A i \in 1..n : days[i] - (IF i = 1 THEN 0 ELSE days[i - 1]) \in {0, 1, IvPlan.maxDays}
              /\ case' = [kind |-> "iv", chains |-> chains, days |-> days]
    BY <1>10 DEF RecordVolatility
  <2>1. PICK days \in [1..n -> 0..(n * IvPlan.maxDays)], chains \in [1..n -> IvChains] :
           /\ \A i \in 1..n : days[i] - (IF i = 1 THEN 0 ELSE days[i - 1]) \in {0, 1, IvPlan.maxDays}
           /\ case' = [kind |-> "iv", chains |-> chains, days |-> days]
    BY <2>a
  <2>2. case'.kind = "iv" /\ case'.days = days
    BY <2>1
  <2>3. n \in Nat \ {0} /\ IvPlan.maxDays \in Nat
    BY ResearchAssumption
  <2>4. PICK last \in Int : last = n * IvPlan.maxDays
    BY <2>3
  <2>5. days \in [1..n -> Int]
    BY <2>4
  <2>6. ASSUME NEW i \in 1..n, i > 1 PROVE days[i - 1] <= days[i]
    <3>1. i - 1 \in 1..n /\ days[i - 1] \in Int /\ days[i] \in Int
      BY <2>3, <2>5, <2>6
    <3>2. days[i] - days[i - 1] \in {0, 1, IvPlan.maxDays}
      BY <2>1, <2>6
    <3> QED  BY <2>3, <3>1, <3>2
  <2>7. IvAsked'
    BY <2>2, <2>3, <2>5, <2>6, Zenon DEF IvAsked
  <2> QED  BY <2>2, <2>7 DEF Asked, SizeAsked, ProposalAsked, CalendarAsked, BookAsked, ReplayAsked, ScanAsked
<1>11. CASE ScanChain
  <2>1. PICK q \in [Listed -> Quotes], answered \in Enriched : \E size \in [answered -> BrokerSizes] :
           case' = [kind |-> "scan",
                    chain |-> {[type |-> c.type, strike |-> c.strike, expiry |-> c.expiry,
                                size |-> IF c \in answered THEN size[c] ELSE c.size,
                                bid |-> q[c].bid, ask |-> q[c].ask, last |-> 0,
                                interest |-> q[c].interest, volume |-> 0] : c \in Listed}]
    BY <1>11 DEF ScanChain
  <2>2. PICK size \in [answered -> BrokerSizes] :
           case' = [kind |-> "scan",
                    chain |-> {[type |-> c.type, strike |-> c.strike, expiry |-> c.expiry,
                                size |-> IF c \in answered THEN size[c] ELSE c.size,
                                bid |-> q[c].bid, ask |-> q[c].ask, last |-> 0,
                                interest |-> q[c].interest, volume |-> 0] : c \in Listed}]
    BY <2>1
  <2>3. case'.kind = "scan"
    BY <2>2
  <2>4. ASSUME NEW d \in case'.chain PROVE IsContract(d)
    <3>1. PICK c \in Listed : d = [type |-> c.type, strike |-> c.strike, expiry |-> c.expiry,
                                  size |-> IF c \in answered THEN size[c] ELSE c.size,
                                  bid |-> q[c].bid, ask |-> q[c].ask, last |-> 0,
                                  interest |-> q[c].interest, volume |-> 0]
      BY <2>2
    <3>2. q[c] \in Quotes
      OBVIOUS
    <3>3. (IF c \in answered THEN size[c] ELSE c.size) \in Nat \ {0}
      BY DeskAssumption
    <3> QED  BY <3>1, <3>2, <3>3, DeskAssumption DEF IsContract
  <2>5. ScanAsked'
    BY <2>4 DEF ScanAsked
  <2> QED  BY <2>3, <2>5 DEF Asked, SizeAsked, ProposalAsked, CalendarAsked, BookAsked, ReplayAsked, IvAsked
<1> QED  BY <1>1, <1>3, <1>4, <1>5, <1>6, <1>7, <1>8, <1>9, <1>10, <1>11 DEF Next, Ask

LEMMA OnlyAsked == Spec => []Asked
BY AskedStarts, AskedStep, PTL DEF Spec


-----------------------------------------------------------------------------
(* The size of a signal.                                                   *)

LEMMA MaxOfTwo ==
    ASSUME NEW a \in Int, NEW b \in Int
    PROVE  /\ Risk!Max({a, b}) \in {a, b}
           /\ Risk!Max({a, b}) >= a /\ Risk!Max({a, b}) >= b
<1>1. \E x \in {a, b} : \A y \in {a, b} : x >= y
  OBVIOUS
<1> QED  BY <1>1 DEF Risk!Max

LEMMA SmallestOfThree ==
    ASSUME NEW a \in Int, NEW b \in Int, NEW c \in Int
    PROVE  /\ Risk!Smallest(a, b, c) \in {a, b, c}
           /\ Risk!Smallest(a, b, c) <= a /\ Risk!Smallest(a, b, c) <= b /\ Risk!Smallest(a, b, c) <= c
<1>1. \E x \in {a, b, c} : \A y \in {a, b, c} : x <= y
  OBVIOUS
<1> QED  BY <1>1 DEF Risk!Smallest, Risk!Min

\* So many times the divisor fit the dividend.
LEMMA QuotientFits ==
    ASSUME NEW e \in Int, NEW d \in Nat \ {0}, NEW n \in Nat, n <= e \div d
    PROVE  n * d <= e
<1> DEFINE q == e \div d
<1>1. q \in Int /\ q * d <= e
  OBVIOUS
<1> HIDE DEF q
<1>2. n * d <= q * d
  <2>1. n <= q
    BY DEF q
  <2>2. (q - n) * d >= 0
    BY <1>1, <2>1
  <2>3. (q - n) * d = q * d - n * d
    BY <1>1
  <2> QED  BY <1>1, <2>2, <2>3
<1> QED  BY <1>1, <1>2

LEMMA ThousandthsOf == \A x \in Int : (1000 * x) \div 1000 = x
OBVIOUS

Tenths(t) == 10000 * t
IsNear(x, a) == -5000 <= x - a /\ x - a <= 5000

\* A rounded amount is a number of tenths, half a tenth away at most.
LEMMA RoundedIs ==
    ASSUME NEW a \in Int, NEW x \in Risk!Rounded(a)
    PROVE  \E t \in Int : x = Tenths(t) /\ IsNear(x, a)
<1>1. x = Risk!Tenth * (a \div Risk!Tenth) \/ x = Risk!Tenth * (a \div Risk!Tenth) + Risk!Tenth
  BY DEF Risk!Rounded
<1>2. Risk!Tenth = 10000 /\ Risk!HalfTenth = 5000
  BY DEF Risk!Tenth, Risk!HalfTenth, Risk!Unit, Risk!Mill
<1>3. PICK q \in Int : q = a \div 10000
  OBVIOUS
<1>4. q + 1 \in Int /\ IsNear(x, a)
  <2>1. x - a \in -Risk!HalfTenth..Risk!HalfTenth
    BY DEF Risk!Rounded
  <2>2. PICK h \in Int : h = Risk!HalfTenth
    BY <1>2
  <2>3. x - a \in -h..h
    BY <2>1, <2>2, Zenon
  <2>4. -h <= x - a /\ x - a <= h
    BY <2>3
  <2>5. h = 5000
    BY <1>2, <2>2
  <2> QED  BY <1>3, <2>4, <2>5 DEF IsNear
<1>5. x = Tenths(q) \/ x = Tenths(q + 1)
  BY <1>1, <1>2, <1>3 DEF Tenths
<1> QED  BY <1>4, <1>5, Zenon

\* The exact stop, moved by d hundredths.
NearStop(p, ps, isBuy, d) == 1000 * (100 * p - Risk!Toward(isBuy, ps) + d)

\* A rounded price is a whole number of hundredths, within half a tenth of y.
IsWithin(x, y) == \E d \in -5..5 : x = 1000 * (y + d)

LEMMA TenthsAreWithin ==
    ASSUME NEW t \in Int, NEW y \in Int, IsNear(Tenths(t), 1000 * y)
    PROVE  IsWithin(Tenths(t), y)
<1>1. PICK d \in Int : d = 10 * t - y
  <2>1. 10 * t - y \in Int
    OBVIOUS
  <2> QED  BY <2>1, Zenon
<1>2. -5000 <= 10000 * t - 1000 * y /\ 10000 * t - 1000 * y <= 5000
  BY DEF IsNear, Tenths
<1>3. d \in -5..5 /\ 10000 * t = 1000 * (y + d)
  BY <1>1, <1>2
<1>4. d \in -5..5 /\ Tenths(t) = 1000 * (y + d)
  BY <1>3 DEF Tenths
<1> QED  BY <1>4 DEF IsWithin

\* A stop is the exact one, moved by no more than half a tenth.
LEMMA StopIsNear ==
    ASSUME NEW l, l.stop \in Nat, NEW p \in Int, NEW isBuy \in BOOLEAN, NEW x \in Risk!StopLosses(l, p, isBuy)
    PROVE  \E d \in -5..5 : x = NearStop(p, p * l.stop, isBuy, d)
<1>1. PICK y \in Int : y = 100 * p - Risk!Toward(isBuy, p * l.stop)
  BY DEF Risk!Toward
<1>2. p * 1000 * (100 - Risk!Toward(isBuy, l.stop)) = 1000 * y
  BY <1>1 DEF Risk!Toward
<1>3. x \in Risk!Rounded(1000 * y)
  BY <1>2 DEF Risk!StopLosses, Risk!Mill
<1>4. IsWithin(x, y)
  <2>1. 1000 * y \in Int
    BY <1>1
  <2>2. PICK t \in Int : x = Tenths(t) /\ IsNear(x, 1000 * y)
    BY <1>3, <2>1, RoundedIs
  <2>3. IsNear(Tenths(t), 1000 * y)
    BY <2>2
  <2>4. IsWithin(Tenths(t), y)
    BY <1>1, <2>2, <2>3, TenthsAreWithin
  <2> QED  BY <2>2, <2>4, Zenon
<1>5. PICK d \in -5..5 : x = 1000 * (y + d)
  BY <1>4 DEF IsWithin
<1>6. x = NearStop(p, p * l.stop, isBuy, d)
  BY <1>1, <1>5 DEF NearStop
<1> QED  BY <1>6, Zenon

\* The money between the premium and such a stop, and the stop as a price.
PricesOf(p, ps, isBuy, d, x) ==
    /\ Risk!Toward(isBuy, Risk!Unit * p - x) = 1000 * ps - 1000 * Risk!Toward(isBuy, d)
    /\ x \div Risk!Mill = 100 * p - Risk!Toward(isBuy, ps) + d
LEMMA StopPrice ==
    ASSUME NEW p \in Int, NEW ps \in Int, NEW isBuy \in BOOLEAN, NEW d \in Int, NEW x,
           x = NearStop(p, ps, isBuy, d)
    PROVE  PricesOf(p, ps, isBuy, d, x)
<1>1. Risk!Unit = 100000 /\ Risk!Mill = 1000
  BY DEF Risk!Unit, Risk!Mill
<1>2. 100 * p - Risk!Toward(isBuy, ps) + d \in Int
  BY DEF Risk!Toward
<1>3. x \div Risk!Mill = 100 * p - Risk!Toward(isBuy, ps) + d
  BY <1>1, <1>2, ThousandthsOf DEF NearStop
<1>4. Risk!Toward(isBuy, Risk!Unit * p - x) = 1000 * ps - 1000 * Risk!Toward(isBuy, d)
  BY <1>1 DEF Risk!Toward, NearStop
<1> QED  BY <1>3, <1>4 DEF PricesOf

\* The same money, taken apart by what it depends on: n contracts of p * k that
\* move by s percent and pay a rate on each way.
LEMMA MoneyOfStop ==
    ASSUME NEW n \in Int, NEW p \in Int, NEW k \in Int, NEW s \in Int, NEW rate \in Int
    PROVE  /\ (1000 * (p * s)) * k * n = 1000 * ((n * p * k) * s)
           /\ (100 * p - p * s) * k * n * rate = 100 * ((n * p * k) * rate) - ((n * p * k) * s) * rate
           /\ (100 * p - (-(p * s))) * k * n * rate = 100 * ((n * p * k) * rate) + ((n * p * k) * s) * rate
OBVIOUS

\* A signal to size: the numbers are what the constants allow.
Sizable(c) ==
    /\ c.limits.equity \in Int /\ c.limits.riskPct \in Int /\ c.limits.positionPct \in Int
    /\ c.limits.stop \in Nat /\ c.limits.target \in Int /\ c.limits.maxContracts \in Int
    /\ c.fees.buy \in Nat /\ c.fees.sell \in Nat /\ c.fees.perOrder \in Nat
    /\ c.premium \in Int /\ c.size \in Int /\ c.isBuy \in BOOLEAN

Worth(c, n) == n * c.premium * c.size

\* The loss at the stop, and the risk of n contracts, by what they depend on.
LossOf(c, n) ==
    1000 * (Worth(c, n) * c.limits.stop)
    + 100 * (Worth(c, n) * c.fees.buy) + 100 * (Worth(c, n) * c.fees.sell) + 200000 * c.fees.perOrder
    + (IF c.isBuy THEN -((Worth(c, n) * c.limits.stop) * c.fees.sell)
                  ELSE (Worth(c, n) * c.limits.stop) * c.fees.buy)
\* What a stop that is d hundredths of a rial away adds.
MovedBy(c, n, d) == (d * ExitRate(c) - 1000 * Risk!Toward(c.isBuy, d)) * (c.size * n)
RiskOf(c, n) ==
    1000 * (Worth(c, n) * (IF c.isBuy THEN c.limits.stop ELSE 200))
    + 100 * (Worth(c, n) * c.fees.buy) + 100 * (Worth(c, n) * c.fees.sell) + n * (200000 * c.fees.perOrder)

LEMMA LossIs ==
    ASSUME NEW c, Sizable(c), NEW n \in Int, NEW d \in Int,
           c.stop = NearStop(c.premium, c.premium * c.limits.stop, c.isBuy, d)
    PROVE  LossAtStop(c, n) = LossOf(c, n) + MovedBy(c, n, d)
<1>a. PICK p \in Int, k \in Int, s \in Nat : c.premium = p /\ c.size = k /\ c.limits.stop = s
  BY SMT DEF Sizable
<1>f. PICK buy \in Nat, sell \in Nat, po \in Nat : c.fees.buy = buy /\ c.fees.sell = sell /\ c.fees.perOrder = po
  BY SMT DEF Sizable
<1>b. PICK w \in Int : w = n * p * k
  BY SMT
<1>0. /\ c.premium = p /\ c.size = k /\ c.limits.stop = s /\ c.isBuy \in BOOLEAN
      /\ c.fees.buy = buy /\ c.fees.sell = sell /\ c.fees.perOrder = po
      /\ Worth(c, n) = w /\ w = n * p * k
  BY <1>a, <1>b, <1>f DEF Sizable, Worth
<1>1. Risk!Mill = 1000
  BY DEF Risk!Mill
<1>2. /\ Risk!Toward(c.isBuy, Risk!Unit * p - c.stop) = 1000 * (p * s) - 1000 * Risk!Toward(c.isBuy, d)
      /\ c.stop \div Risk!Mill = 100 * p - Risk!Toward(c.isBuy, p * s) + d
  <2>1. PICK ps \in Int : ps = p * s
    BY SMT
  <2>2. PICK side \in BOOLEAN : side = c.isBuy
    BY <1>0
  <2>3. PICK x : x = c.stop
    OBVIOUS
  <2>4. x = NearStop(p, ps, side, d)
    BY <1>0, <2>1, <2>2, <2>3
  <2>5. PricesOf(p, ps, side, d, x)
    BY <2>4, StopPrice
  <2> QED  BY <2>1, <2>2, <2>3, <2>5 DEF PricesOf
<1> DEFINE base == (1000 * (p * s)) * k * n + 100 * Risk!EntryFee(c.fees, n * p * k, c.isBuy)
                   + (100 * p - Risk!Toward(c.isBuy, p * s)) * k * n * (IF c.isBuy THEN sell ELSE buy)
                   + 100 * 1000 * po
<1>3. base \in Int /\ LossAtStop(c, n) = base + MovedBy(c, n, d)
  <2>1. PICK rate \in Nat : rate = ExitRate(c) /\ rate = (IF c.isBuy THEN sell ELSE buy)
    BY <1>0, SMT DEF ExitRate
  <2>2. PICK a \in Int, b \in Int, e \in Int, fee \in Int :
           /\ a = 1000 * (p * s) /\ b = 100 * p - Risk!Toward(c.isBuy, p * s)
           /\ e = Risk!Toward(c.isBuy, d) /\ fee = Risk!EntryFee(c.fees, n * p * k, c.isBuy)
    <3>1. PICK ps \in Int : ps = p * s
      BY SMT
    <3>2. PICK a \in Int : a = 1000 * (p * s)
      BY <3>1
    <3>3. PICK b \in Int : b = 100 * p - Risk!Toward(c.isBuy, p * s)
      <4>1. Risk!Toward(c.isBuy, p * s) = (IF c.isBuy THEN ps ELSE -ps)
        BY <3>1 DEF Risk!Toward
      <4>2. 100 * p - Risk!Toward(c.isBuy, p * s) \in Int
        BY <4>1
      <4> QED  BY <4>2
    <3>4. PICK e \in Int : e = Risk!Toward(c.isBuy, d)
      BY DEF Risk!Toward
    <3>5. PICK fee \in Int : fee = Risk!EntryFee(c.fees, n * p * k, c.isBuy)
      <4>1. PICK r \in Nat : r = (IF c.isBuy THEN c.fees.buy ELSE c.fees.sell)
        BY <1>0
      <4>2. PICK x \in Int : x = (n * p * k) * r
        BY SMT
      <4>3. Risk!EntryFee(c.fees, n * p * k, c.isBuy) = x + 1000 * po
        BY <1>0, <1>1, <4>1, <4>2 DEF Risk!EntryFee
      <4> QED  BY <4>2, <4>3
    <3> QED  BY <3>2, <3>3, <3>4, <3>5
  <2>3. LossAtStop(c, n) = (a - 1000 * e) * k * n + 100 * fee + (b + d) * k * n * rate + 100 * 1000 * po
    BY <1>0, <1>1, <1>2, <2>1, <2>2 DEF LossAtStop
  <2>4. base = a * k * n + 100 * fee + b * k * n * rate + 100 * 1000 * po
    BY <2>1, <2>2
  <2>5. MovedBy(c, n, d) = (d * rate - 1000 * e) * (k * n)
    BY <1>0, <2>1, <2>2 DEF MovedBy
  <2> HIDE DEF base
  <2>6. PICK a1 \in Int, a2 \in Int, b1 \in Int, b2 \in Int, m \in Int :
           /\ a1 = a * k * n /\ a2 = (1000 * e) * (k * n)
           /\ b1 = b * k * n * rate /\ b2 = (d * rate) * (k * n) /\ m = (d * rate - 1000 * e) * (k * n)
    BY <2>1, <2>2, SMT
  <2>7. (a - 1000 * e) * k * n = a1 - a2 /\ (b + d) * k * n * rate = b1 + b2 /\ b2 - a2 = m
    <3>1. (a - 1000 * e) * k * n = a * k * n - (1000 * e) * (k * n)
      BY SMT
    <3>2. (b + d) * k * n * rate = b * k * n * rate + (d * rate) * (k * n)
      BY SMT
    <3>3. (d * rate) * (k * n) - (1000 * e) * (k * n) = (d * rate - 1000 * e) * (k * n)
      BY SMT
    <3> QED  BY <2>6, <3>1, <3>2, <3>3
  <2>8. base = a1 + 100 * fee + b1 + 100 * 1000 * po
    BY <2>4, <2>6
  <2>9. LossAtStop(c, n) = (a1 - a2) + 100 * fee + (b1 + b2) + 100 * 1000 * po
    BY <2>3, <2>7
  <2> QED  BY <2>2, <2>5, <2>6, <2>7, <2>8, <2>9, SMT
<1>4. Risk!EntryFee(c.fees, n * p * k, c.isBuy) = w * (IF c.isBuy THEN buy ELSE sell) + 1000 * po
  BY <1>0, <1>1, SMT DEF Risk!EntryFee
<1> HIDE DEF base
<1>5. (1000 * (p * s)) * k * n = 1000 * (w * s)
  BY <1>0, MoneyOfStop, SMT
<1>6. PICK x \in Int, y \in Int, z \in Int : x = w * s /\ y = w * buy /\ z = w * sell
  BY SMT
<1>7. ASSUME c.isBuy PROVE base = LossOf(c, n)
  <2>1. (100 * p - p * s) * k * n * sell = 100 * z - x * sell
    BY <1>0, <1>6, MoneyOfStop, SMT
  <2>2. PICK u \in Int : u = x * sell
    BY <1>6, SMT
  <2>3. base = 1000 * x + 100 * (y + 1000 * po) + (100 * z - u) + 100 * 1000 * po
    <3>1. base = (1000 * (p * s)) * k * n + 100 * Risk!EntryFee(c.fees, n * p * k, c.isBuy)
                             + (100 * p - p * s) * k * n * sell + 100 * 1000 * po
      BY <1>7, SMT DEF base, Risk!Toward
    <3>2. Risk!EntryFee(c.fees, n * p * k, c.isBuy) = y + 1000 * po
      BY <1>4, <1>6, <1>7
    <3>3. (1000 * (p * s)) * k * n = 1000 * x
      BY <1>5, <1>6
    <3>4. (100 * p - p * s) * k * n * sell = 100 * z - u
      BY <2>1, <2>2
    <3> QED  BY <3>1, <3>2, <3>3, <3>4
  <2>4. base = 1000 * x + 100 * y + 100 * z + 200000 * po + (-u)
    BY <1>6, <2>2, <2>3, SMT
  <2> QED  BY <1>0, <1>6, <1>7, <2>2, <2>4, SMT DEF LossOf
<1>8. ASSUME ~c.isBuy PROVE base = LossOf(c, n)
  <2>1. (100 * p - (-(p * s))) * k * n * buy = 100 * y + x * buy
    BY <1>0, <1>6, MoneyOfStop, SMT
  <2>2. PICK u \in Int : u = x * buy
    BY <1>6, SMT
  <2>3. base = 1000 * x + 100 * (z + 1000 * po) + (100 * y + u) + 100 * 1000 * po
    <3>1. PICK a \in Int : a = (1000 * (p * s)) * k * n
      BY SMT
    <3>2. PICK b \in Int : b = (100 * p - (-(p * s))) * k * n * buy
      BY SMT
    <3>3. PICK e \in Int : e = Risk!EntryFee(c.fees, n * p * k, c.isBuy) /\ e = z + 1000 * po
      BY <1>4, <1>6, <1>8
    <3>4. base = a + 100 * e + b + 100 * 1000 * po
      BY <1>8, <3>1, <3>2, <3>3, SMT DEF base, Risk!Toward
    <3>5. a = 1000 * x /\ b = 100 * y + u
      BY <1>5, <1>6, <2>1, <2>2, <3>1, <3>2
    <3> QED  BY <3>3, <3>4, <3>5, SMT
  <2>4. base = 1000 * x + 100 * y + 100 * z + 200000 * po + u
    BY <1>6, <2>2, <2>3, SMT
  <2> QED  BY <1>0, <1>6, <1>8, <2>2, <2>4, SMT DEF LossOf
<1>9. base = LossOf(c, n)
  BY <1>0, <1>7, <1>8
<1> QED  BY <1>3, <1>9

\* A seller's stop, with the fee of buying back at it, stays within the twice
\* the premium that the size is reckoned with.
StopsAreNear == \A l \in Limits, f \in Fees : l.stop * (Risk!Mill + f.buy) <= 200 * Risk!Mill

\* The size divides the budget by at least what a contract loses at the stop.
LEMMA SizedLossFits ==
    ASSUME NEW c, Sizable(c), NEW n \in Nat \ {0}, Worth(c, n) \in Nat,
           ~c.isBuy => c.limits.stop * (1000 + c.fees.buy) <= 200000
    PROVE  LossOf(c, n) <= RiskOf(c, n)
<1>a. PICK s \in Nat, w \in Nat : c.limits.stop = s /\ Worth(c, n) = w
  BY SMT DEF Sizable
<1>b. PICK buy \in Nat, sell \in Nat, po \in Nat : c.fees.buy = buy /\ c.fees.sell = sell /\ c.fees.perOrder = po
  BY SMT DEF Sizable
<1>c. c.isBuy \in BOOLEAN
  BY DEF Sizable
<1>0. /\ c.limits.stop = s /\ c.isBuy \in BOOLEAN
      /\ c.fees.buy = buy /\ c.fees.sell = sell /\ c.fees.perOrder = po /\ Worth(c, n) = w
      /\ ~c.isBuy => s * (1000 + buy) <= 200000
  BY <1>a, <1>b, <1>c, SMT
<1>1. 200000 * po <= n * (200000 * po)
  <2>1. (n - 1) * (200000 * po) >= 0
    BY SMT
  <2>2. (n - 1) * (200000 * po) = n * (200000 * po) - 200000 * po
    BY SMT
  <2> QED  BY <2>1, <2>2, SMT
<1>2. CASE c.isBuy
  <2>1. (w * s) * sell >= 0
    BY SMT
  <2>2. 1000 * (w * s) + 100 * (w * buy) + 100 * (w * sell) + 200000 * po + (-((w * s) * sell))
          <= 1000 * (w * s) + 100 * (w * buy) + 100 * (w * sell) + n * (200000 * po)
    BY <1>1, <2>1, SMT
  <2> QED  BY <1>0, <1>2, <2>2, SMT DEF LossOf, RiskOf
<1>3. CASE ~c.isBuy
  <2>1. w * (s * (1000 + buy)) <= w * 200000
    <3>1. w * (200000 - s * (1000 + buy)) >= 0
      BY <1>0, <1>3, SMT
    <3>2. w * (200000 - s * (1000 + buy)) = w * 200000 - w * (s * (1000 + buy))
      BY SMT
    <3> QED  BY <3>1, <3>2, SMT
  <2>2. w * (s * (1000 + buy)) = 1000 * (w * s) + (w * s) * buy
    BY SMT
  <2>3. 1000 * (w * s) + 100 * (w * buy) + 100 * (w * sell) + 200000 * po + (w * s) * buy
          <= 1000 * (w * 200) + 100 * (w * buy) + 100 * (w * sell) + n * (200000 * po)
    BY <1>1, <2>1, <2>2, SMT
  <2> QED  BY <1>0, <1>3, <2>3, SMT DEF LossOf, RiskOf
<1> QED  BY <1>0, <1>2, <1>3

RiskPerOne(c) == Risk!RiskPerContract(c.limits, c.fees, c.premium * c.size, c.isBuy)

LEMMA SizeFits ==
    ASSUME NEW c, Sizable(c), SizeOf(c) > 0
    PROVE  /\ SizeOf(c) \in Nat \ {0} /\ c.premium > 0 /\ c.size > 0 /\ SizeOf(c) <= c.limits.maxContracts
           /\ RiskPerOne(c) \in Int
           /\ SizeOf(c) * RiskPerOne(c) <= c.limits.equity * c.limits.riskPct * Risk!Mill
           /\ SizeOf(c) * (100 * (c.premium * c.size)) <= c.limits.equity * c.limits.positionPct
<1> DEFINE l == c.limits
           p == c.premium
           k == c.size
           n == SizeOf(c)
<1>1. p > 0 /\ k > 0
  BY DEF Sizable, SizeOf, Risk!Quantity
<1>2. PICK cost \in Nat \ {0} : cost = p * k
  <2>1. p * k \in Nat \ {0}
    BY <1>1, SMT DEF Sizable
  <2> QED  BY <2>1
<1>3. PICK risk \in Int : risk = RiskPerOne(c)
  <2>1. RiskPerOne(c) \in Int
    BY SMT DEF Sizable, RiskPerOne, Risk!RiskPerContract, Risk!RoundTripFee, Risk!EntryFee, Risk!ExitFee, Risk!Mill
  <2> QED  BY <2>1
<1>4. PICK d \in Nat \ {0} : d = Risk!Max({risk, 1}) /\ risk <= d
  <2>1. /\ Risk!Max({risk, 1}) \in {risk, 1}
        /\ Risk!Max({risk, 1}) >= risk /\ Risk!Max({risk, 1}) >= 1
    <3> USE MaxOfTwo
    <3> QED  BY 1 \in Int, risk \in Int, Zenon
  <2> QED  BY <2>1, SMT
<1>5. PICK budget \in Int, exposure \in Int, most \in Int :
         /\ budget = l.equity * l.riskPct * Risk!Mill /\ exposure = l.equity * l.positionPct
         /\ most = l.maxContracts
  BY SMT DEF Risk!Mill, Sizable
<1>6. PICK byRisk \in Int, byExposure \in Int :
         byRisk = budget \div d /\ byExposure = exposure \div (100 * cost)
  BY SMT
<1>7. n = Risk!Max({0, Risk!Smallest(byRisk, byExposure, most)})
  BY <1>1, <1>2, <1>3, <1>4, <1>5, <1>6, SMT DEF Risk!Quantity, SizeOf, RiskPerOne, Sizable
<1>8. PICK m \in Int : /\ m = Risk!Smallest(byRisk, byExposure, most)
                       /\ m <= byRisk /\ m <= byExposure /\ m <= most
  <2> DEFINE least == Risk!Smallest(byRisk, byExposure, most)
  <2>1. /\ least \in {byRisk, byExposure, most}
        /\ least <= byRisk /\ least <= byExposure /\ least <= most
    BY SmallestOfThree
  <2> HIDE DEF least
  <2>2. least \in Int
    BY <2>1
  <2> QED  BY <2>1, <2>2 DEF least
<1> HIDE DEF n
<1>9. n = m /\ n \in Nat \ {0}
  <2>1. n > 0
    BY DEF n
  <2>2. Risk!Max({0, m}) \in {0, m} /\ Risk!Max({0, m}) >= 0
    BY MaxOfTwo
  <2> QED  BY <1>7, <1>8, <2>1, <2>2, SMT
<1>10. n * risk <= budget
  <2>1. n * d <= budget
    BY <1>6, <1>8, <1>9, QuotientFits
  <2>2. n * (d - risk) >= 0
    BY <1>4, <1>9, SMT
  <2>3. n * (d - risk) = n * d - n * risk
    BY <1>9, SMT
  <2> QED  BY <1>9, <2>1, <2>2, <2>3, SMT
<1>11. n * (100 * cost) <= exposure
  <2>1. 100 * cost \in Nat \ {0}
    BY SMT
  <2> QED  BY <1>6, <1>8, <1>9, <2>1, QuotientFits
<1> QED  BY <1>1, <1>2, <1>3, <1>5, <1>8, <1>9, <1>10, <1>11 DEF n

LEMMA RiskIs ==
    ASSUME NEW c, Sizable(c), NEW n \in Int
    PROVE  n * RiskPerOne(c) = RiskOf(c, n)
<1>0. PICK s \in Nat, buy \in Nat, sell \in Nat, po \in Nat, share \in Int, cost \in Int :
        /\ c.limits.stop = s /\ c.isBuy \in BOOLEAN /\ (IF c.isBuy THEN s ELSE 200) = share
        /\ c.fees.buy = buy /\ c.fees.sell = sell /\ c.fees.perOrder = po
        /\ c.premium * c.size = cost /\ Worth(c, n) = n * cost
  <2>1. PICK p \in Int, k \in Int : c.premium = p /\ c.size = k
    BY SMT DEF Sizable
  <2>2. PICK cost \in Int : cost = p * k
    BY SMT
  <2>3. Worth(c, n) = n * cost
    <3>1. n * p * k = n * cost
      BY <2>2
    <3> QED  BY <2>1, <3>1 DEF Worth
  <2>4. PICK share \in Int : (IF c.isBuy THEN c.limits.stop ELSE 200) = share
    BY SMT DEF Sizable
  <2> QED  BY <2>1, <2>2, <2>3, <2>4, SMT DEF Sizable
<1>1. Risk!RoundTripFee(c.fees, cost, c.isBuy) = cost * buy + cost * sell + 2000 * po
  BY <1>0, SMT DEF Risk!RoundTripFee, Risk!EntryFee, Risk!ExitFee, Risk!Mill
<1>2. RiskPerOne(c) = 1000 * (cost * share) + 100 * (cost * buy + cost * sell + 2000 * po)
  BY <1>0, <1>1, SMT DEF RiskPerOne, Risk!RiskPerContract, Risk!Mill
<1>3. n * (1000 * (cost * share) + 100 * (cost * buy + cost * sell + 2000 * po))
        = 1000 * ((n * cost) * share) + 100 * ((n * cost) * buy) + 100 * ((n * cost) * sell)
          + n * (200000 * po)
  BY SMT
<1>4. RiskOf(c, n) = 1000 * ((n * cost) * share) + 100 * ((n * cost) * buy) + 100 * ((n * cost) * sell)
                     + n * (200000 * po)
  BY <1>0, SMT DEF RiskOf
<1> QED  BY <1>2, <1>3, <1>4, SMT

\* Half a tenth, either way, costs no more than what is granted for it.
LEMMA RoundingIsGranted ==
    ASSUME NEW c, Sizable(c), c.size \in Nat, NEW n \in Nat, NEW d \in -5..5
    PROVE  MovedBy(c, n, d) <= RoundingOfStop(c, n)
<1>1. PICK rate \in Nat : rate = ExitRate(c)
  BY DEF Sizable, ExitRate
<1>2. PICK w \in Nat : w = c.size * n
  BY SMT
<1>3. PICK m \in Int : m = d * rate - 1000 * Risk!Toward(c.isBuy, d) /\ m <= 5 * (1000 + rate)
  <2>1. (5 - d) * rate >= 0 /\ (5 - d) * rate = 5 * rate - d * rate
    BY <1>1, SMT
  <2>2. -1000 * Risk!Toward(c.isBuy, d) <= 5000 /\ Risk!Toward(c.isBuy, d) \in Int
    BY DEF Risk!Toward
  <2>3. PICK x \in Int : x = d * rate
    BY <1>1
  <2> QED  BY <1>1, <2>1, <2>2, <2>3
<1>4. MovedBy(c, n, d) = m * w
  BY <1>1, <1>2, <1>3 DEF MovedBy
<1>5. RoundingOfStop(c, n) = (5 * (1000 + rate)) * w
  <2>1. Risk!HalfTenth \div Risk!Mill = 5 /\ Risk!Mill = 1000
    BY DEF Risk!HalfTenth, Risk!Tenth, Risk!Unit, Risk!Mill
  <2>2. RoundingOfStop(c, n) = 5 * (1000 + rate) * c.size * n
    BY <1>1, <2>1 DEF RoundingOfStop
  <2>3. c.size \in Nat
    OBVIOUS
  <2>4. 5 * (1000 + rate) * c.size * n = (5 * (1000 + rate)) * (c.size * n)
    BY <1>1, <2>3, SMT
  <2> QED  BY <1>2, <2>2, <2>4
<1>6. (5 * (1000 + rate) - m) * w >= 0
  BY <1>1, <1>2, <1>3, SMT
<1>7. (5 * (1000 + rate) - m) * w = (5 * (1000 + rate)) * w - m * w
  BY <1>1, <1>2, <1>3, SMT
<1>8. m * w \in Int /\ (5 * (1000 + rate)) * w \in Int
  BY <1>1, <1>2, <1>3, SMT
<1> QED  BY <1>4, <1>5, <1>6, <1>7, <1>8

\* Whatever the limits, the fees and the premium, and on either side: a signal
\* stopped out, at the stop that is printed, loses no more than the risk budget
\* and what the rounding moved the stop, with the fees of both ways, and fits the
\* exposure limit and the contract limit (evaluate, risk_calculator.py:69-115,
\* fees.py:58-80). For stops that are near: the code reckons a seller's risk as
\* twice the premium and does not look at the stop.
THEOREM StopsKeepTheBudget ==
    ASSUME StopsAreNear
    PROVE  Spec => []StopKeepsTheBudget
<1>1. Asked => StopKeepsTheBudget
  <2> SUFFICES ASSUME SizeAsked, case.kind = "risk", SizeOf(case) > 0
               PROVE  /\ LossAtStop(case, SizeOf(case)) <= Budget(case) + RoundingOfStop(case, SizeOf(case))
                      /\ 100 * SizeOf(case) * case.premium * case.size <= case.limits.equity * case.limits.positionPct
                      /\ SizeOf(case) <= case.limits.maxContracts
    BY DEF Asked, StopKeepsTheBudget
  <2>1. PICK l \in Limits, f \in Fees, p \in Premiums, side \in BOOLEAN, e \in Int :
           \E stop \in Risk!StopLosses([l EXCEPT !.equity = e], p, side) :
           \E target \in Risk!TakeProfits([l EXCEPT !.equity = e], f, p, side) :
              case = [kind |-> "risk", limits |-> [l EXCEPT !.equity = e], fees |-> f,
                      premium |-> p, size |-> 10, isBuy |-> side, stop |-> stop, target |-> target]
    BY Zenon DEF SizeAsked, IsToSize
  <2>2. /\ case.limits = [l EXCEPT !.equity = e] /\ case.fees = f /\ case.premium = p
        /\ case.size = 10 /\ case.isBuy = side
        /\ case.stop \in Risk!StopLosses(case.limits, case.premium, case.isBuy)
    BY <2>1
  <2>3. Sizable(case) /\ case.limits.stop = l.stop
    BY <2>2, DeskAssumption, SMT DEF Sizable
  <2>4. PICK n : n = SizeOf(case)
    OBVIOUS
  <2>5. /\ n \in Nat \ {0} /\ case.premium > 0 /\ n <= case.limits.maxContracts
        /\ RiskPerOne(case) \in Int
        /\ n * RiskPerOne(case) <= Budget(case)
        /\ n * (100 * (case.premium * case.size)) <= case.limits.equity * case.limits.positionPct
    BY <2>3, <2>4, SizeFits DEF Budget
  <2>6. case.limits.stop * (1000 + case.fees.buy) <= 200000
    BY <2>2, <2>3, SMT DEF StopsAreNear, Risk!Mill
  <2>7. Worth(case, n) \in Nat
    BY <2>2, <2>3, <2>5, SMT DEF Worth, Sizable
  <2>8. PICK d \in -5..5 :
           case.stop = NearStop(case.premium, case.premium * case.limits.stop, case.isBuy, d)
    <3>1. /\ case.limits.stop \in Nat /\ case.premium \in Int /\ case.isBuy \in BOOLEAN
          /\ case.stop \in Risk!StopLosses(case.limits, case.premium, case.isBuy)
      BY <2>2, <2>3 DEF Sizable
    <3> QED  BY <3>1, StopIsNear, Zenon
  <2>9. PICK loss \in Int, risk \in Int, moved \in Int, slack \in Int, budget \in Int :
           /\ loss = LossOf(case, n) /\ risk = n * RiskPerOne(case)
           /\ moved = MovedBy(case, n, d) /\ slack = RoundingOfStop(case, n) /\ budget = Budget(case)
    <3>1. LossOf(case, n) \in Int
      BY <2>3, <2>7, SMT DEF LossOf, Sizable
    <3>2. n * RiskPerOne(case) \in Int
      BY <2>5, SMT
    <3>3. ExitRate(case) \in Int /\ Risk!Toward(case.isBuy, d) \in Int /\ case.size = 10
      BY <2>2, <2>3 DEF Sizable, ExitRate, Risk!Toward
    <3>4. MovedBy(case, n, d) \in Int
      BY <2>5, <3>3, SMT DEF MovedBy
    <3>5. RoundingOfStop(case, n) \in Int
      BY <2>5, <3>3, SMT DEF RoundingOfStop, Risk!HalfTenth, Risk!Tenth, Risk!Unit, Risk!Mill
    <3>6. Budget(case) \in Int
      BY <2>3, SMT DEF Budget, Risk!Mill, Sizable
    <3> QED  BY <3>1, <3>2, <3>4, <3>5, <3>6
  <2>10. LossAtStop(case, n) = loss + moved
    BY <2>3, <2>5, <2>8, <2>9, LossIs
  <2>11. loss <= risk
    <3>1. n * RiskPerOne(case) = RiskOf(case, n)
      BY <2>3, <2>5, RiskIs
    <3>2. LossOf(case, n) <= RiskOf(case, n)
      BY <2>3, <2>5, <2>6, <2>7, SizedLossFits
    <3> QED  BY <2>9, <3>1, <3>2
  <2>12. moved <= slack
    BY <2>2, <2>3, <2>5, <2>9, RoundingIsGranted
  <2>13. LossAtStop(case, n) <= Budget(case) + RoundingOfStop(case, n)
    BY <2>5, <2>9, <2>10, <2>11, <2>12
  <2>14. 100 * n * case.premium * case.size <= case.limits.equity * case.limits.positionPct
    <3>1. 100 * n * case.premium * case.size = n * (100 * (case.premium * case.size))
      BY <2>3, <2>5, SMT DEF Sizable
    <3> QED  BY <2>5, <3>1
  <2> QED  BY <2>4, <2>5, <2>13, <2>14
<1> QED  BY OnlyAsked, <1>1, PTL

-----------------------------------------------------------------------------
(* Sums.                                                                   *)

Add(a, b) == a + b
Adds == INSTANCE SequenceFacts WITH Op <- Add

\* The running sums of n numbers.
SumsTo(v, n, acc) ==
    /\ acc[0] = 0
    /\ \A i \in 1..n : acc[i] = acc[i - 1] + v[i]
    /\ \A i \in 0..n : acc[i] \in Int

LEMMA WalkSums ==
    ASSUME NEW n \in Nat, NEW v, \A i \in 1..n : v[i] \in Int, NEW acc, Adds!Walk(acc, 0, v, n)
    PROVE  SumsTo(v, n, acc)
<1>1. acc[0] = 0 /\ \A i \in 1..n : acc[i] = acc[i - 1] + v[i]
  BY DEF Adds!Walk, Add
<1> DEFINE A == {i \in 0..n : acc[i] \in Int}
<1>2. 0 \in A
  BY <1>1
<1>3. ASSUME NEW i \in 0..(n - 1), i \in A PROVE i + 1 \in A
  <2>1. i + 1 \in 1..n /\ (i + 1) - 1 = i /\ i + 1 \in 0..n
    OBVIOUS
  <2>2. acc[i + 1] = acc[i] + v[i + 1]
    BY <1>1, <2>1
  <2> QED  BY <1>3, <2>1, <2>2
<1>4. \A i \in 0..n : i \in A
  <2> HIDE DEF A
  <2> QED  BY <1>2, <1>3, Adds!UpTo
<1> QED  BY <1>1, <1>4 DEF SumsTo

SumOf(v) == FoldLeft(+, 0, v)

LEMMA FoldedIsAdded ==
    ASSUME NEW v
    PROVE  SumOf(v) = Adds!FoldLeft(Add, 0, v)
  BY Zenon DEF SumOf, FoldLeft, Adds!FoldLeft, MapThenFoldSet, Adds!MapThenFoldSet, Max, Adds!Max, Add

Summed(v, n, acc) == Adds!Walk(acc, 0, v, n) /\ SumsTo(v, n, acc) /\ SumOf(v) = acc[n]

LEMMA SumIs ==
    ASSUME NEW n \in Nat, NEW v, DOMAIN v = 1..n, \A i \in 1..n : v[i] \in Int
    PROVE  \E acc : Summed(v, n, acc)
<1>1. PICK acc : Adds!Walk(acc, 0, v, n) /\ Adds!FoldLeft(Add, 0, v) = acc[n]
  BY Adds!FoldLeftWalks
<1> QED  BY <1>1, WalkSums, FoldedIsAdded DEF Summed

\* n numbers.
Numbers(v, n) == DOMAIN v = 1..n /\ \A i \in 1..n : v[i] \in Int

LEMMA SumIsNumber ==
    ASSUME NEW n \in Nat, NEW v, Numbers(v, n)
    PROVE  SumOf(v) \in Int
<1>1. PICK acc : Summed(v, n, acc)
  BY SumIs DEF Numbers
<1>2. n \in 0..n
  OBVIOUS
<1> QED  BY <1>1, <1>2 DEF Summed, SumsTo

\* A number more at one place is a number more of the sum.
Bumped(v, w, n, p, c) ==
    /\ Numbers(v, n) /\ Numbers(w, n) /\ p \in 1..n /\ c \in Int
    /\ w[p] = v[p] + c /\ \A i \in 1..n : i # p => w[i] = v[i]

LEMMA SumOfBumped ==
    ASSUME NEW n \in Nat, NEW v, NEW w, NEW p, NEW c, Bumped(v, w, n, p, c)
    PROVE  SumOf(w) = SumOf(v) + c
<1>1. PICK a : Summed(v, n, a)
  BY SumIs DEF Numbers, Bumped
<1>2. PICK b : Summed(w, n, b)
  BY SumIs DEF Numbers, Bumped
<1> DEFINE A == {i \in 0..n : b[i] = a[i] + (IF i >= p THEN c ELSE 0)}
<1>3. 0 \in A
  BY <1>1, <1>2 DEF Summed, SumsTo, Bumped
<1>4. ASSUME NEW i \in 0..(n - 1), i \in A PROVE i + 1 \in A
  <2>1. i + 1 \in 1..n /\ (i + 1) - 1 = i /\ i + 1 \in 0..n /\ i \in 0..n /\ p \in Int /\ c \in Int
    BY DEF Bumped
  <2>2. a[i + 1] = a[i] + v[i + 1] /\ b[i + 1] = b[i] + w[i + 1] /\ a[i] \in Int /\ b[i] \in Int
    BY <1>1, <1>2, <2>1 DEF Summed, SumsTo
  <2>3. v[i + 1] \in Int /\ w[i + 1] \in Int
    BY <2>1 DEF Bumped, Numbers
  <2>4. b[i] = a[i] + (IF i >= p THEN c ELSE 0)
    BY <1>4
  <2>5. CASE i + 1 = p
    <3>1. w[i + 1] = v[i + 1] + c
      BY <2>5 DEF Bumped
    <3>2. b[i + 1] = a[i + 1] + c
      BY <2>1, <2>2, <2>3, <2>4, <2>5, <3>1
    <3> QED  BY <2>1, <2>5, <3>2
  <2>6. CASE i + 1 # p
    <3>1. w[i + 1] = v[i + 1]
      BY <2>1, <2>6 DEF Bumped
    <3>2. i + 1 >= p <=> i >= p
      BY <2>1, <2>6
    <3>3. b[i + 1] = a[i + 1] + (IF i + 1 >= p THEN c ELSE 0)
      BY <2>1, <2>2, <2>3, <2>4, <3>1, <3>2
    <3> QED  BY <2>1, <3>3
  <2> QED  BY <2>5, <2>6
<1>5. \A i \in 0..n : i \in A
  <2> HIDE DEF A
  <2> QED  BY <1>3, <1>4, Adds!UpTo
<1>6. n \in 0..n /\ n >= p
  BY DEF Bumped
<1> QED  BY <1>1, <1>2, <1>5, <1>6 DEF Summed

\* Smaller numbers have a smaller sum.
LEMMA SumOfSmaller ==
    ASSUME NEW n \in Nat, NEW v, NEW w, Numbers(v, n), Numbers(w, n), \A i \in 1..n : v[i] <= w[i]
    PROVE  SumOf(v) <= SumOf(w)
<1>1. PICK a : Summed(v, n, a)
  BY SumIs DEF Numbers
<1>2. PICK b : Summed(w, n, b)
  BY SumIs DEF Numbers
<1> DEFINE A == {i \in 0..n : a[i] <= b[i]}
<1>3. 0 \in A
  BY <1>1, <1>2 DEF Summed, SumsTo
<1>4. ASSUME NEW i \in 0..(n - 1), i \in A PROVE i + 1 \in A
  <2>1. i + 1 \in 1..n /\ (i + 1) - 1 = i /\ i + 1 \in 0..n /\ i \in 0..n
    OBVIOUS
  <2>2. a[i + 1] = a[i] + v[i + 1] /\ b[i + 1] = b[i] + w[i + 1] /\ a[i] \in Int /\ b[i] \in Int
    BY <1>1, <1>2, <2>1 DEF Summed, SumsTo
  <2>3. v[i + 1] \in Int /\ w[i + 1] \in Int /\ v[i + 1] <= w[i + 1] /\ a[i] <= b[i]
    BY <1>4, <2>1 DEF Numbers
  <2> QED  BY <2>1, <2>2, <2>3
<1>5. \A i \in 0..n : i \in A
  <2> HIDE DEF A
  <2> QED  BY <1>3, <1>4, Adds!UpTo
<1>6. n \in 0..n
  OBVIOUS
<1> QED  BY <1>1, <1>2, <1>5, <1>6 DEF Summed

\* The places 1..m of an order name the members of R, each once.
Arranges(order, m, R, n) ==
    /\ m \in Nat /\ n \in Nat /\ R \subseteq 1..n /\ DOMAIN order = 1..m
    /\ \A k \in 1..m : order[k] \in R
    /\ \A i \in R : \E k \in 1..m : order[k] = i
    /\ \A k, l \in 1..m : order[k] = order[l] => k = l

\* The numbers w are those of v outside R none, taken in an order.
Rearranged(order, m, R, n, v, w) ==
    /\ Arranges(order, m, R, n)
    /\ v = [i \in 1..n |-> v[i]]
    /\ Numbers(v, n) /\ \A i \in 1..n : i \notin R => v[i] = 0
    /\ DOMAIN w = 1..m /\ \A k \in 1..m : w[k] = v[order[k]]

\* The order numbers are added in does not matter.
LEMMA SumOfRearranged ==
    ASSUME NEW order, NEW m, NEW R, NEW n, NEW v, NEW w, Rearranged(order, m, R, n, v, w)
    PROVE  SumOf(w) = SumOf(v)
<1> DEFINE part(k) == [i \in 1..n |-> IF \E j \in 1..k : order[j] = i THEN v[i] ELSE 0]
<1>1. m \in Nat /\ n \in Nat
  BY DEF Rearranged, Arranges
<1>2. \A k \in 1..m : order[k] \in 1..n /\ v[order[k]] \in Int
  BY DEF Rearranged, Arranges, Numbers
<1>3. PICK a : Summed(w, m, a)
  BY <1>1, <1>2, SumIs DEF Rearranged
<1> DEFINE A == {k \in 0..m : a[k] = SumOf(part(k))}
<1>4. \A k \in 0..m : Numbers(part(k), n)
  BY DEF Numbers, Rearranged
<1>5. 0 \in A
  <2>1. part(0) = [i \in 1..n |-> 0]
    <3>1. 1..0 = {}
      OBVIOUS
    <3> QED  BY <3>1
  <2>2. SumOf(part(0)) = 0
    <3> DEFINE z == [i \in 1..n |-> 0]
    <3>1. Numbers(z, n)
      BY DEF Numbers
    <3>2. PICK b : Summed(z, n, b)
      <4> HIDE DEF z
      <4> QED  BY <1>1, <3>1, SumIs DEF Numbers
    <3>3. \A i \in 1..n : z[i] = 0
      OBVIOUS
    <3> DEFINE B == {i \in 0..n : b[i] = 0}
    <3>4. 0 \in B
      BY <1>1, <3>2 DEF Summed, SumsTo
    <3>5. ASSUME NEW i \in 0..(n - 1), i \in B PROVE i + 1 \in B
      <4>1. i + 1 \in 1..n /\ (i + 1) - 1 = i /\ i + 1 \in 0..n
        BY <1>1
      <4>2. b[i + 1] = b[i] + z[i + 1]
        <5> HIDE DEF z
        <5> QED  BY <3>2, <4>1 DEF Summed, SumsTo
      <4> HIDE DEF z
      <4> QED  BY <3>3, <3>5, <4>1, <4>2
    <3>6. \A i \in 0..n : i \in B
      <4> HIDE DEF B
      <4> QED  BY <1>1, <3>4, <3>5, Adds!UpTo
    <3>7. n \in 0..n
      BY <1>1
    <3> HIDE DEF z
    <3>8. SumOf(z) = 0
      BY <3>2, <3>6, <3>7 DEF Summed
    <3> QED  BY <2>1, <3>8 DEF z
  <2>3. a[0] = 0 /\ 0 \in 0..m
    BY <1>1, <1>3 DEF Summed, SumsTo
  <2> HIDE DEF part
  <2> QED  BY <2>2, <2>3
<1>6. ASSUME NEW k \in 0..(m - 1), k \in A PROVE k + 1 \in A
  <2>1. k + 1 \in 1..m /\ (k + 1) - 1 = k /\ k + 1 \in 0..m /\ k \in 0..m
    BY <1>1
  <2> DEFINE p == order[k + 1]
  <2>2. p \in 1..n /\ v[p] \in Int
    BY <1>2, <2>1
  <2>3. \A j \in 1..k : j \in 1..m /\ j # k + 1
    BY <1>1
  <2>4. \A j \in 1..k : order[j] # p
    BY <2>1, <2>3 DEF Rearranged, Arranges
  <2>5. \A j \in 1..(k + 1) : j \in 1..k \/ j = k + 1
    BY <2>1
  <2>6. \A j \in 1..k : j \in 1..(k + 1)
    BY <2>1
  <2>7. k + 1 \in 1..(k + 1)
    BY <2>1
  <2>8. part(k)[p] = 0 /\ part(k + 1)[p] = v[p]
    <3> HIDE DEF p
    <3>1. part(k)[p] = IF \E j \in 1..k : order[j] = p THEN v[p] ELSE 0
      BY <2>2
    <3>2. part(k + 1)[p] = IF \E j \in 1..(k + 1) : order[j] = p THEN v[p] ELSE 0
      BY <2>2
    <3> HIDE DEF part
    <3>3. order[k + 1] = p
      BY DEF p
    <3> QED  BY <2>4, <2>7, <3>1, <3>2, <3>3
  <2>9. \A i \in 1..n : i # p => part(k + 1)[i] = part(k)[i]
    <3> SUFFICES ASSUME NEW i \in 1..n, i # p PROVE part(k + 1)[i] = part(k)[i]
      OBVIOUS
    <3>1. part(k)[i] = IF \E j \in 1..k : order[j] = i THEN v[i] ELSE 0
      OBVIOUS
    <3>2. part(k + 1)[i] = IF \E j \in 1..(k + 1) : order[j] = i THEN v[i] ELSE 0
      OBVIOUS
    <3> HIDE DEF part
    <3>3. (\E j \in 1..(k + 1) : order[j] = i) <=> \E j \in 1..k : order[j] = i
      BY <2>5, <2>6
    <3> QED  BY <3>1, <3>2, <3>3
  <2>10. Bumped(part(k), part(k + 1), n, p, v[p])
    <3>1. Numbers(part(k), n) /\ Numbers(part(k + 1), n)
      BY <1>4, <2>1
    <3>2. 0 + v[p] = v[p]
      BY <2>2
    <3> HIDE DEF part, p
    <3> QED  BY <2>2, <2>8, <2>9, <3>1, <3>2 DEF Bumped
  <2>11. SumOf(part(k + 1)) = SumOf(part(k)) + v[p]
    <3> HIDE DEF part, p
    <3> QED  BY <1>1, <2>10, SumOfBumped
  <2>12. a[k + 1] = a[k] + w[k + 1] /\ w[k + 1] = v[p]
    BY <1>3, <2>1 DEF Summed, SumsTo, Rearranged
  <2> HIDE DEF part, p
  <2> QED  BY <1>6, <2>1, <2>11, <2>12
<1>7. m \in A
  <2>1. m \in 0..m
    BY <1>1
  <2> HIDE DEF A
  <2> QED  BY <1>1, <1>5, <1>6, <2>1, Adds!UpTo
<1>8. part(m) = v
  <2>1. \A i \in 1..n : part(m)[i] = v[i]
    BY DEF Rearranged, Arranges
  <2>2. DOMAIN part(m) = 1..n /\ part(m) = [i \in 1..n |-> part(m)[i]]
    OBVIOUS
  <2> HIDE DEF part
  <2> QED  BY <2>1, <2>2 DEF Rearranged, Numbers
<1> HIDE DEF part
<1> QED  BY <1>3, <1>7, <1>8 DEF Summed

\* The sums of x, of y and of x + c * y.
Combined(x, y, z, n, c) ==
    /\ Numbers(x, n) /\ Numbers(y, n) /\ DOMAIN z = 1..n /\ c \in Int
    /\ \A i \in 1..n : z[i] = x[i] + c * y[i]

LEMMA SumOfCombined ==
    ASSUME NEW n \in Nat, NEW x, NEW y, NEW z, NEW c, Combined(x, y, z, n, c)
    PROVE  Numbers(z, n) /\ SumOf(z) = SumOf(x) + c * SumOf(y)
<1>1. \A i \in 1..n : x[i] \in Int /\ y[i] \in Int /\ z[i] = x[i] + c * y[i]
  BY DEF Combined, Numbers
<1>2. c \in Int
  BY DEF Combined
<1>3. Numbers(z, n)
  <2>1. ASSUME NEW i \in 1..n PROVE z[i] \in Int
    <3>1. PICK d \in Int : d = c * y[i]
      BY <1>1, <1>2
    <3> QED  BY <1>1, <3>1
  <2> QED  BY <2>1 DEF Numbers, Combined
<1>4. PICK a : Summed(x, n, a)
  BY SumIs DEF Numbers, Combined
<1>5. PICK b : Summed(y, n, b)
  BY SumIs DEF Numbers, Combined
<1>6. PICK s : Summed(z, n, s)
  BY <1>3, SumIs DEF Numbers
<1> DEFINE A == {i \in 0..n : s[i] = a[i] + c * b[i]}
<1>7. 0 \in A
  <2>1. c * 0 = 0
    BY <1>2
  <2>2. a[0] = 0 /\ b[0] = 0 /\ s[0] = 0
    BY <1>4, <1>5, <1>6 DEF Summed, SumsTo
  <2> QED  BY <2>1, <2>2
<1>8. ASSUME NEW i \in 0..(n - 1), i \in A PROVE i + 1 \in A
  <2>1. i + 1 \in 1..n /\ (i + 1) - 1 = i /\ i + 1 \in 0..n /\ i \in 0..n
    OBVIOUS
  <2>2. /\ a[i + 1] = a[i] + x[i + 1] /\ b[i + 1] = b[i] + y[i + 1] /\ s[i + 1] = s[i] + z[i + 1]
        /\ a[i] \in Int /\ b[i] \in Int /\ s[i] \in Int
    BY <1>4, <1>5, <1>6, <2>1 DEF Summed, SumsTo
  <2>3. x[i + 1] \in Int /\ y[i + 1] \in Int /\ z[i + 1] = x[i + 1] + c * y[i + 1]
    BY <1>1, <2>1
  <2>4. s[i] = a[i] + c * b[i]
    BY <1>8
  <2>5. c * (b[i] + y[i + 1]) = c * b[i] + c * y[i + 1]
    BY <1>2, <2>2, <2>3
  <2>6. PICK d \in Int, e \in Int : d = c * b[i] /\ e = c * y[i + 1]
    BY <1>2, <2>2, <2>3
  <2>7. s[i + 1] = a[i + 1] + c * b[i + 1]
    BY <2>2, <2>3, <2>4, <2>5, <2>6
  <2> QED  BY <2>1, <2>7
<1>9. \A i \in 0..n : i \in A
  <2> HIDE DEF A
  <2> QED  BY <1>7, <1>8, Adds!UpTo
<1>10. n \in 0..n
  OBVIOUS
<1> QED  BY <1>3, <1>4, <1>5, <1>6, <1>9, <1>10 DEF Summed

\* Of two ways to take as many units, x takes more of what is cheaper than c and
\* less of what is dearer.
Cheaper(x, y, xc, yc, price, n, c) ==
    /\ Numbers(x, n) /\ Numbers(y, n) /\ Numbers(price, n) /\ c \in Int
    /\ \A i \in 1..n : /\ price[i] < c => x[i] >= y[i]
                       /\ price[i] > c => x[i] <= y[i]
    /\ DOMAIN xc = 1..n /\ \A i \in 1..n : xc[i] = x[i] * price[i]
    /\ DOMAIN yc = 1..n /\ \A i \in 1..n : yc[i] = y[i] * price[i]
    /\ SumOf(x) = SumOf(y)

LEMMA CheaperCostsLess ==
    ASSUME NEW n \in Nat, NEW x, NEW y, NEW xc, NEW yc, NEW price, NEW c,
           Cheaper(x, y, xc, yc, price, n, c)
    PROVE  SumOf(xc) <= SumOf(yc)
<1>1. \A i \in 1..n : x[i] \in Int /\ y[i] \in Int /\ price[i] \in Int
  BY DEF Cheaper, Numbers
<1>2. c \in Int
  BY DEF Cheaper
<1>3. Numbers(xc, n) /\ Numbers(yc, n)
  <2>1. ASSUME NEW i \in 1..n PROVE xc[i] \in Int /\ yc[i] \in Int
    <3>1. PICK d \in Int, e \in Int : d = x[i] * price[i] /\ e = y[i] * price[i]
      BY <1>1
    <3> QED  BY <3>1 DEF Cheaper
  <2> QED  BY <2>1 DEF Numbers, Cheaper
<1> DEFINE a == [i \in 1..n |-> xc[i] + c * y[i]]
           b == [i \in 1..n |-> yc[i] + c * x[i]]
<1>4. Combined(xc, y, a, n, c) /\ Combined(yc, x, b, n, c)
  <2>1. \A i \in 1..n : a[i] = xc[i] + c * y[i] /\ b[i] = yc[i] + c * x[i]
    OBVIOUS
  <2>2. DOMAIN a = 1..n /\ DOMAIN b = 1..n
    OBVIOUS
  <2> HIDE DEF a, b
  <2> QED  BY <1>3, <2>1, <2>2 DEF Combined, Cheaper
<1>5. \A i \in 1..n : a[i] = xc[i] + c * y[i] /\ b[i] = yc[i] + c * x[i]
  OBVIOUS
<1> HIDE DEF a, b
<1>6. Numbers(a, n) /\ Numbers(b, n) /\ SumOf(a) = SumOf(xc) + c * SumOf(y) /\ SumOf(b) = SumOf(yc) + c * SumOf(x)
  BY <1>4, SumOfCombined
<1>7. ASSUME NEW i \in 1..n PROVE a[i] <= b[i]
  <2>1. (y[i] - x[i]) * (price[i] - c) >= 0
    <3>1. CASE price[i] < c
      <4>1. x[i] - y[i] \in Nat /\ c - price[i] \in Nat
        BY <1>1, <1>2, <3>1 DEF Cheaper
      <4>2. PICK d \in Nat, e \in Nat : d = x[i] - y[i] /\ e = c - price[i]
        BY <4>1
      <4>3. y[i] - x[i] = -d /\ price[i] - c = -e
        BY <1>1, <1>2, <4>2
      <4>4. (-d) * (-e) = d * e /\ d * e >= 0
        OBVIOUS
      <4> QED  BY <4>3, <4>4
    <3>2. CASE price[i] > c
      <4>1. y[i] - x[i] \in Nat /\ price[i] - c \in Nat
        BY <1>1, <1>2, <3>2 DEF Cheaper
      <4>2. PICK d \in Nat, e \in Nat : d = y[i] - x[i] /\ e = price[i] - c
        BY <4>1
      <4>3. d * e >= 0
        OBVIOUS
      <4> QED  BY <4>2, <4>3
    <3>3. CASE price[i] = c
      <4>1. price[i] - c = 0 /\ y[i] - x[i] \in Int
        BY <1>1, <1>2, <3>3
      <4>2. (y[i] - x[i]) * 0 = 0
        BY <4>1
      <4> QED  BY <4>1, <4>2
    <3> QED  BY <1>1, <1>2, <3>1, <3>2, <3>3
  <2>2. (y[i] - x[i]) * (price[i] - c) = y[i] * price[i] - x[i] * price[i] - c * y[i] + c * x[i]
    BY <1>1, <1>2
  <2>3. PICK d \in Int, e \in Int, f \in Int, g \in Int :
           d = x[i] * price[i] /\ e = y[i] * price[i] /\ f = c * x[i] /\ g = c * y[i]
    BY <1>1, <1>2
  <2>4. xc[i] = d /\ yc[i] = e
    BY <2>3 DEF Cheaper
  <2>5. e - d - g + f >= 0
    BY <2>1, <2>2, <2>3
  <2> QED  BY <1>5, <2>3, <2>4, <2>5
<1>8. SumOf(a) <= SumOf(b)
  BY <1>6, <1>7, SumOfSmaller
<1>9. SumOf(x) = SumOf(y) /\ SumOf(x) \in Int /\ SumOf(xc) \in Int /\ SumOf(yc) \in Int
  BY <1>3, SumIsNumber DEF Cheaper
<1>10. PICK d \in Int : d = c * SumOf(x)
  BY <1>2, <1>9
<1> QED  BY <1>6, <1>8, <1>9, <1>10

-----------------------------------------------------------------------------
(* Python's sorted.                                                        *)

IsStrict(S, before) ==
    /\ \A i \in S : <<i, i>> \notin before
    /\ \A i, j \in S : i # j => <<i, j>> \in before \/ <<j, i>> \in before
    /\ \A i, j, k \in S : <<i, j>> \in before /\ <<j, k>> \in before => <<i, k>> \in before

IsOrdered(S, before, order) ==
    /\ DOMAIN order = 1..Cardinality(S)
    /\ \A k \in 1..Cardinality(S) : order[k] \in S
    /\ \A i \in S : \E k \in 1..Cardinality(S) : order[k] = i
    /\ \A k, l \in 1..Cardinality(S) : k < l => <<order[k], order[l]>> \in before

LEMMA OrderIs ==
    ASSUME NEW S, IsFiniteSet(S), NEW before, IsStrict(S, before)
    PROVE  IsOrdered(S, before, InOrder(S, before))
<1> DEFINE Before(i) == {j \in S : <<j, i>> \in before}
           rank == [i \in S |-> Cardinality(Before(i)) + 1]
           n == Cardinality(S)
           order == InOrder(S, before)
<1>1. n \in Nat
  BY FS_CardinalityType
<1>2. ASSUME NEW i \in S
      PROVE  IsFiniteSet(Before(i)) /\ Cardinality(Before(i)) \in Nat /\ Cardinality(Before(i)) < n
  <2>1. Before(i) \in SUBSET S /\ i \notin Before(i)
    BY DEF IsStrict
  <2>2. Before(i) # S
    BY <2>1
  <2>3. IsFiniteSet(Before(i)) /\ Cardinality(Before(i)) <= n /\ Cardinality(Before(i)) # n
    <3> HIDE DEF Before
    <3> QED  BY <2>1, <2>2, FS_Subset
  <2>4. Cardinality(Before(i)) \in Nat
    <3> HIDE DEF Before
    <3> QED  BY <2>3, FS_CardinalityType
  <2> HIDE DEF Before, n
  <2> QED  BY <1>1, <2>3, <2>4
<1>3. ASSUME NEW i \in S, NEW j \in S, <<i, j>> \in before
      PROVE  Cardinality(Before(i)) < Cardinality(Before(j))
  <2>1. \A k \in Before(i) : k \in S /\ <<k, i>> \in before
    OBVIOUS
  <2>2. \A k \in Before(i) : <<k, j>> \in before
    BY <1>3, <2>1, Zenon DEF IsStrict
  <2>3. Before(i) \in SUBSET Before(j) /\ i \in Before(j) /\ i \notin Before(i)
    BY <1>3, <2>2 DEF IsStrict
  <2>4. IsFiniteSet(Before(j)) /\ Cardinality(Before(i)) \in Nat /\ Cardinality(Before(j)) \in Nat
    BY <1>2
  <2> HIDE DEF Before
  <2>5. Cardinality(Before(i)) <= Cardinality(Before(j)) /\ Cardinality(Before(i)) # Cardinality(Before(j))
    BY <2>3, <2>4, FS_Subset
  <2> QED  BY <2>4, <2>5
<1>4. rank \in Injection(S, 1..n)
  <2>1. \A i \in S : rank[i] = Cardinality(Before(i)) + 1
    OBVIOUS
  <2> HIDE DEF Before
  <2>2. rank \in [S -> 1..n]
    <3>1. ASSUME NEW i \in S PROVE Cardinality(Before(i)) + 1 \in 1..n
      <4> HIDE DEF n
      <4> QED  BY <1>1, <1>2
    <3> HIDE DEF n
    <3> QED  BY <3>1
  <2>3. ASSUME NEW i \in S, NEW j \in S, rank[i] = rank[j] PROVE i = j
    <3>1. Cardinality(Before(i)) = Cardinality(Before(j))
      <4>1. Cardinality(Before(i)) + 1 = Cardinality(Before(j)) + 1
        BY <2>1, <2>3
      <4> QED  BY <1>2, <4>1
    <3>2. <<i, j>> \notin before /\ <<j, i>> \notin before
      BY <1>2, <1>3, <3>1
    <3> QED  BY <3>2, Zenon DEF IsStrict
  <2> HIDE DEF rank, n
  <2> QED  BY <2>2, <2>3, Zenon DEF Injection, IsInjective
<1>5. rank \in Surjection(S, 1..n)
  <2>1. IsFiniteSet(1..n) /\ Cardinality(1..n) = n
    <3> HIDE DEF n
    <3> QED  BY <1>1, FS_Interval
  <2> HIDE DEF rank
  <2> QED  BY <1>4, <2>1, FS_Injection
<1>6. ASSUME NEW k \in 1..n
      PROVE  order[k] \in S /\ Cardinality(Before(order[k])) = k - 1
  <2>1. PICK i \in S : rank[i] = k
    <3> HIDE DEF rank, n
    <3> QED  BY <1>5, Zenon DEF Surjection
  <2>2. Cardinality(Before(i)) = k - 1
    <3>1. rank[i] = Cardinality(Before(i)) + 1
      OBVIOUS
    <3> HIDE DEF Before, rank
    <3> QED  BY <1>2, <2>1, <3>1
  <2>3. order[k] = CHOOSE j \in S : Cardinality(Before(j)) = k - 1
    BY Zenon DEF InOrder
  <2> HIDE DEF Before, order
  <2> QED  BY <2>2, <2>3
<1>7. DOMAIN order = 1..n
  BY DEF InOrder
<1> HIDE DEF Before, order, n
<1>8. ASSUME NEW i \in S PROVE \E k \in 1..n : order[k] = i
  <2>1. PICK k \in 1..n : k = Cardinality(Before(i)) + 1
    BY <1>1, <1>2
  <2>2. order[k] \in S /\ Cardinality(Before(order[k])) = Cardinality(Before(i))
    BY <1>2, <1>6, <2>1
  <2>3. ~(<<i, order[k]>> \in before) /\ ~(<<order[k], i>> \in before)
    BY <1>2, <1>3, <2>2
  <2>4. order[k] = i
    BY <2>2, <2>3, Zenon DEF IsStrict
  <2> QED  BY <2>4
<1>9. ASSUME NEW k \in 1..n, NEW l \in 1..n, k < l PROVE <<order[k], order[l]>> \in before
  <2>1. Cardinality(Before(order[k])) < Cardinality(Before(order[l]))
    BY <1>1, <1>6, <1>9
  <2>2. order[k] \in S /\ order[l] \in S
    BY <1>6
  <2>3. ~(<<order[l], order[k]>> \in before)
    BY <1>2, <1>3, <2>1, <2>2
  <2>4. order[k] # order[l]
    BY <1>2, <2>1, <2>2
  <2> QED  BY <2>2, <2>3, <2>4, Zenon DEF IsStrict
<1> QED  BY <1>6, <1>7, <1>8, <1>9, Zenon DEF IsOrdered, n, order

\* Keys order positions strictly.
LEMMA KeysAreStrict ==
    ASSUME NEW S \in SUBSET Int, NEW key, \A i \in S : key[i] \in Int
    PROVE  /\ IsStrict(S, ByKey(S, key))
           /\ \A i, j \in S : <<i, j>> \in ByKey(S, key)
                                 <=> key[i] < key[j] \/ (key[i] = key[j] /\ i < j)
<1> DEFINE before == ByKey(S, key)
<1>1. \A i, j \in S : <<i, j>> \in before <=> key[i] < key[j] \/ (key[i] = key[j] /\ i < j)
  BY DEF ByKey
<1> HIDE DEF before
<1>2. \A i \in S : i \in Int
  OBVIOUS
<1>3. \A i \in S : <<i, i>> \notin before
  BY <1>1, <1>2
<1>4. \A i, j \in S : i # j => <<i, j>> \in before \/ <<j, i>> \in before
  BY <1>1, <1>2
<1>5. \A i, j, k \in S : <<i, j>> \in before /\ <<j, k>> \in before => <<i, k>> \in before
  BY <1>1, <1>2
<1> QED  BY <1>1, <1>3, <1>4, <1>5, Zenon DEF IsStrict, before

\* A stable sort of positions by their keys.
SortsBy(S, key, order) ==
    /\ DOMAIN order = 1..Cardinality(S)
    /\ \A k \in 1..Cardinality(S) : order[k] \in S
    /\ \A i \in S : \E k \in 1..Cardinality(S) : order[k] = i
    /\ \A k, l \in 1..Cardinality(S) :
          k < l => key[order[k]] < key[order[l]] \/ (key[order[k]] = key[order[l]] /\ order[k] < order[l])

LEMMA SortingSorts ==
    ASSUME NEW S \in SUBSET Int, IsFiniteSet(S), NEW key, \A i \in S : key[i] \in Int
    PROVE  SortsBy(S, key, SortedBy(S, key))
<1>1. IsOrdered(S, ByKey(S, key), SortedBy(S, key))
  BY KeysAreStrict, OrderIs DEF SortedBy
<1> DEFINE order == SortedBy(S, key)
<1> HIDE DEF order
<1>2. \A k, l \in 1..Cardinality(S) :
         k < l => key[order[k]] < key[order[l]] \/ (key[order[k]] = key[order[l]] /\ order[k] < order[l])
  BY <1>1, KeysAreStrict, Zenon DEF IsOrdered, order
<1> QED  BY <1>1, <1>2, Zenon DEF IsOrdered, SortsBy, order

-----------------------------------------------------------------------------
(* The walk of fill_price over the levels.                                 *)

Eat(fill, level) ==
    LET n == IF fill.left < level.quantity THEN fill.left ELSE level.quantity
    IN  [left |-> fill.left - n, cost |-> fill.cost + n * level.price]

Eats == INSTANCE SequenceFacts WITH Op <- Eat

LEMMA FillFolds ==
    ASSUME NEW rows, NEW side, NEW quantity
    PROVE  Book!Fill(rows, side, quantity)
              = LET end == Eats!FoldLeft(Eat, [left |-> quantity, cost |-> 0], Book!LevelsFor(rows, side))
                IN  [filled |-> quantity - end.left, cost |-> end.cost]
<1>1. \A base, seq : Book!FoldLeft(Book!Take, base, seq) = Eats!FoldLeft(Eat, base, seq)
  BY Zenon DEF Book!FoldLeft, Eats!FoldLeft, Book!MapThenFoldSet, Eats!MapThenFoldSet, Book!Max, Eats!Max, Eat, Book!Take
<1> QED  BY <1>1, Zenon DEF Book!Fill

\* m levels of a side.
Levels(s, m) ==
    /\ DOMAIN s = 1..m
    /\ \A k \in 1..m : s[k].price \in Int /\ s[k].quantity \in Nat

\* What is taken from each level, and the sums of it.
Eating(s, m, q, acc) ==
    /\ \A k \in 0..m : acc[k].left \in Nat /\ acc[k].cost \in Int
    /\ \A k \in 1..m : LET taken == acc[k - 1].left - acc[k].left
                       IN  /\ taken \in Nat /\ taken <= s[k].quantity
                           /\ acc[k].left = 0 \/ taken = s[k].quantity
                           /\ acc[k].cost = acc[k - 1].cost + taken * s[k].price
    /\ acc[0].left = q /\ acc[0].cost = 0

LEMMA WalkEats ==
    ASSUME NEW m \in Nat, NEW s, Levels(s, m), NEW q \in Nat, NEW acc,
           Eats!Walk(acc, [left |-> q, cost |-> 0], s, m)
    PROVE  Eating(s, m, q, acc)
<1>1. acc[0] = [left |-> q, cost |-> 0] /\ \A k \in 1..m : acc[k] = Eat(acc[k - 1], s[k])
  BY Zenon DEF Eats!Walk
<1>2. acc[0].left = q /\ acc[0].cost = 0
  BY <1>1
<1>3. ASSUME NEW l \in Nat, NEW c \in Int, NEW k \in 1..m, acc[k - 1].left = l, acc[k - 1].cost = c
      PROVE  /\ acc[k].left \in Nat /\ acc[k].cost \in Int
             /\ l - acc[k].left \in Nat /\ l - acc[k].left <= s[k].quantity
             /\ acc[k].left = 0 \/ l - acc[k].left = s[k].quantity
             /\ acc[k].cost = c + (l - acc[k].left) * s[k].price
  <2>1. s[k].price \in Int /\ s[k].quantity \in Nat
    BY DEF Levels
  <2> DEFINE t == IF l < s[k].quantity THEN l ELSE s[k].quantity
  <2>2. acc[k].left = l - t /\ acc[k].cost = c + t * s[k].price
    <3> DEFINE p == acc[k - 1]
               v == s[k]
    <3>1. acc[k] = Eat(p, v) /\ p.left = l /\ p.cost = c
      BY <1>1, <1>3
    <3> HIDE DEF p, v
    <3>2. acc[k].left = l - (IF l < v.quantity THEN l ELSE v.quantity)
      BY <3>1 DEF Eat
    <3>3. acc[k].cost = c + (IF l < v.quantity THEN l ELSE v.quantity) * v.price
      BY <3>1 DEF Eat
    <3> QED  BY <3>2, <3>3 DEF v
  <2>3. t \in Nat /\ t <= l /\ t <= s[k].quantity /\ (t = l \/ t = s[k].quantity)
    BY <2>1
  <2> HIDE DEF t
  <2>4. PICK d \in Int : d = t * s[k].price
    BY <2>1, <2>3
  <2>5. l - acc[k].left = t
    BY <2>2, <2>3
  <2> QED  BY <2>1, <2>2, <2>3, <2>4, <2>5
<1> DEFINE A == {k \in 0..m : acc[k].left \in Nat /\ acc[k].cost \in Int}
<1>4. 0 \in A
  BY <1>2
<1>5. ASSUME NEW k \in 0..(m - 1), k \in A PROVE k + 1 \in A
  <2>1. k + 1 \in 1..m /\ (k + 1) - 1 = k /\ k + 1 \in 0..m
    OBVIOUS
  <2> QED  BY <1>3, <1>5, <2>1
<1>6. \A k \in 0..m : k \in A
  <2> HIDE DEF A
  <2> QED  BY <1>4, <1>5, Adds!UpTo
<1>7. \A k \in 1..m : k - 1 \in 0..m
  OBVIOUS
<1>8. ASSUME NEW k \in 1..m
      PROVE  LET taken == acc[k - 1].left - acc[k].left
             IN  /\ taken \in Nat /\ taken <= s[k].quantity
                 /\ acc[k].left = 0 \/ taken = s[k].quantity
                 /\ acc[k].cost = acc[k - 1].cost + taken * s[k].price
  <2>1. acc[k - 1].left \in Nat /\ acc[k - 1].cost \in Int
    BY <1>6, <1>7
  <2> QED  BY <1>3, <2>1
<1> QED  BY <1>2, <1>6, <1>8 DEF Eating

\* Nothing is taken past the level an order ends at, and everything before it.
Ends(m, acc) ==
    \/ \A k \in 1..m : acc[k].left # 0
    \/ /\ acc[m].left = 0
       /\ \E e \in 1..m : /\ \A k \in 1..m : k < e => acc[k].left # 0
                          /\ \A k \in 1..m : k > e => acc[k - 1].left = 0

LEMMA EatingEnds ==
    ASSUME NEW m \in Nat, NEW s, Levels(s, m), NEW q \in Nat \ {0}, NEW acc, Eating(s, m, q, acc)
    PROVE  Ends(m, acc)
<1> DEFINE Open(i) == \A k \in 1..m : k <= i => acc[k].left # 0
           Ended(i) == /\ acc[i].left = 0
                       /\ \E e \in 1..m : /\ e <= i
                                          /\ \A k \in 1..m : k < e => acc[k].left # 0
                                          /\ \A k \in 1..m : k > e /\ k <= i => acc[k - 1].left = 0
           A == {i \in 0..m : Open(i) \/ Ended(i)}
<1>1. 0 \in A
  OBVIOUS
<1>2. ASSUME NEW i \in 0..(m - 1), i \in A PROVE i + 1 \in A
  <2>1. i + 1 \in 1..m /\ (i + 1) - 1 = i /\ i + 1 \in 0..m /\ i \in 0..m
    OBVIOUS
  <2>2. \A k \in 1..m : k <= i + 1 => k <= i \/ k = i + 1
    OBVIOUS
  <2>3. CASE Open(i) /\ acc[i + 1].left # 0
    <3>1. Open(i + 1)
      BY <2>2, <2>3
    <3> QED  BY <2>1, <3>1
  <2>4. CASE Open(i) /\ acc[i + 1].left = 0
    <3>1. Ended(i + 1)
      <4>1. i + 1 <= i + 1 /\ \A k \in 1..m : k < i + 1 => k <= i
        BY <2>1
      <4>2. \A k \in 1..m : ~(k > i + 1 /\ k <= i + 1)
        BY <2>1
      <4> QED  BY <2>1, <2>4, <4>1, <4>2
    <3> QED  BY <2>1, <3>1
  <2>5. CASE Ended(i)
    <3>1. acc[i + 1].left = 0
      <4>1. acc[i].left - acc[i + 1].left \in Nat /\ acc[i + 1].left \in Nat
        BY <2>1 DEF Eating
      <4> QED  BY <2>5, <4>1
    <3>2. Ended(i + 1)
      <4>1. PICK e \in 1..m : /\ e <= i
                              /\ \A k \in 1..m : k < e => acc[k].left # 0
                              /\ \A k \in 1..m : k > e /\ k <= i => acc[k - 1].left = 0
        BY <2>5
      <4>2. e <= i + 1
        BY <2>1, <4>1
      <4>3. \A k \in 1..m : k > e /\ k <= i + 1 => acc[k - 1].left = 0
        BY <2>1, <2>2, <2>5, <4>1
      <4> QED  BY <3>1, <4>1, <4>2, <4>3
    <3> QED  BY <2>1, <3>2
  <2> HIDE DEF Open, Ended
  <2> QED  BY <1>2, <2>3, <2>4, <2>5
<1>3. m \in A
  <2>1. m \in 0..m
    OBVIOUS
  <2> HIDE DEF A
  <2> QED  BY <1>1, <1>2, <2>1, Adds!UpTo
<1> QED  BY <1>3 DEF Ends

-----------------------------------------------------------------------------
(* The levels of a side, from best to worst.                               *)

\* n levels as the source sends them, and what each of them really offers.
Sent(raw, n) ==
    /\ n \in Nat /\ DOMAIN raw = 1..n
    /\ \A i \in 1..n : raw[i].price \in Int /\ raw[i].quantity \in Nat

Offered(raw, n) == [i \in 1..n |-> IF raw[i].price > 0 THEN raw[i].quantity ELSE 0]

Real(raw, n) == {i \in 1..n : raw[i].price > 0 /\ raw[i].quantity > 0}

\* Bids fall and asks rise.
IsSide(side, raw, n, s, m, order) ==
    /\ Levels(s, m) /\ Arranges(order, m, Real(raw, n), n)
    /\ \A k \in 1..m : s[k] = raw[order[k]]
    /\ \A k, l \in 1..m : k <= l => IF side = "bid" THEN s[k].price >= s[l].price
                                    ELSE s[k].price <= s[l].price

LEMMA SortedInBook == \A S, key : Book!SortedBy(S, key) = SortedBy(S, key)
  BY Zenon DEF Book!SortedBy, SortedBy, Book!InOrder, InOrder, Book!ByKey, ByKey, Book!Cardinality, Cardinality

LEMMA SideIs ==
    ASSUME NEW n, NEW raw, Sent(raw, n), NEW side
    PROVE  \E m, order : IsSide(side, raw, n, Book!Side(raw, side), m, order)
<1> DEFINE R == Real(raw, n)
           key == [i \in 1..n |-> IF side = "bid" THEN -raw[i].price ELSE raw[i].price]
           order == SortedBy(R, key)
           m == Cardinality(R)
           s == [k \in 1..m |-> raw[order[k]]]
<1>1. n \in Nat /\ \A i \in 1..n : raw[i].price \in Int /\ raw[i].quantity \in Nat
  BY DEF Sent
<1>2. R \subseteq 1..n /\ IsFiniteSet(R) /\ m \in Nat
  <2>1. R \subseteq 1..n
    BY DEF Real
  <2>2. IsFiniteSet(1..n)
    BY <1>1, FS_Interval
  <2> HIDE DEF R
  <2> QED  BY <2>1, <2>2, FS_Subset, FS_CardinalityType
<1>3. \A i \in 1..n : key[i] = (IF side = "bid" THEN -raw[i].price ELSE raw[i].price)
  OBVIOUS
<1>4. \A i \in 1..n : key[i] \in Int
  BY <1>1, <1>3
<1>5. SortsBy(R, key, order)
  <2>1. R \in SUBSET Int /\ \A i \in R : key[i] \in Int
    <3> HIDE DEF R, key
    <3> QED  BY <1>1, <1>2, <1>4
  <2> HIDE DEF R, key
  <2> QED  BY <1>2, <2>1, SortingSorts
<1>6. Book!Side(raw, side) = s
  <2>1. \A l : Book!IsReal(l) <=> l.price > 0 /\ l.quantity > 0
    BY DEF Book!IsReal
  <2>2. DOMAIN raw = 1..n
    BY DEF Sent
  <2>3. R = {i \in DOMAIN raw : Book!IsReal(raw[i])}
    BY <2>1, <2>2, Zenon DEF Real
  <2>4. key = [i \in DOMAIN raw |-> IF side = "bid" THEN -raw[i].price ELSE raw[i].price]
    BY <2>2
  <2>5. DOMAIN order = 1..m
    <3> HIDE DEF R, key, order
    <3> QED  BY <1>5, Zenon DEF SortsBy
  <2>6. Book!Side(raw, side)
           = LET o == Book!SortedBy({i \in DOMAIN raw : Book!IsReal(raw[i])},
                                    [i \in DOMAIN raw |-> IF side = "bid" THEN -raw[i].price ELSE raw[i].price])
             IN  [k \in DOMAIN o |-> raw[o[k]]]
    BY Zenon DEF Book!Side
  <2>7. Book!Side(raw, side) = [k \in DOMAIN order |-> raw[order[k]]]
    <3> HIDE DEF R, key
    <3> QED  BY <2>3, <2>4, <2>6, SortedInBook, Zenon
  <2> HIDE DEF order, m
  <2> QED  BY <2>5, <2>7
<1>7. DOMAIN s = 1..m /\ \A k \in 1..m : s[k] = raw[order[k]]
  <2> HIDE DEF order, m
  <2> QED  OBVIOUS
<1> HIDE DEF R, key, order, m, s
<1>8. \A k \in 1..m : order[k] \in R /\ order[k] \in 1..n
  BY <1>2, <1>5 DEF SortsBy, m
<1>9. \A k, l \in 1..m : k < l => key[order[k]] < key[order[l]] \/ (key[order[k]] = key[order[l]] /\ order[k] < order[l])
  BY <1>5, Zenon DEF SortsBy, m
<1>10. \A k, l \in 1..m : order[k] = order[l] => k = l
  <2> SUFFICES ASSUME NEW k \in 1..m, NEW l \in 1..m, order[k] = order[l], k < l PROVE FALSE
    BY <1>2
  <2>1. order[k] \in Int /\ order[l] \in Int /\ key[order[k]] \in Int /\ key[order[l]] \in Int
    BY <1>1, <1>4, <1>8
  <2> QED  BY <1>9, <2>1
<1>11. Arranges(order, m, R, n)
  BY <1>1, <1>2, <1>5, <1>8, <1>10 DEF Arranges, SortsBy, m
<1>12. Levels(s, m)
  BY <1>1, <1>7, <1>8 DEF Levels
<1>13. ASSUME NEW k \in 1..m, NEW l \in 1..m, k <= l
       PROVE  IF side = "bid" THEN s[k].price >= s[l].price ELSE s[k].price <= s[l].price
  <2>1. s[k] = raw[order[k]] /\ s[l] = raw[order[l]]
    BY <1>7
  <2>2. s[k].price \in Int /\ s[l].price \in Int
    BY <1>12 DEF Levels
  <2>3. CASE k = l
    BY <2>2, <2>3
  <2>4. CASE k < l
    <3>1. key[order[k]] <= key[order[l]]
      BY <1>4, <1>8, <1>9, <2>4
    <3> QED  BY <1>3, <1>8, <2>1, <2>2, <3>1
  <2> QED  BY <1>2, <1>13, <2>3, <2>4
<1>14. IsSide(side, raw, n, s, m, order)
  BY <1>7, <1>11, <1>12, <1>13 DEF IsSide, R
<1> QED  BY <1>6, <1>14

-----------------------------------------------------------------------------
(* What an order takes of the levels the source sent.                      *)

CostsOf(raw, n, v) == [i \in 1..n |-> v[i] * raw[i].price]

\* The units v taken of the levels, the money they cost and where the order
\* ends: at a price c, or at the end of the book.
Filled(side, raw, n, q, v, end) ==
    /\ Numbers(v, n) /\ end.left \in Nat /\ end.cost \in Int
    /\ \A i \in 1..n : v[i] >= 0 /\ v[i] <= Offered(raw, n)[i]
    /\ SumOf(v) = q - end.left
    /\ SumOf(CostsOf(raw, n, v)) = end.cost
    /\ end.left > 0 => \A i \in 1..n : v[i] = Offered(raw, n)[i]
    /\ \E c \in Int : \A i \in 1..n :
          /\ (IF side = "bid" THEN raw[i].price > c ELSE raw[i].price < c) => v[i] = Offered(raw, n)[i]
          /\ (IF side = "bid" THEN raw[i].price < c ELSE raw[i].price > c) => v[i] = 0

LEMMA WalkFills ==
    ASSUME NEW n, NEW raw, Sent(raw, n), NEW side, NEW q \in Nat \ {0},
           NEW s, NEW m, NEW order, IsSide(side, raw, n, s, m, order),
           NEW acc, Eats!Walk(acc, [left |-> q, cost |-> 0], s, m)
    PROVE  \E v : v = [i \in 1..n |-> v[i]] /\ Filled(side, raw, n, q, v, acc[m])
<1> DEFINE R == Real(raw, n)
           eaten == [k \in 1..m |-> acc[k - 1].left - acc[k].left]
           paid == [k \in 1..m |-> eaten[k] * s[k].price]
           v == [i \in 1..n |-> IF i \in R THEN eaten[CHOOSE k \in 1..m : order[k] = i] ELSE 0]
           vc == CostsOf(raw, n, v)
<1>1. /\ m \in Nat /\ n \in Nat /\ R \subseteq 1..n /\ DOMAIN order = 1..m
      /\ \A k \in 1..m : order[k] \in R /\ order[k] \in 1..n
      /\ \A i \in R : \E k \in 1..m : order[k] = i
      /\ \A k, l \in 1..m : order[k] = order[l] => k = l
  BY DEF IsSide, Arranges
<1>2. \A i \in 1..n : raw[i].price \in Int /\ raw[i].quantity \in Nat
  BY DEF Sent
<1>3. /\ Levels(s, m) /\ \A k \in 1..m : s[k] = raw[order[k]] /\ s[k].price \in Int /\ s[k].quantity \in Nat
  BY DEF IsSide, Levels
<1>4. Eating(s, m, q, acc)
  BY <1>1, <1>3, WalkEats
<1>5. \A k \in 0..m : acc[k].left \in Nat /\ acc[k].cost \in Int
  BY <1>4 DEF Eating
<1>6. \A k \in 1..m : /\ eaten[k] = acc[k - 1].left - acc[k].left
                      /\ eaten[k] \in Nat /\ eaten[k] <= s[k].quantity
                      /\ acc[k].left = 0 \/ eaten[k] = s[k].quantity
                      /\ acc[k].cost = acc[k - 1].cost + eaten[k] * s[k].price
                      /\ paid[k] = eaten[k] * s[k].price
  <2>1. \A k \in 1..m : eaten[k] = acc[k - 1].left - acc[k].left
    OBVIOUS
  <2>2. \A k \in 1..m : paid[k] = eaten[k] * s[k].price
    <3> HIDE DEF eaten
    <3> QED  OBVIOUS
  <2> HIDE DEF eaten, paid
  <2> QED  BY <1>4, <2>1, <2>2 DEF Eating
<1>7. DOMAIN eaten = 1..m /\ DOMAIN paid = 1..m
  OBVIOUS
<1>8. /\ \A k \in 1..m : v[order[k]] = eaten[k]
      /\ \A i \in 1..n : i \notin R => v[i] = 0
      /\ v = [i \in 1..n |-> v[i]]
  <2>1. ASSUME NEW k \in 1..m PROVE v[order[k]] = eaten[k]
    <3>1. (CHOOSE l \in 1..m : order[l] = order[k]) = k
      BY <1>1
    <3>2. order[k] \in R /\ order[k] \in 1..n
      BY <1>1
    <3>3. v[order[k]] = IF order[k] \in R THEN eaten[CHOOSE l \in 1..m : order[l] = order[k]] ELSE 0
      <4> HIDE DEF R, eaten
      <4> QED  BY <3>2
    <3> HIDE DEF R, eaten, v
    <3> QED  BY <3>1, <3>2, <3>3
  <2>2. ASSUME NEW i \in 1..n, i \notin R PROVE v[i] = 0
    <3> HIDE DEF R, eaten
    <3> QED  BY <2>2
  <2>3. v = [i \in 1..n |-> v[i]]
    <3> HIDE DEF R, eaten
    <3> QED  OBVIOUS
  <2> QED  BY <2>1, <2>2, <2>3
<1>9. DOMAIN v = 1..n /\ DOMAIN vc = 1..n /\ (\A i \in 1..n : vc[i] = v[i] * raw[i].price) /\ vc = [i \in 1..n |-> vc[i]]
  <2>1. DOMAIN v = 1..n
    OBVIOUS
  <2> HIDE DEF v
  <2> QED  BY <2>1 DEF CostsOf
<1>10. \A i \in 1..n : Offered(raw, n)[i] = IF raw[i].price > 0 THEN raw[i].quantity ELSE 0
  BY DEF Offered
<1>11. \A i \in 1..n : i \in R <=> raw[i].price > 0 /\ raw[i].quantity > 0
  BY DEF Real
<1> USE DEF Numbers
<1> HIDE DEF R, eaten, paid, v, vc, Numbers
<1>12. \A i \in 1..n : i \notin R => Offered(raw, n)[i] = 0
  BY <1>2, <1>10, <1>11
<1>13. \A k \in 1..m : Offered(raw, n)[order[k]] = s[k].quantity
  BY <1>1, <1>3, <1>10, <1>11
<1>14. ASSUME NEW i \in 1..n PROVE v[i] \in Nat /\ v[i] <= Offered(raw, n)[i]
  <2>1. CASE i \in R
    <3>1. PICK k \in 1..m : order[k] = i
      BY <1>1, <2>1
    <3> QED  BY <1>6, <1>8, <1>13, <3>1
  <2>2. CASE i \notin R
    BY <1>8, <1>12, <2>2
  <2> QED  BY <2>1, <2>2
<1>15. Numbers(v, n) /\ Numbers(vc, n)
  <2>1. ASSUME NEW i \in 1..n PROVE vc[i] \in Int
    <3>1. PICK d \in Int : d = v[i] * raw[i].price
      BY <1>2, <1>14
    <3> QED  BY <1>9, <3>1
  <2> QED  BY <1>9, <1>14, <2>1 DEF Numbers
<1>16. SumOf(eaten) = SumOf(v)
  <2>1. Rearranged(order, m, R, n, v, eaten)
    BY <1>1, <1>7, <1>8, <1>15 DEF Rearranged, Arranges
  <2> QED  BY <2>1, SumOfRearranged
<1>17. SumOf(paid) = SumOf(vc)
  <2>1. \A i \in 1..n : i \notin R => vc[i] = 0
    <3>1. \A i \in 1..n : 0 * raw[i].price = 0
      BY <1>2
    <3> QED  BY <1>8, <1>9, <3>1
  <2>2. ASSUME NEW k \in 1..m PROVE paid[k] = vc[order[k]]
    <3>1. vc[order[k]] = v[order[k]] * raw[order[k]].price
      BY <1>1, <1>9
    <3>2. v[order[k]] = eaten[k] /\ raw[order[k]] = s[k] /\ paid[k] = eaten[k] * s[k].price
      BY <1>3, <1>6, <1>8
    <3> QED  BY <3>1, <3>2
  <2>3. Rearranged(order, m, R, n, vc, paid)
    BY <1>1, <1>7, <1>9, <1>15, <2>1, <2>2 DEF Rearranged, Arranges
  <2> QED  BY <2>3, SumOfRearranged
<1>18. \A k \in 1..m : eaten[k] \in Int /\ paid[k] \in Int
  <2>1. ASSUME NEW k \in 1..m PROVE paid[k] \in Int
    <3>1. PICK d \in Int : d = eaten[k] * s[k].price
      BY <1>3, <1>6
    <3> QED  BY <1>6, <3>1
  <2> QED  BY <1>6, <2>1
<1>19. SumOf(eaten) = q - acc[m].left /\ SumOf(paid) = acc[m].cost
  <2>1. PICK a : Summed(eaten, m, a)
    BY <1>1, <1>7, <1>18, SumIs
  <2>2. PICK b : Summed(paid, m, b)
    BY <1>1, <1>7, <1>18, SumIs
  <2> DEFINE A == {k \in 0..m : a[k] = q - acc[k].left /\ b[k] = acc[k].cost}
  <2>3. 0 \in A
    BY <1>1, <1>4, <2>1, <2>2 DEF Summed, SumsTo, Eating
  <2>4. ASSUME NEW k \in 0..(m - 1), k \in A PROVE k + 1 \in A
    <3>1. k + 1 \in 1..m /\ (k + 1) - 1 = k /\ k + 1 \in 0..m /\ k \in 0..m
      BY <1>1
    <3>2. a[k + 1] = a[k] + eaten[k + 1] /\ b[k + 1] = b[k] + paid[k + 1]
      BY <2>1, <2>2, <3>1 DEF Summed, SumsTo
    <3>3. eaten[k + 1] = acc[k].left - acc[k + 1].left /\ acc[k + 1].cost = acc[k].cost + paid[k + 1]
      BY <1>6, <3>1
    <3>4. acc[k].left \in Nat /\ acc[k + 1].left \in Nat
      BY <1>5, <3>1
    <3> QED  BY <2>4, <3>1, <3>2, <3>3, <3>4
  <2>5. m \in A
    <3>1. m \in 0..m
      BY <1>1
    <3> HIDE DEF A
    <3> QED  BY <1>1, <2>3, <2>4, <3>1, Adds!UpTo
  <2> QED  BY <2>1, <2>2, <2>5 DEF Summed
<1>20. acc[m].left \in Nat /\ acc[m].cost \in Int
  BY <1>1, <1>5
<1>21. CASE \A k \in 1..m : acc[k].left # 0
  <2>1. ASSUME NEW i \in 1..n PROVE v[i] = Offered(raw, n)[i]
    <3>1. CASE i \in R
      <4>1. PICK k \in 1..m : order[k] = i
        BY <1>1, <3>1
      <4> QED  BY <1>6, <1>8, <1>13, <1>21, <4>1
    <3>2. CASE i \notin R
      BY <1>8, <1>12, <3>2
    <3> QED  BY <3>1, <3>2
  <2>2. \E c \in Int : \A i \in 1..n :
            /\ (IF side = "bid" THEN raw[i].price > c ELSE raw[i].price < c) => v[i] = Offered(raw, n)[i]
            /\ (IF side = "bid" THEN raw[i].price < c ELSE raw[i].price > c) => v[i] = 0
    <3>1. CASE m = 0
      <4>1. R = {}
        BY <1>1, <3>1
      <4> QED  BY <1>8, <2>1, <4>1
    <3>2. CASE m # 0
      <4>1. m \in 1..m
        BY <1>1, <3>2
      <4> DEFINE c == s[m].price
      <4>2. c \in Int
        BY <1>3, <4>1
      <4>3. ASSUME NEW i \in 1..n, IF side = "bid" THEN raw[i].price < c ELSE raw[i].price > c
            PROVE  i \notin R
        <5> SUFFICES ASSUME i \in R PROVE FALSE
          OBVIOUS
        <5>1. PICK k \in 1..m : order[k] = i
          BY <1>1
        <5>2. IF side = "bid" THEN s[k].price >= s[m].price ELSE s[k].price <= s[m].price
          BY <1>1, <4>1 DEF IsSide
        <5> QED  BY <1>2, <1>3, <4>2, <4>3, <5>1, <5>2
      <4> HIDE DEF c
      <4> QED  BY <1>8, <2>1, <4>2, <4>3
    <3> QED  BY <3>1, <3>2
  <2> HIDE DEF Offered
  <2>3. Filled(side, raw, n, q, v, acc[m])
    BY <1>14, <1>15, <1>16, <1>17, <1>19, <1>20, <2>1, <2>2 DEF Filled, vc
  <2> QED  BY <1>8, <2>3
<1>22. ASSUME acc[m].left = 0, NEW e \in 1..m, \A k \in 1..m : k < e => acc[k].left # 0,
              \A k \in 1..m : k > e => acc[k - 1].left = 0
       PROVE  \E w : w = [i \in 1..n |-> w[i]] /\ Filled(side, raw, n, q, w, acc[m])
  <2> DEFINE c == s[e].price
  <2>1. c \in Int
    BY <1>3
  <2>2. \A k \in 1..m : k > e => eaten[k] = 0
    <3> SUFFICES ASSUME NEW k \in 1..m, k > e PROVE eaten[k] = 0
      OBVIOUS
    <3>1. eaten[k] = acc[k - 1].left - acc[k].left /\ eaten[k] \in Nat /\ acc[k - 1].left = 0 /\ acc[k].left \in Nat
      BY <1>5, <1>6, <1>22
    <3> QED  BY <3>1
  <2>3. \A k \in 1..m : k < e => eaten[k] = s[k].quantity
    BY <1>6, <1>22
  <2>4. \A k \in 1..m : /\ k <= e => IF side = "bid" THEN s[k].price >= c ELSE s[k].price <= c
                        /\ k >= e => IF side = "bid" THEN s[k].price <= c ELSE s[k].price >= c
    BY DEF IsSide
  <2>5. ASSUME NEW i \in 1..n
        PROVE  /\ (IF side = "bid" THEN raw[i].price > c ELSE raw[i].price < c) => v[i] = Offered(raw, n)[i]
               /\ (IF side = "bid" THEN raw[i].price < c ELSE raw[i].price > c) => v[i] = 0
    <3>1. CASE i \notin R
      BY <1>8, <1>12, <3>1
    <3>2. CASE i \in R
      <4>1. PICK k \in 1..m : order[k] = i
        BY <1>1, <3>2
      <4>2. raw[i].price = s[k].price /\ s[k].price \in Int /\ v[i] = eaten[k] /\ Offered(raw, n)[i] = s[k].quantity
        BY <1>3, <1>8, <1>13, <4>1
      <4>3. ASSUME IF side = "bid" THEN raw[i].price > c ELSE raw[i].price < c PROVE v[i] = Offered(raw, n)[i]
        <5>1. k < e
          BY <2>1, <2>4, <4>2, <4>3
        <5> QED  BY <2>3, <4>2, <5>1
      <4>4. ASSUME IF side = "bid" THEN raw[i].price < c ELSE raw[i].price > c PROVE v[i] = 0
        <5>1. k > e
          BY <2>1, <2>4, <4>2, <4>4
        <5> QED  BY <2>2, <4>2, <5>1
      <4> QED  BY <4>3, <4>4
    <3> QED  BY <3>1, <3>2
  <2> HIDE DEF c
  <2>6. \E d \in Int : \A i \in 1..n :
            /\ (IF side = "bid" THEN raw[i].price > d ELSE raw[i].price < d) => v[i] = Offered(raw, n)[i]
            /\ (IF side = "bid" THEN raw[i].price < d ELSE raw[i].price > d) => v[i] = 0
    BY <2>1, <2>5
  <2>7. Filled(side, raw, n, q, v, acc[m])
    BY <1>14, <1>15, <1>16, <1>17, <1>19, <1>20, <1>22, <2>6 DEF Filled, vc
  <2> QED  BY <1>8, <2>7
<1>23. Ends(m, acc)
  BY <1>1, <1>3, <1>4, EatingEnds
<1> QED  BY <1>21, <1>22, <1>23 DEF Ends

LEMMA FillsFill ==
    ASSUME NEW n, NEW raw, Sent(raw, n), NEW side, NEW q \in Nat \ {0}
    PROVE  LET end == Eats!FoldLeft(Eat, [left |-> q, cost |-> 0], Book!Side(raw, side))
           IN  \E v : v = [i \in 1..n |-> v[i]] /\ Filled(side, raw, n, q, v, end)
<1>1. PICK m, order : IsSide(side, raw, n, Book!Side(raw, side), m, order)
  BY SideIs
<1> DEFINE s == Book!Side(raw, side)
<1> HIDE DEF s
<1>2. IsSide(side, raw, n, s, m, order)
  BY <1>1 DEF s
<1>3. m \in Nat /\ DOMAIN s = 1..m
  BY <1>2 DEF IsSide, Arranges, Levels
<1>4. PICK acc : /\ Eats!Walk(acc, [left |-> q, cost |-> 0], s, m)
                 /\ Eats!FoldLeft(Eat, [left |-> q, cost |-> 0], s) = acc[m]
  BY <1>3, Eats!FoldLeftWalks
<1>5. \E v : v = [i \in 1..n |-> v[i]] /\ Filled(side, raw, n, q, v, acc[m])
  BY <1>2, <1>4, WalkFills
<1> QED  BY <1>4, <1>5, Zenon DEF s

\* A way to take as many units as were filled.
Takes(raw, n, t, filled) ==
    /\ \A i \in 1..n : t[i] \in Nat /\ t[i] <= Offered(raw, n)[i]
    /\ DOMAIN t = 1..n /\ SumOf(t) = filled

\* No such way is better, and an order is filled as far as the book goes.
LEMMA FilledIsBest ==
    ASSUME NEW n, NEW raw, Sent(raw, n), NEW side \in {"bid", "ask"}, NEW q \in Nat \ {0}, NEW v, NEW end,
           Filled(side, raw, n, q, v, end)
    PROVE  /\ SumOf(Offered(raw, n)) \in Int
           /\ q - end.left = IF q <= SumOf(Offered(raw, n)) THEN q ELSE SumOf(Offered(raw, n))
           /\ q - end.left >= q <=> q <= SumOf(Offered(raw, n))
           /\ \A t : Takes(raw, n, t, q - end.left) =>
                 IF side = "ask" THEN end.cost <= SumOf(CostsOf(raw, n, t))
                 ELSE end.cost >= SumOf(CostsOf(raw, n, t))
<1> DEFINE full == Offered(raw, n)
<1>1. n \in Nat /\ \A i \in 1..n : raw[i].price \in Int /\ raw[i].quantity \in Nat
  BY DEF Sent
<1>2. DOMAIN full = 1..n /\ \A i \in 1..n : full[i] \in Nat
  BY <1>1 DEF Offered
<1> HIDE DEF full
<1>3. /\ Numbers(v, n) /\ end.left \in Nat /\ end.cost \in Int
      /\ \A i \in 1..n : v[i] \in Int /\ v[i] >= 0 /\ v[i] <= full[i]
      /\ SumOf(v) = q - end.left /\ SumOf(CostsOf(raw, n, v)) = end.cost
      /\ end.left > 0 => \A i \in 1..n : v[i] = full[i]
  BY DEF Filled, full, Numbers
<1>4. Numbers(full, n)
  BY <1>2 DEF Numbers
<1>5. SumOf(full) \in Int /\ SumOf(v) <= SumOf(full)
  BY <1>1, <1>3, <1>4, SumIsNumber, SumOfSmaller
<1>6. end.left > 0 => SumOf(full) <= SumOf(v)
  <2> SUFFICES ASSUME end.left > 0 PROVE SumOf(full) <= SumOf(v)
    OBVIOUS
  <2>1. \A i \in 1..n : full[i] <= v[i]
    BY <1>2, <1>3
  <2> QED  BY <1>1, <1>3, <1>4, <2>1, SumOfSmaller
<1>7. SumOf(v) \in Int /\ (end.left > 0 => SumOf(v) = SumOf(full))
  BY <1>1, <1>3, <1>5, <1>6, SumIsNumber
<1>8. q - end.left = IF q <= SumOf(full) THEN q ELSE SumOf(full)
  BY <1>3, <1>5, <1>7
<1>9. q - end.left >= q <=> q <= SumOf(full)
  BY <1>3, <1>5, <1>7
<1>10. ASSUME NEW t, Takes(raw, n, t, q - end.left)
       PROVE  IF side = "ask" THEN end.cost <= SumOf(CostsOf(raw, n, t))
              ELSE end.cost >= SumOf(CostsOf(raw, n, t))
  <2> DEFINE price == [i \in 1..n |-> raw[i].price]
             vc == CostsOf(raw, n, v)
             tc == CostsOf(raw, n, t)
  <2>1. /\ DOMAIN vc = 1..n /\ \A i \in 1..n : vc[i] = v[i] * raw[i].price
        /\ DOMAIN tc = 1..n /\ \A i \in 1..n : tc[i] = t[i] * raw[i].price
        /\ DOMAIN price = 1..n /\ \A i \in 1..n : price[i] = raw[i].price
    BY DEF CostsOf
  <2>2. Numbers(t, n) /\ SumOf(t) = SumOf(v) /\ \A i \in 1..n : t[i] \in Nat /\ t[i] <= full[i]
    BY <1>3, <1>10 DEF Takes, Numbers, full
  <2>3. PICK c \in Int : \A i \in 1..n :
           /\ (IF side = "bid" THEN raw[i].price > c ELSE raw[i].price < c) => v[i] = full[i]
           /\ (IF side = "bid" THEN raw[i].price < c ELSE raw[i].price > c) => v[i] = 0
    BY Zenon DEF Filled, full
  <2> HIDE DEF price, vc, tc
  <2>4. Numbers(price, n)
    BY <1>1, <2>1 DEF Numbers
  <2>5. CASE side = "ask"
    <3>1. \A i \in 1..n : /\ price[i] < c => v[i] >= t[i]
                          /\ price[i] > c => v[i] <= t[i]
      BY <1>2, <1>3, <2>1, <2>2, <2>3, <2>5
    <3>2. Cheaper(v, t, vc, tc, price, n, c)
      BY <1>3, <2>1, <2>2, <2>4, <3>1 DEF Cheaper
    <3>3. SumOf(vc) <= SumOf(tc)
      BY <1>1, <3>2, CheaperCostsLess
    <3> QED  BY <1>3, <2>5, <3>3 DEF vc, tc
  <2>6. CASE side = "bid"
    <3>1. \A i \in 1..n : /\ price[i] < c => t[i] >= v[i]
                          /\ price[i] > c => t[i] <= v[i]
      BY <1>2, <1>3, <2>1, <2>2, <2>3, <2>6
    <3>2. Cheaper(t, v, tc, vc, price, n, c)
      BY <1>3, <2>1, <2>2, <2>4, <3>1 DEF Cheaper
    <3>3. SumOf(tc) <= SumOf(vc)
      BY <1>1, <3>2, CheaperCostsLess
    <3>4. SumOf(vc) = end.cost
      BY <1>3 DEF vc
    <3>5. SumOf(tc) <= end.cost
      BY <3>3, <3>4
    <3>6. \A i \in 1..n : tc[i] \in Int
      <4> SUFFICES ASSUME NEW i \in 1..n PROVE tc[i] \in Int
        OBVIOUS
      <4>1. PICK d \in Int : d = t[i] * raw[i].price
        BY <1>1, <2>2
      <4> QED  BY <2>1, <4>1
    <3>7. SumOf(tc) \in Int
      BY <1>1, <2>1, <3>6, SumIsNumber DEF Numbers
    <3>8. end.cost >= SumOf(tc)
      BY <1>3, <3>5, <3>7
    <3> QED  BY <2>6, <3>8 DEF tc
  <2> QED  BY <2>5, <2>6
<1> QED  BY <1>5, <1>8, <1>9, <1>10 DEF full

LEMMA SmallerOf ==
    ASSUME NEW a \in Int, NEW b \in Int
    PROVE  Min({a, b}) = IF a <= b THEN a ELSE b
<1>1. \E x \in {a, b} : \A y \in {a, b} : x <= y
  OBVIOUS
<1>2. Min({a, b}) \in {a, b} /\ \A y \in {a, b} : Min({a, b}) <= y
  BY <1>1 DEF Min
<1> QED  BY <1>2

LEMMA BestFill == BookAsked => FillsAreTheBest
<1> SUFFICES ASSUME BookAsked, case.kind = "book" PROVE FillsAreTheBest
  BY DEF FillsAreTheBest
<1>1. PICK n \in Nat : /\ case.rows \in [1..n -> BookRows]
                       /\ case.side \in Book!Sides /\ case.quantity \in Nat \ {0}
  BY DEF BookAsked
<1> DEFINE rows == case.rows
           q == case.quantity
           buy == case.side = "buy"
           raw == IF buy THEN [i \in DOMAIN rows |-> [price |-> rows[i].ask, quantity |-> rows[i].askSize]]
                  ELSE [i \in DOMAIN rows |-> [price |-> rows[i].bid, quantity |-> rows[i].bidSize]]
           side == IF buy THEN "ask" ELSE "bid"
           level(price, quantity) == [price |-> price, quantity |-> IF price > 0 THEN quantity ELSE 0]
           levels == [i \in DOMAIN rows |-> IF buy THEN level(rows[i].ask, rows[i].askSize)
                                            ELSE level(rows[i].bid, rows[i].bidSize)]
           end == Eats!FoldLeft(Eat, [left |-> q, cost |-> 0], Book!Side(raw, side))
           fill == Book!Fill(rows, case.side, q)
           depth == SumOf(Offered(raw, n))
<1>2. DOMAIN rows = 1..n /\ \A i \in 1..n : rows[i] \in BookRows
  BY <1>1
<1>3. /\ n \in Nat /\ DOMAIN raw = 1..n
      /\ \A i \in 1..n : raw[i] = IF buy THEN [price |-> rows[i].ask, quantity |-> rows[i].askSize]
                                  ELSE [price |-> rows[i].bid, quantity |-> rows[i].bidSize]
  <2> HIDE DEF rows
  <2> QED  BY <1>2
<1>4. Sent(raw, n)
  <2>1. \A i \in 1..n : /\ rows[i].ask \in Int /\ rows[i].askSize \in Nat
                        /\ rows[i].bid \in Int /\ rows[i].bidSize \in Nat
    <3> HIDE DEF rows
    <3> QED  BY <1>2, DeskAssumption
  <2> HIDE DEF raw, rows, buy
  <2>2. \A i \in 1..n : raw[i].price \in Int /\ raw[i].quantity \in Nat
    <3>1. CASE buy
      BY <1>3, <2>1, <3>1
    <3>2. CASE ~buy
      BY <1>3, <2>1, <3>2
    <3> QED  BY <3>1, <3>2
  <2> QED  BY <1>3, <2>2 DEF Sent
<1>5. /\ DOMAIN levels = 1..n
      /\ \A i \in 1..n : levels[i].price = raw[i].price
      /\ \A i \in 1..n : levels[i].quantity = IF raw[i].price > 0 THEN raw[i].quantity ELSE 0
  <2>1. \A i \in 1..n : levels[i] = IF buy THEN level(rows[i].ask, rows[i].askSize)
                                    ELSE level(rows[i].bid, rows[i].bidSize)
    <3> HIDE DEF rows, level
    <3> QED  BY <1>2
  <2>2. DOMAIN levels = 1..n
    <3> HIDE DEF rows, level
    <3> QED  BY <1>2
  <2> HIDE DEF rows, raw, levels
  <2> QED  BY <1>3, <2>1, <2>2
<1>6. Book!LevelsFor(rows, case.side) = Book!Side(raw, side)
  <2>1. CASE buy
    BY <2>1, Zenon DEF Book!LevelsFor, Book!Asks
  <2>2. CASE ~buy
    BY <2>2, Zenon DEF Book!LevelsFor, Book!Bids
  <2> QED  BY <2>1, <2>2
<1>7. fill = [filled |-> q - end.left, cost |-> end.cost]
  <2> HIDE DEF raw, side, rows, q
  <2> QED  BY <1>6, FillFolds, Zenon
<1> HIDE DEF raw, side, rows, q, levels, level, end, fill
<1>8. PICK v : Filled(side, raw, n, q, v, end)
  <2>1. q \in Nat \ {0}
    BY <1>1 DEF q
  <2> QED  BY <1>4, <2>1, FillsFill, Zenon DEF end
<1>9. /\ depth \in Int
      /\ fill.filled = IF q <= depth THEN q ELSE depth
      /\ fill.filled >= q <=> q <= depth
      /\ \A t : Takes(raw, n, t, fill.filled) =>
            IF buy THEN fill.cost <= SumOf(CostsOf(raw, n, t))
            ELSE fill.cost >= SumOf(CostsOf(raw, n, t))
  <2>1. q \in Nat \ {0}
    BY <1>1 DEF q
  <2>2. side \in {"bid", "ask"} /\ (side = "ask" <=> buy)
    BY DEF side
  <2>3. fill.filled = q - end.left /\ fill.cost = end.cost
    BY <1>7
  <2> HIDE DEF buy
  <2> QED  BY <1>4, <1>8, <2>1, <2>2, <2>3, FilledIsBest
<1>10. SumOf([i \in DOMAIN levels |-> levels[i].quantity]) = depth
  <2>1. [i \in DOMAIN levels |-> levels[i].quantity] = Offered(raw, n)
    BY <1>5 DEF Offered
  <2> QED  BY <2>1
<1>11. fill.filled = Min({q, depth})
  <2>1. q \in Int
    BY <1>1 DEF q
  <2> QED  BY <1>9, <2>1, SmallerOf
<1>12. Book!CanFill(rows, case.side, q) <=> q <= depth
  BY <1>9 DEF Book!CanFill, fill
<1>13. ASSUME NEW t \in Takings(levels, fill.filled)
       PROVE  IF buy THEN fill.cost <= CostOf(levels, t) ELSE fill.cost >= CostOf(levels, t)
  <2>1. /\ t \in [DOMAIN levels -> 0..fill.filled] /\ \A i \in DOMAIN levels : t[i] <= levels[i].quantity
        /\ SumOf(t) = fill.filled
    BY Zenon DEF Takings, SumOf
  <2>2. \A i \in 1..n : t[i] \in Nat /\ t[i] <= Offered(raw, n)[i]
    BY <1>5, <2>1 DEF Offered
  <2>3. Takes(raw, n, t, fill.filled)
    BY <1>5, <2>1, <2>2 DEF Takes
  <2>4. [i \in DOMAIN levels |-> t[i] * levels[i].price] = CostsOf(raw, n, t)
    BY <1>5 DEF CostsOf
  <2>5. CostOf(levels, t) = SumOf(CostsOf(raw, n, t))
    BY <2>4, Zenon DEF CostOf, SumOf
  <2> HIDE DEF buy
  <2> QED  BY <1>9, <2>3, <2>5
<1> QED  BY <1>10, <1>11, <1>12, <1>13, Zenon DEF FillsAreTheBest, levels, level, fill, rows, q, SumOf

\* However the source orders its levels, an order is filled as far as the book
\* goes and at the best total price the book allows, for any rows, any side and
\* any quantity (fill_price, order_book.py:133-158).
THEOREM OrdersAreFilledBest == Spec => []FillsAreTheBest
<1>1. Asked => FillsAreTheBest
  BY BestFill DEF Asked
<1> QED  BY OnlyAsked, <1>1, PTL

-----------------------------------------------------------------------------
(* The payoff of a structure.                                              *)

IsLeg(l) ==
    /\ l.long \in BOOLEAN /\ l.type \in {"stock", "call", "put"}
    /\ l.quantity \in Int /\ l.size \in Int /\ l.entry \in Int /\ l.strike \in Int

HasLegs(s, n) == n \in Nat /\ DOMAIN s.legs = 1..n /\ s.rate \in Int /\ \A i \in 1..n : IsLeg(s.legs[i])

\* What the legs are worth at a price, what they cost, what they leave.
WorthAt(l, p) == Scan!Signed(l, Scan!IntrinsicAt(l, p) * Scan!Units(l))
Worths(s, n, p) == [i \in 1..n |-> WorthAt(s.legs[i], p)]
Costs(s, n) == [i \in 1..n |-> Scan!LegCost(s.legs[i])]
Pays(s, n, p) == [i \in 1..n |-> Scan!LegPayoff(s.legs[i], p)]

LEMMA LargerInScan ==
    ASSUME NEW a \in Int, NEW b \in Int
    PROVE  Scan!Max({a, b}) = IF a >= b THEN a ELSE b
<1>1. \E x \in {a, b} : \A y \in {a, b} : x >= y
  OBVIOUS
<1>2. Scan!Max({a, b}) \in {a, b} /\ \A y \in {a, b} : Scan!Max({a, b}) >= y
  BY <1>1 DEF Scan!Max
<1> QED  BY <1>2

LEMMA IntrinsicIs ==
    ASSUME NEW l, IsLeg(l), NEW p \in Int
    PROVE  /\ Scan!IntrinsicAt(l, p) \in Int
           /\ l.type = "stock" => Scan!IntrinsicAt(l, p) = p
           /\ l.type = "call" => Scan!IntrinsicAt(l, p) = IF p >= l.strike THEN p - l.strike ELSE 0
           /\ l.type = "put" => Scan!IntrinsicAt(l, p) = IF l.strike >= p THEN l.strike - p ELSE 0
<1>1. l.type \in {"stock", "call", "put"} /\ l.strike \in Int
  BY DEF IsLeg
<1>2. CASE l.type = "stock"
  BY <1>2 DEF Scan!IntrinsicAt
<1>3. CASE l.type = "call"
  <2>1. Scan!IntrinsicAt(l, p) = Scan!Max({p - l.strike, 0})
    BY <1>3 DEF Scan!IntrinsicAt
  <2> QED  BY <1>1, <1>3, <2>1, LargerInScan
<1>4. CASE l.type = "put"
  <2>1. Scan!IntrinsicAt(l, p) = Scan!Max({l.strike - p, 0})
    BY <1>4 DEF Scan!IntrinsicAt
  <2> QED  BY <1>1, <1>4, <2>1, LargerInScan
<1> QED  BY <1>1, <1>2, <1>3, <1>4

LEMMA LegNumbers ==
    ASSUME NEW l, IsLeg(l), NEW p \in Int
    PROVE  /\ Scan!Units(l) \in Int /\ WorthAt(l, p) \in Int /\ Scan!LegCost(l) \in Int
           /\ Scan!LegPayoff(l, p) = WorthAt(l, p) - Scan!LegCost(l)
<1>1. l.quantity \in Int /\ l.size \in Int /\ l.entry \in Int /\ l.long \in BOOLEAN
  BY DEF IsLeg
<1>2. PICK u \in Int : u = Scan!Units(l)
  BY <1>1 DEF Scan!Units
<1>3. PICK v \in Int : v = Scan!IntrinsicAt(l, p)
  BY IntrinsicIs
<1>4. PICK a \in Int, b \in Int : a = v * u /\ b = l.entry * u
  BY <1>1, <1>2, <1>3
<1>5. (v - l.entry) * u = a - b
  BY <1>1, <1>2, <1>3, <1>4
<1>6. WorthAt(l, p) = IF l.long THEN a ELSE -a
  BY <1>2, <1>3, <1>4 DEF WorthAt, Scan!Signed
<1>7. Scan!LegCost(l) = IF l.long THEN b ELSE -b
  BY <1>2, <1>4 DEF Scan!LegCost, Scan!Signed
<1>8. Scan!LegPayoff(l, p) = IF l.long THEN a - b ELSE -(a - b)
  BY <1>2, <1>3, <1>5 DEF Scan!LegPayoff, Scan!Signed
<1> QED  BY <1>1, <1>2, <1>4, <1>6, <1>7, <1>8

LEMMA TotalsAreSums ==
    ASSUME NEW s, NEW n, HasLegs(s, n), NEW p
    PROVE  /\ Scan!PayoffAt(s, p) = 100 * SumOf(Pays(s, n, p)) - Scan!Commission(s)
           /\ Scan!NetCost(s) = 100 * SumOf(Costs(s, n)) + Scan!Commission(s)
<1>1. DOMAIN s.legs = 1..n
  BY DEF HasLegs
<1>2. Scan!PayoffAt(s, p) = 100 * SumOf([i \in DOMAIN s.legs |-> Scan!LegPayoff(s.legs[i], p)]) - Scan!Commission(s)
  BY Zenon DEF Scan!PayoffAt, Scan!RateScale, Scan!Total, SumOf, Scan!FoldLeft, FoldLeft, Scan!MapThenFoldSet, MapThenFoldSet, Scan!Max, Max
<1>3. Scan!NetCost(s) = 100 * SumOf([i \in DOMAIN s.legs |-> Scan!LegCost(s.legs[i])]) + Scan!Commission(s)
  BY Zenon DEF Scan!NetCost, Scan!RateScale, Scan!Total, SumOf, Scan!FoldLeft, FoldLeft, Scan!MapThenFoldSet, MapThenFoldSet, Scan!Max, Max
<1> QED  BY <1>1, <1>2, <1>3, Zenon DEF Pays, Costs

LEMMA NetIs ==
    ASSUME NEW s, NEW n, HasLegs(s, n), NEW p \in Int
    PROVE  /\ Numbers(Worths(s, n, p), n) /\ Numbers(Pays(s, n, p), n) /\ Numbers(Costs(s, n), n)
           /\ Scan!Commission(s) \in Int /\ Scan!NetCost(s) \in Int /\ Scan!PayoffAt(s, p) \in Int
           /\ Scan!PayoffAt(s, p) = 100 * SumOf(Worths(s, n, p)) - Scan!NetCost(s)
<1>1. n \in Nat /\ s.rate \in Int /\ DOMAIN s.legs = 1..n /\ \A i \in 1..n : IsLeg(s.legs[i])
  BY DEF HasLegs
<1>2. Numbers(Worths(s, n, p), n) /\ Numbers(Pays(s, n, p), n) /\ Numbers(Costs(s, n), n)
  <2>1. ASSUME NEW i \in 1..n
        PROVE  /\ WorthAt(s.legs[i], p) \in Int /\ Scan!LegPayoff(s.legs[i], p) \in Int
               /\ Scan!LegCost(s.legs[i]) \in Int
    <3>1. IsLeg(s.legs[i])
      BY <1>1
    <3> QED  BY <3>1, LegNumbers
  <2> QED  BY <2>1 DEF Numbers, Worths, Pays, Costs
<1> DEFINE less == -1
<1>3. Combined(Worths(s, n, p), Costs(s, n), Pays(s, n, p), n, less)
  <2>1. DOMAIN Pays(s, n, p) = 1..n
    BY DEF Pays
  <2>2. ASSUME NEW i \in 1..n PROVE Pays(s, n, p)[i] = Worths(s, n, p)[i] + (-1) * Costs(s, n)[i]
    <3>1. IsLeg(s.legs[i])
      BY <1>1
    <3>2. /\ WorthAt(s.legs[i], p) \in Int /\ Scan!LegCost(s.legs[i]) \in Int
          /\ Scan!LegPayoff(s.legs[i], p) = WorthAt(s.legs[i], p) - Scan!LegCost(s.legs[i])
      BY <3>1, LegNumbers
    <3>3. Pays(s, n, p)[i] = Worths(s, n, p)[i] - Costs(s, n)[i]
      BY <3>2 DEF Pays, Worths, Costs
    <3>4. Worths(s, n, p)[i] \in Int /\ Costs(s, n)[i] \in Int
      BY <1>2 DEF Numbers
    <3> QED  BY <3>3, <3>4
  <2> QED  BY <1>2, <2>1, <2>2 DEF Combined
<1>4. SumOf(Pays(s, n, p)) = SumOf(Worths(s, n, p)) + less * SumOf(Costs(s, n))
  <2> DEFINE x == Worths(s, n, p)
             y == Costs(s, n)
             z == Pays(s, n, p)
  <2>1. n \in Nat /\ Combined(x, y, z, n, less)
    BY <1>1, <1>3
  <2> HIDE DEF less, x, y, z
  <2>2. SumOf(z) = SumOf(x) + less * SumOf(y)
    BY <2>1, SumOfCombined
  <2> QED  BY <2>2 DEF x, y, z
<1>5. SumOf(Pays(s, n, p)) \in Int /\ SumOf(Worths(s, n, p)) \in Int /\ SumOf(Costs(s, n)) \in Int
  BY <1>1, <1>2, SumIsNumber
<1>6. Scan!Commission(s) \in Int
  <2> DEFINE turnover == [i \in 1..n |-> s.legs[i].entry * Scan!Units(s.legs[i])]
  <2>1. Scan!Commission(s) = s.rate * SumOf([i \in DOMAIN s.legs |-> s.legs[i].entry * Scan!Units(s.legs[i])])
    BY Zenon DEF Scan!Commission, Scan!Total, SumOf, Scan!FoldLeft, FoldLeft, Scan!MapThenFoldSet, MapThenFoldSet, Scan!Max, Max
  <2>2. ASSUME NEW i \in 1..n PROVE s.legs[i].entry * Scan!Units(s.legs[i]) \in Int
    <3>1. IsLeg(s.legs[i])
      BY <1>1
    <3>2. s.legs[i].entry \in Int /\ Scan!Units(s.legs[i]) \in Int
      BY <3>1, LegNumbers DEF IsLeg
    <3> QED  BY <3>2
  <2>3. Numbers(turnover, n)
    BY <2>2 DEF Numbers
  <2>4. SumOf(turnover) \in Int
    <3> HIDE DEF turnover
    <3> QED  BY <1>1, <2>3, SumIsNumber
  <2>5. Scan!Commission(s) = s.rate * SumOf(turnover)
    BY <1>1, <2>1
  <2> HIDE DEF turnover
  <2> QED  BY <1>1, <2>4, <2>5
<1>7. /\ Scan!PayoffAt(s, p) = 100 * SumOf(Pays(s, n, p)) - Scan!Commission(s)
      /\ Scan!NetCost(s) = 100 * SumOf(Costs(s, n)) + Scan!Commission(s)
  BY TotalsAreSums
<1> QED  BY <1>2, <1>4, <1>5, <1>6, <1>7

\* Between its strikes a payoff is a straight line.
LEMMA LegBends ==
    ASSUME NEW l, IsLeg(l), NEW p \in Int, l.type = "stock" \/ l.strike # p
    PROVE  WorthAt(l, p + 1) + WorthAt(l, p - 1) = 2 * WorthAt(l, p)
<1>1. /\ l.type \in {"stock", "call", "put"} /\ l.strike \in Int /\ l.long \in BOOLEAN
      /\ p + 1 \in Int /\ p - 1 \in Int
  BY DEF IsLeg
<1>2. PICK u \in Int : u = Scan!Units(l)
  <2>1. Scan!Units(l) \in Int
    BY LegNumbers
  <2> QED  BY <2>1
<1>3. PICK a \in Int, b \in Int, c \in Int :
         a = Scan!IntrinsicAt(l, p + 1) /\ b = Scan!IntrinsicAt(l, p) /\ c = Scan!IntrinsicAt(l, p - 1)
  <2>1. \A q \in Int : Scan!IntrinsicAt(l, q) \in Int
    BY IntrinsicIs
  <2> QED  BY <1>1, <2>1
<1>4. a + c = 2 * b
  <2>1. CASE l.type = "stock"
    <3>1. \A q \in Int : Scan!IntrinsicAt(l, q) = q
      BY <2>1, IntrinsicIs
    <3> QED  BY <1>1, <1>3, <3>1
  <2>2. CASE l.type = "call"
    <3>1. \A q \in Int : Scan!IntrinsicAt(l, q) = IF q >= l.strike THEN q - l.strike ELSE 0
      BY <2>2, IntrinsicIs
    <3>2. PICK k \in Int : k = l.strike /\ k # p
      BY <1>1, <2>2
    <3>3. /\ a = IF p + 1 >= k THEN (p + 1) - k ELSE 0
          /\ b = IF p >= k THEN p - k ELSE 0
          /\ c = IF p - 1 >= k THEN (p - 1) - k ELSE 0
      BY <1>1, <1>3, <3>1, <3>2
    <3>4. CASE p > k
      BY <3>2, <3>3, <3>4
    <3>5. CASE p < k
      BY <3>2, <3>3, <3>5
    <3> QED  BY <3>2, <3>4, <3>5
  <2>3. CASE l.type = "put"
    <3>1. \A q \in Int : Scan!IntrinsicAt(l, q) = IF l.strike >= q THEN l.strike - q ELSE 0
      BY <2>3, IntrinsicIs
    <3>2. PICK k \in Int : k = l.strike /\ k # p
      BY <1>1, <2>3
    <3>3. /\ a = IF k >= p + 1 THEN k - (p + 1) ELSE 0
          /\ b = IF k >= p THEN k - p ELSE 0
          /\ c = IF k >= p - 1 THEN k - (p - 1) ELSE 0
      BY <1>1, <1>3, <3>1, <3>2
    <3>4. CASE p > k
      BY <3>2, <3>3, <3>4
    <3>5. CASE p < k
      BY <3>2, <3>3, <3>5
    <3> QED  BY <3>2, <3>4, <3>5
  <2> QED  BY <1>1, <2>1, <2>2, <2>3
<1>5. PICK x \in Int, y \in Int, z \in Int : x = a * u /\ y = b * u /\ z = c * u
  BY <1>2, <1>3
<1>6. x + z = 2 * y
  <2>1. x + z = (a + c) * u
    BY <1>2, <1>3, <1>5
  <2>2. (2 * b) * u = 2 * (b * u)
    BY <1>2, <1>3
  <2> QED  BY <1>4, <1>5, <2>1, <2>2
<1>7. /\ WorthAt(l, p + 1) = IF l.long THEN x ELSE -x
      /\ WorthAt(l, p) = IF l.long THEN y ELSE -y
      /\ WorthAt(l, p - 1) = IF l.long THEN z ELSE -z
  BY <1>2, <1>3, <1>5 DEF WorthAt, Scan!Signed
<1> QED  BY <1>1, <1>5, <1>6, <1>7

LEMMA PayoffBends ==
    ASSUME NEW s, NEW n, HasLegs(s, n), NEW p \in Int, p \notin Scan!Strikes(s)
    PROVE  Scan!PayoffAt(s, p + 1) + Scan!PayoffAt(s, p - 1) = 2 * Scan!PayoffAt(s, p)
<1>1. n \in Nat /\ DOMAIN s.legs = 1..n /\ \A i \in 1..n : IsLeg(s.legs[i])
  BY DEF HasLegs
<1>2. p + 1 \in Int /\ p - 1 \in Int
  OBVIOUS
<1> DEFINE up == Worths(s, n, p + 1)
           mid == Worths(s, n, p)
           down == Worths(s, n, p - 1)
           both == [i \in 1..n |-> up[i] + down[i]]
<1>3. Numbers(up, n) /\ Numbers(mid, n) /\ Numbers(down, n)
  BY <1>2, NetIs
<1>4. ASSUME NEW i \in 1..n PROVE both[i] = up[i] + 1 * down[i] /\ both[i] = mid[i] + 1 * mid[i]
  <2>1. IsLeg(s.legs[i]) /\ (s.legs[i].type = "stock" \/ s.legs[i].strike # p)
    BY <1>1 DEF Scan!Strikes, Scan!IsOption
  <2>2. up[i] + down[i] = 2 * mid[i]
    BY <2>1, LegBends DEF Worths
  <2>3. up[i] \in Int /\ mid[i] \in Int /\ down[i] \in Int
    BY <1>3 DEF Numbers
  <2>4. both[i] = up[i] + down[i]
    OBVIOUS
  <2> HIDE DEF up, mid, down, both
  <2> QED  BY <2>2, <2>3, <2>4
<1>5. DOMAIN both = 1..n
  OBVIOUS
<1> HIDE DEF up, mid, down, both
<1>6. Combined(up, down, both, n, 1) /\ Combined(mid, mid, both, n, 1)
  BY <1>3, <1>4, <1>5 DEF Combined
<1>7. SumOf(both) = SumOf(up) + 1 * SumOf(down) /\ SumOf(both) = SumOf(mid) + 1 * SumOf(mid)
  BY <1>1, <1>6, SumOfCombined
<1>8. SumOf(up) \in Int /\ SumOf(mid) \in Int /\ SumOf(down) \in Int
  BY <1>1, <1>3, SumIsNumber
<1>9. /\ Scan!NetCost(s) \in Int
      /\ Scan!PayoffAt(s, p + 1) = 100 * SumOf(up) - Scan!NetCost(s)
      /\ Scan!PayoffAt(s, p) = 100 * SumOf(mid) - Scan!NetCost(s)
      /\ Scan!PayoffAt(s, p - 1) = 100 * SumOf(down) - Scan!NetCost(s)
  BY <1>2, NetIs DEF up, mid, down
<1> QED  BY <1>7, <1>8, <1>9

-----------------------------------------------------------------------------
(* Where a bent line is highest.                                           *)

\* A line through 0..m that bends at the places K only.
Bent(f, m, K) ==
    /\ m \in Nat \ {0} /\ \A p \in 0..m : f[p] \in Int
    /\ \A p \in 1..(m - 1) : p \notin K => f[p + 1] + f[p - 1] = 2 * f[p]

\* The first of the highest places up to m.
FirstTop(f, m, x) ==
    /\ x \in 0..m
    /\ \A p \in 0..m : f[p] <= f[x] /\ (p < x => f[p] < f[x])

LEMMA TopExists ==
    ASSUME NEW m \in Nat, NEW f, \A p \in 0..m : f[p] \in Int
    PROVE  \E x : FirstTop(f, m, x)
<1> DEFINE A == {k \in 0..m : \E x : FirstTop(f, k, x)}
<1>1. 0 \in A
  <2>1. FirstTop(f, 0, 0)
    BY DEF FirstTop
  <2> QED  BY <2>1
<1>2. ASSUME NEW k \in 0..(m - 1), k \in A PROVE k + 1 \in A
  <2>1. PICK x : FirstTop(f, k, x)
    BY <1>2
  <2>2. /\ x \in 0..m /\ k + 1 \in 0..m /\ f[x] \in Int /\ f[k + 1] \in Int
        /\ \A p \in 0..(k + 1) : p \in 0..m /\ f[p] \in Int /\ (p \in 0..k \/ p = k + 1)
    BY <2>1 DEF FirstTop
  <2>3. CASE f[k + 1] <= f[x]
    <3>1. FirstTop(f, k + 1, x)
      BY <2>1, <2>2, <2>3 DEF FirstTop
    <3> QED  BY <2>2, <3>1
  <2>4. CASE f[k + 1] > f[x]
    <3>1. FirstTop(f, k + 1, k + 1)
      BY <2>1, <2>2, <2>4 DEF FirstTop
    <3> QED  BY <2>2, <3>1
  <2> QED  BY <2>2, <2>3, <2>4
<1>3. \A k \in 0..m : k \in A
  <2> HIDE DEF A
  <2> QED  BY <1>1, <1>2, Adds!UpTo
<1>4. m \in 0..m
  OBVIOUS
<1> QED  BY <1>3, <1>4

LEMMA TopIsAtABend ==
    ASSUME NEW f, NEW m, NEW K, Bent(f, m, K), f[m] <= f[m - 1]
    PROVE  \E x \in {0} \union K : x \in 0..m /\ \A p \in 0..m : f[p] <= f[x]
<1>1. m \in Nat /\ m > 0 /\ \A p \in 0..m : f[p] \in Int
  BY DEF Bent
<1>2. PICK x : FirstTop(f, m, x)
  BY <1>1, TopExists
<1>3. x \in 0..m /\ \A p \in 0..m : f[p] <= f[x] /\ (p < x => f[p] < f[x])
  BY <1>2 DEF FirstTop
<1>4. x # m
  <2>1. m - 1 \in 0..m /\ m - 1 < m
    BY <1>1
  <2> QED  BY <1>1, <1>3, <2>1
<1>5. ASSUME x # 0, x \notin K PROVE FALSE
  <2>1. x \in 1..(m - 1) /\ x - 1 \in 0..m /\ x + 1 \in 0..m /\ x - 1 < x
    BY <1>1, <1>3, <1>4, <1>5
  <2>2. f[x + 1] + f[x - 1] = 2 * f[x]
    BY <1>5, <2>1 DEF Bent
  <2>3. f[x - 1] < f[x] /\ f[x + 1] <= f[x] /\ f[x] \in Int /\ f[x - 1] \in Int /\ f[x + 1] \in Int
    BY <1>1, <1>3, <2>1
  <2> QED  BY <2>2, <2>3
<1> QED  BY <1>3, <1>5

LEMMA BottomIsAtABend ==
    ASSUME NEW f, NEW m, NEW K, Bent(f, m, K), f[m] >= f[m - 1]
    PROVE  \E x \in {0} \union K : x \in 0..m /\ \A p \in 0..m : f[p] >= f[x]
<1> DEFINE g == [p \in 0..m |-> -f[p]]
<1>1. m \in Nat /\ m > 0 /\ \A p \in 0..m : f[p] \in Int
  BY DEF Bent
<1>2. \A p \in 0..m : g[p] \in Int /\ g[p] = -f[p]
  BY <1>1
<1> HIDE DEF g
<1>3. m - 1 \in 0..m /\ m \in 0..m /\ \A p \in 1..(m - 1) : p \in 0..m /\ p + 1 \in 0..m /\ p - 1 \in 0..m
  BY <1>1
<1>4. ASSUME NEW p \in 1..(m - 1), p \notin K PROVE g[p + 1] + g[p - 1] = 2 * g[p]
  <2>1. f[p + 1] + f[p - 1] = 2 * f[p]
    BY <1>4 DEF Bent
  <2> QED  BY <1>1, <1>2, <1>3, <2>1
<1>5. Bent(g, m, K)
  BY <1>1, <1>2, <1>4 DEF Bent
<1>6. g[m] <= g[m - 1]
  BY <1>1, <1>2, <1>3
<1>7. PICK x \in {0} \union K : x \in 0..m /\ \A p \in 0..m : g[p] <= g[x]
  BY <1>5, <1>6, TopIsAtABend
<1>8. ASSUME NEW p \in 0..m PROVE f[p] >= f[x]
  <2>1. g[p] <= g[x] /\ g[p] = -f[p] /\ g[x] = -f[x] /\ f[p] \in Int /\ f[x] \in Int
    BY <1>1, <1>2, <1>7
  <2> QED  BY <2>1
<1> QED  BY <1>7, <1>8

-----------------------------------------------------------------------------
(* The extremes of a structure.                                            *)

\* Options at positive strikes, one at least.
Sound(s, n) ==
    /\ HasLegs(s, n)
    /\ \A i \in 1..n : Scan!IsOption(s.legs[i]) => s.legs[i].strike > 0
    /\ \E i \in 1..n : Scan!IsOption(s.legs[i])

LEMMA HighestIsThere ==
    ASSUME NEW n \in Nat, NEW v, NEW I, I \subseteq 1..n, I # {}, \A i \in I : v[i] \in Int
    PROVE  \E x \in I : \A y \in I : v[y] <= v[x]
<1> DEFINE A == {m \in 0..n : (\A y \in I : y > m) \/ (\E x \in I : \A y \in I : y <= m => v[y] <= v[x])}
<1>1. 0 \in A
  OBVIOUS
<1>2. ASSUME NEW m \in 0..(n - 1), m \in A PROVE m + 1 \in A
  <2>1. m + 1 \in 0..n /\ \A y \in I : y <= m + 1 => y <= m \/ y = m + 1
    OBVIOUS
  <2>2. CASE m + 1 \notin I
    <3>1. CASE \A y \in I : y > m
      <4>1. \A y \in I : y > m + 1
        BY <2>1, <2>2, <3>1
      <4> QED  BY <2>1, <4>1
    <3>2. CASE \E x \in I : \A y \in I : y <= m => v[y] <= v[x]
      <4>1. \E x \in I : \A y \in I : y <= m + 1 => v[y] <= v[x]
        BY <2>1, <2>2, <3>2
      <4> QED  BY <2>1, <4>1
    <3> QED  BY <1>2, <3>1, <3>2
  <2>3. CASE m + 1 \in I
    <3>1. CASE \A y \in I : y > m
      <4>1. \A y \in I : y <= m + 1 => v[y] <= v[m + 1]
        BY <2>1, <2>3, <3>1
      <4> QED  BY <2>1, <2>3, <4>1
    <3>2. CASE \E x \in I : \A y \in I : y <= m => v[y] <= v[x]
      <4>1. PICK x \in I : \A y \in I : y <= m => v[y] <= v[x]
        BY <3>2
      <4>2. CASE v[m + 1] <= v[x]
        <5>1. \A y \in I : y <= m + 1 => v[y] <= v[x]
          BY <2>1, <4>1, <4>2
        <5> QED  BY <2>1, <5>1
      <4>3. CASE v[m + 1] > v[x]
        <5>1. \A y \in I : y <= m + 1 => v[y] <= v[m + 1]
          <6>1. v[m + 1] \in Int /\ v[x] \in Int
            BY <2>3
          <6> QED  BY <2>1, <4>1, <4>3, <6>1
        <5> QED  BY <2>1, <2>3, <5>1
      <4>4. v[m + 1] \in Int /\ v[x] \in Int
        BY <2>3
      <4> QED  BY <4>2, <4>3, <4>4
    <3> QED  BY <1>2, <3>1, <3>2
  <2> QED  BY <2>2, <2>3
<1>3. \A m \in 0..n : m \in A
  <2> HIDE DEF A
  <2> QED  BY <1>1, <1>2, Adds!UpTo
<1>4. n \in A
  <2>1. n \in 0..n
    OBVIOUS
  <2> HIDE DEF A
  <2> QED  BY <1>3, <2>1
<1>5. \A y \in I : y \in Int /\ y <= n /\ ~(y > n)
  OBVIOUS
<1>6. \E y \in I : TRUE
  OBVIOUS
<1> QED  BY <1>4, <1>5, <1>6

LEMMA LowestIsThere ==
    ASSUME NEW n \in Nat, NEW v, NEW I, I \subseteq 1..n, I # {}, \A i \in I : v[i] \in Int
    PROVE  \E x \in I : \A y \in I : v[y] >= v[x]
<1> DEFINE w == [i \in 1..n |-> -v[i]]
<1>1. \A i \in I : w[i] \in Int /\ w[i] = -v[i]
  OBVIOUS
<1> HIDE DEF w
<1>2. PICK x \in I : \A y \in I : w[y] <= w[x]
  BY <1>1, HighestIsThere
<1>3. ASSUME NEW y \in I PROVE v[y] >= v[x]
  <2>1. w[y] <= w[x] /\ w[y] = -v[y] /\ w[x] = -v[x] /\ v[y] \in Int /\ v[x] \in Int
    BY <1>1, <1>2
  <2> QED  BY <2>1
<1> QED  BY <1>3

\* The lowest and the highest strike.
Spans(s, low, top) ==
    /\ low \in Scan!Strikes(s) /\ top \in Scan!Strikes(s) /\ 0 < low
    /\ low \in Int /\ top \in Int
    /\ \A k \in Scan!Strikes(s) : k \in Int /\ low <= k /\ k <= top
    /\ Scan!Max(Scan!Strikes(s)) = top /\ Scan!Min(Scan!Strikes(s)) = low
    /\ Max(Scan!Strikes(s)) = top

LEMMA StrikesSpan ==
    ASSUME NEW s, NEW n, Sound(s, n)
    PROVE  \E low, top : Spans(s, low, top)
<1>1. n \in Nat /\ DOMAIN s.legs = 1..n /\ \A i \in 1..n : IsLeg(s.legs[i])
  BY DEF Sound, HasLegs
<1> DEFINE I == {j \in 1..n : Scan!IsOption(s.legs[j])}
           v == [i \in 1..n |-> s.legs[i].strike]
           S == Scan!Strikes(s)
<1>2. S = {v[i] : i \in I}
  BY <1>1 DEF Scan!Strikes
<1>3. I \subseteq 1..n /\ I # {} /\ \A i \in I : v[i] \in Int /\ v[i] > 0
  BY <1>1 DEF Sound, IsLeg
<1> HIDE DEF I, v, S
<1>4. PICK x \in I : \A y \in I : v[y] <= v[x]
  BY <1>1, <1>3, HighestIsThere
<1>5. PICK z \in I : \A y \in I : v[y] >= v[z]
  BY <1>1, <1>3, LowestIsThere
<1>6. PICK top \in Int, low \in Int : top = v[x] /\ low = v[z]
  BY <1>3
<1>7. top \in S /\ low \in S /\ 0 < low /\ \A k \in S : k \in Int /\ low <= k /\ k <= top
  BY <1>2, <1>3, <1>4, <1>5, <1>6
<1>8. ASSUME NEW m \in S, \A k \in S : m >= k PROVE m = top
  BY <1>7, <1>8
<1>9. ASSUME NEW m \in S, \A k \in S : m <= k PROVE m = low
  BY <1>7, <1>9
<1>10. \E m \in S : \A k \in S : m >= k
  BY <1>7
<1>11. \E m \in S : \A k \in S : m <= k
  BY <1>7
<1>12. Scan!Max(S) = top /\ Max(S) = top
  <2>1. Scan!Max(S) \in S /\ \A k \in S : Scan!Max(S) >= k
    BY <1>10 DEF Scan!Max
  <2>2. Max(S) \in S /\ \A k \in S : Max(S) >= k
    BY <1>10 DEF Max
  <2> QED  BY <1>8, <2>1, <2>2
<1>13. Scan!Min(S) = low
  <2>1. Scan!Min(S) \in S /\ \A k \in S : Scan!Min(S) <= k
    BY <1>11 DEF Scan!Min
  <2> QED  BY <1>9, <2>1
<1>14. Spans(s, low, top)
  BY <1>6, <1>7, <1>12, <1>13 DEF Spans, S
<1> QED  BY <1>14

\* What is asked for is at zero, at the strikes, and inside the range.
LEMMA ProbesAreInRange ==
    ASSUME NEW s, NEW low, NEW top, Spans(s, low, top)
    PROVE  /\ {0} \union Scan!Strikes(s) \subseteq Scan!Probes(s)
           /\ Scan!Probes(s) \subseteq 0..(2 * top + 1)
<1> DEFINE S == Scan!Strikes(s)
           pairs == {p \in S \X S : p[1] < p[2] /\ \A k \in S : k <= p[1] \/ p[2] <= k}
           last == top + (IF top - low > 0 THEN top - low ELSE top \div 2)
<1>1. \A k \in S : k \in Int /\ low <= k /\ k <= top
  BY DEF Spans
<1>2. low \in Int /\ top \in Int /\ 0 < low /\ low \in S /\ top \in S
  BY DEF Spans
<1>3. Scan!Probes(s) = {0, last} \union S \union {(p[1] + p[2]) \div 2 : p \in pairs}
  <2>1. Scan!Max(Scan!Strikes(s)) = top /\ Scan!Min(Scan!Strikes(s)) = low
    BY DEF Spans
  <2> QED  BY <2>1 DEF Scan!Probes
<1>4. last \in 0..(2 * top + 1)
  BY <1>1, <1>2
<1>5. \A k \in S : k \in 0..(2 * top + 1)
  BY <1>1, <1>2
<1>6. ASSUME NEW p \in pairs PROVE (p[1] + p[2]) \div 2 \in 0..(2 * top + 1)
  <2>1. p[1] \in S /\ p[2] \in S
    OBVIOUS
  <2>2. PICK a \in Int, b \in Int : a = p[1] /\ b = p[2] /\ 0 < a /\ a <= top /\ 0 < b /\ b <= top
    <3>1. p[1] \in Int /\ p[2] \in Int /\ low <= p[1] /\ low <= p[2] /\ p[1] <= top /\ p[2] <= top
      BY <1>1, <2>1
    <3>2. PICK a \in Int, b \in Int : a = p[1] /\ b = p[2]
      BY <3>1
    <3>3. 0 < a /\ a <= top /\ 0 < b /\ b <= top
      BY <1>2, <3>1, <3>2
    <3> QED  BY <3>2, <3>3
  <2>3. (a + b) \div 2 \in 0..(2 * top + 1)
    BY <1>2, <2>2
  <2> QED  BY <2>2, <2>3
<1>7. 0 \in 0..(2 * top + 1)
  BY <1>1, <1>2
<1> HIDE DEF S, pairs, last
<1>8. ASSUME NEW q \in Scan!Probes(s) PROVE q \in 0..(2 * top + 1)
  BY <1>3, <1>4, <1>5, <1>6, <1>7, <1>8
<1>9. {0} \union S \subseteq Scan!Probes(s)
  BY <1>3
<1> QED  BY <1>8, <1>9 DEF S

Image(f, P) == {f[p] : p \in P}

TopOf(f, R, P, x) == x \in P /\ P \subseteq R /\ \A p \in R : f[p] \in Int /\ f[p] <= f[x]
BottomOf(f, R, P, x) == x \in P /\ P \subseteq R /\ \A p \in R : f[p] \in Int /\ f[p] >= f[x]

\* A highest place among P of those of R.
LEMMA TopOfPart ==
    ASSUME NEW R, NEW P, NEW f, NEW x, TopOf(f, R, P, x)
    PROVE  Scan!Max(Image(f, P)) = f[x] /\ Max(Image(f, R)) = f[x]
<1> DEFINE V == {f[p] : p \in P}
           W == {f[p] : p \in R}
<1>1. f[x] \in V /\ f[x] \in W /\ \A w \in W : w \in Int /\ w <= f[x]
  BY DEF TopOf
<1>2. V \subseteq W
  BY DEF TopOf
<1> HIDE DEF V, W
<1>3. Scan!Max(V) \in V /\ \A y \in V : Scan!Max(V) >= y
  <2>1. \E y \in V : \A z \in V : y >= z
    BY <1>1, <1>2
  <2> QED  BY <2>1 DEF Scan!Max
<1>4. Max(W) \in W /\ \A y \in W : Max(W) >= y
  <2>1. \E y \in W : \A z \in W : y >= z
    BY <1>1
  <2> QED  BY <2>1 DEF Max
<1>5. Scan!Max(V) = f[x]
  BY <1>1, <1>2, <1>3
<1>6. Max(W) = f[x]
  BY <1>1, <1>4
<1> QED  BY <1>5, <1>6 DEF V, W, Image

LEMMA BottomOfPart ==
    ASSUME NEW R, NEW P, NEW f, NEW x, BottomOf(f, R, P, x)
    PROVE  Scan!Min(Image(f, P)) = f[x] /\ Min(Image(f, R)) = f[x]
<1> DEFINE V == {f[p] : p \in P}
           W == {f[p] : p \in R}
<1>1. f[x] \in V /\ f[x] \in W /\ \A w \in W : w \in Int /\ w >= f[x]
  BY DEF BottomOf
<1>2. V \subseteq W
  BY DEF BottomOf
<1> HIDE DEF V, W
<1>3. Scan!Min(V) \in V /\ \A y \in V : Scan!Min(V) <= y
  <2>1. \E y \in V : \A z \in V : y <= z
    BY <1>1, <1>2
  <2> QED  BY <2>1 DEF Scan!Min
<1>4. Min(W) \in W /\ \A y \in W : Min(W) <= y
  <2>1. \E y \in W : \A z \in W : y <= z
    BY <1>1
  <2> QED  BY <2>1 DEF Min
<1>5. Scan!Min(V) = f[x]
  BY <1>1, <1>2, <1>3
<1>6. Min(W) = f[x]
  BY <1>1, <1>4
<1> QED  BY <1>5, <1>6 DEF V, W, Image

End(s) == 2 * Max(Scan!Strikes(s)) + 1
ValuesAt(s, P) == {Scan!PayoffAt(s, p) : p \in P}
Slope(s) == Scan!PayoffAt(s, End(s)) - Scan!PayoffAt(s, End(s) - 1)

LEMMA EndOfRange ==
    ASSUME NEW s, NEW n, Sound(s, n)
    PROVE  PriceRange(s) = 0..End(s) /\ Max(PriceRange(s)) = End(s) /\ End(s) \in Nat \ {0}
<1>1. PICK low, top : Spans(s, low, top)
  BY StrikesSpan
<1>2. top \in Nat /\ Max(Scan!Strikes(s)) = top
  BY <1>1 DEF Spans
<1>3. PICK m \in Nat \ {0} : m = End(s)
  BY <1>2 DEF End
<1>4. PriceRange(s) = 0..m
  BY <1>3 DEF PriceRange, End
<1>5. Max(0..m) = m
  <2>1. m \in 0..m /\ \A y \in 0..m : m >= y
    OBVIOUS
  <2>2. Max(0..m) \in 0..m /\ \A y \in 0..m : Max(0..m) >= y
    BY <2>1 DEF Max
  <2> QED  BY <2>1, <2>2
<1> QED  BY <1>3, <1>4, <1>5

LEMMA ExtremesOfRange ==
    ASSUME NEW s, NEW n, Sound(s, n)
    PROVE  /\ Slope(s) \in Int
           /\ Slope(s) <= 0 => Scan!Max(ValuesAt(s, Scan!Probes(s))) = Max(ValuesAt(s, PriceRange(s)))
           /\ Slope(s) >= 0 => Scan!Min(ValuesAt(s, Scan!Probes(s))) = Min(ValuesAt(s, PriceRange(s)))
           /\ Slope(s) >= 0 => Scan!Min(ValuesAt(s, Scan!Probes(s))) \in Int
           /\ Slope(s) >= 0 => \A p \in PriceRange(s) :
                 Scan!PayoffAt(s, p) >= Scan!Min(ValuesAt(s, Scan!Probes(s)))
           /\ Slope(s) <= 0 => \E p \in PriceRange(s) :
                 Scan!PayoffAt(s, p) = Scan!Max(ValuesAt(s, Scan!Probes(s)))
<1> DEFINE m == End(s)
           R == PriceRange(s)
           P == Scan!Probes(s)
           K == Scan!Strikes(s)
           f == [p \in 0..(m + 1) |-> Scan!PayoffAt(s, p)]
<1>1. R = 0..m /\ m \in Nat \ {0}
  BY EndOfRange
<1>2. PICK low, top : Spans(s, low, top)
  BY StrikesSpan
<1>3. {0} \union K \subseteq P /\ P \subseteq R
  BY <1>2, ProbesAreInRange DEF Spans, PriceRange
<1>4. ASSUME NEW p \in 0..m PROVE f[p] = Scan!PayoffAt(s, p) /\ f[p] \in Int
  <2>1. p \in Int /\ p \in 0..(m + 1) /\ HasLegs(s, n)
    BY <1>1 DEF Sound
  <2>2. Scan!PayoffAt(s, p) \in Int
    BY <2>1, NetIs
  <2> QED  BY <2>1, <2>2
<1>5. Bent(f, m, K)
  <2>1. ASSUME NEW p \in 1..(m - 1), p \notin K PROVE f[p + 1] + f[p - 1] = 2 * f[p]
    <3>1. p \in Int /\ HasLegs(s, n)
      BY DEF Sound
    <3>2. Scan!PayoffAt(s, p + 1) + Scan!PayoffAt(s, p - 1) = 2 * Scan!PayoffAt(s, p)
      BY <2>1, <3>1, PayoffBends
    <3>3. p \in 0..m /\ p + 1 \in 0..m /\ p - 1 \in 0..m
      BY <1>1
    <3> QED  BY <1>4, <3>2, <3>3
  <2> HIDE DEF f
  <2> QED  BY <1>1, <1>4, <2>1 DEF Bent
<1>6. m \in 0..m /\ m - 1 \in 0..m
  BY <1>1
<1>7. Slope(s) = f[m] - f[m - 1] /\ f[m] \in Int /\ f[m - 1] \in Int
  BY <1>4, <1>6 DEF Slope
<1>8. ValuesAt(s, P) = Image(f, P) /\ ValuesAt(s, R) = Image(f, R)
  <2>1. \A p \in R : f[p] = Scan!PayoffAt(s, p)
    BY <1>1, <1>4
  <2> HIDE DEF f
  <2> QED  BY <1>3, <2>1 DEF ValuesAt, Image
<1>9. \A p \in R : f[p] \in Int /\ f[p] = Scan!PayoffAt(s, p)
  BY <1>1, <1>4
<1> HIDE DEF m, R, P, K, f
<1>10. P \in SUBSET R /\ \A p \in R : f[p] \in Int
  BY <1>3, <1>9
<1>11. ASSUME Slope(s) <= 0
       PROVE  /\ Scan!Max(ValuesAt(s, P)) = Max(ValuesAt(s, R))
              /\ \E p \in R : Scan!PayoffAt(s, p) = Scan!Max(ValuesAt(s, P))
  <2>1. f[m] <= f[m - 1]
    BY <1>7, <1>11
  <2>2. PICK x \in {0} \union K : x \in 0..m /\ \A p \in 0..m : f[p] <= f[x]
    BY <1>5, <2>1, TopIsAtABend
  <2>3. x \in P /\ x \in R /\ \A p \in R : f[p] <= f[x]
    BY <1>1, <1>3, <2>2
  <2>4. Scan!Max(ValuesAt(s, P)) = f[x] /\ Max(ValuesAt(s, R)) = f[x]
    <3>1. x \in P /\ \A p \in R : f[p] <= f[x]
      BY <2>3
    <3>2. Scan!Max(Image(f, P)) = f[x] /\ Max(Image(f, R)) = f[x]
      <4>1. TopOf(f, R, P, x)
        BY <1>10, <3>1 DEF TopOf
      <4> QED  BY <4>1, TopOfPart
    <3> QED  BY <1>8, <3>2
  <2> QED  BY <1>9, <2>3, <2>4
<1>12. ASSUME Slope(s) >= 0
       PROVE  /\ Scan!Min(ValuesAt(s, P)) = Min(ValuesAt(s, R))
              /\ Scan!Min(ValuesAt(s, P)) \in Int
              /\ \A p \in R : Scan!PayoffAt(s, p) >= Scan!Min(ValuesAt(s, P))
  <2>1. f[m] >= f[m - 1]
    BY <1>7, <1>12
  <2>2. PICK x \in {0} \union K : x \in 0..m /\ \A p \in 0..m : f[p] >= f[x]
    BY <1>5, <2>1, BottomIsAtABend
  <2>3. x \in P /\ x \in R /\ \A p \in R : f[p] >= f[x]
    BY <1>1, <1>3, <2>2
  <2>4. Scan!Min(ValuesAt(s, P)) = f[x] /\ Min(ValuesAt(s, R)) = f[x]
    <3>1. x \in P /\ \A p \in R : f[p] >= f[x]
      BY <2>3
    <3>2. Scan!Min(Image(f, P)) = f[x] /\ Min(Image(f, R)) = f[x]
      <4>1. BottomOf(f, R, P, x)
        BY <1>10, <3>1 DEF BottomOf
      <4> QED  BY <4>1, BottomOfPart
    <3> QED  BY <1>8, <3>2
  <2> QED  BY <1>9, <2>3, <2>4
<1> QED  BY <1>7, <1>11, <1>12 DEF R, P

\* What a leg gains when a high price rises by one.
EndGain(l) == IF l.type = "put" THEN 0 ELSE Scan!Signed(l, Scan!Units(l))
EndGains(s, n) == [i \in 1..n |-> EndGain(s.legs[i])]

LEMMA LegEndGain ==
    ASSUME NEW l, IsLeg(l), NEW p \in Int, l.type = "stock" \/ l.strike < p
    PROVE  EndGain(l) \in Int /\ WorthAt(l, p) = WorthAt(l, p - 1) + EndGain(l)
<1>1. l.type \in {"stock", "call", "put"} /\ l.strike \in Int /\ l.long \in BOOLEAN /\ p - 1 \in Int
  BY DEF IsLeg
<1>2. PICK u \in Int : u = Scan!Units(l)
  <2>1. Scan!Units(l) \in Int
    BY LegNumbers
  <2> QED  BY <2>1
<1>3. PICK a \in Int, b \in Int : a = Scan!IntrinsicAt(l, p) /\ b = Scan!IntrinsicAt(l, p - 1)
  <2>1. \A q \in Int : Scan!IntrinsicAt(l, q) \in Int
    BY IntrinsicIs
  <2> QED  BY <1>1, <2>1
<1>4. a - b = IF l.type = "put" THEN 0 ELSE 1
  <2>1. CASE l.type = "stock"
    <3>1. \A q \in Int : Scan!IntrinsicAt(l, q) = q
      BY <2>1, IntrinsicIs
    <3> QED  BY <1>1, <1>3, <2>1, <3>1
  <2>2. PICK k \in Int : k = l.strike
    BY <1>1
  <2>3. CASE l.type = "call"
    <3>1. \A q \in Int : Scan!IntrinsicAt(l, q) = IF q >= k THEN q - k ELSE 0
      BY <2>2, <2>3, IntrinsicIs
    <3>2. k < p
      BY <2>2, <2>3
    <3>3. a = p - k /\ b = (p - 1) - k
      BY <1>1, <1>3, <3>1, <3>2
    <3> QED  BY <2>3, <3>3
  <2>4. CASE l.type = "put"
    <3>1. \A q \in Int : Scan!IntrinsicAt(l, q) = IF k >= q THEN k - q ELSE 0
      BY <2>2, <2>4, IntrinsicIs
    <3>2. k < p
      BY <2>2, <2>4
    <3>3. a = 0 /\ b = 0
      BY <1>1, <1>3, <3>1, <3>2
    <3> QED  BY <2>4, <3>3
  <2> QED  BY <1>1, <2>1, <2>3, <2>4
<1>5. PICK x \in Int, y \in Int : x = a * u /\ y = b * u
  BY <1>2, <1>3
<1>6. x = y + (IF l.type = "put" THEN 0 ELSE u)
  <2>1. x - y = (a - b) * u
    BY <1>2, <1>3, <1>5
  <2>2. 0 * u = 0 /\ 1 * u = u
    BY <1>2
  <2>3. CASE l.type = "put"
    BY <1>4, <1>5, <2>1, <2>2, <2>3
  <2>4. CASE l.type # "put"
    BY <1>4, <1>5, <2>1, <2>2, <2>4
  <2> QED  BY <2>3, <2>4
<1>7. WorthAt(l, p) = (IF l.long THEN x ELSE -x) /\ WorthAt(l, p - 1) = (IF l.long THEN y ELSE -y)
  BY <1>2, <1>3, <1>5 DEF WorthAt, Scan!Signed
<1>8. EndGain(l) = IF l.type = "put" THEN 0 ELSE IF l.long THEN u ELSE -u
  BY <1>2 DEF EndGain, Scan!Signed
<1>9. CASE l.type = "put"
  BY <1>1, <1>2, <1>5, <1>6, <1>7, <1>8, <1>9
<1>10. CASE l.type # "put"
  BY <1>1, <1>2, <1>5, <1>6, <1>7, <1>8, <1>10
<1> QED  BY <1>9, <1>10

LEMMA SlopeIs ==
    ASSUME NEW s, NEW n, Sound(s, n)
    PROVE  Numbers(EndGains(s, n), n) /\ Slope(s) = 100 * SumOf(EndGains(s, n))
<1>1. HasLegs(s, n) /\ n \in Nat /\ DOMAIN s.legs = 1..n /\ \A i \in 1..n : IsLeg(s.legs[i])
  BY DEF Sound, HasLegs
<1>2. PICK low, top : Spans(s, low, top)
  BY StrikesSpan
<1>3. PICK m \in Nat : m = End(s) /\ \A k \in Scan!Strikes(s) : k < m
  <2>1. End(s) = 2 * top + 1 /\ top \in Nat /\ \A k \in Scan!Strikes(s) : k \in Int /\ k <= top
    BY <1>2 DEF Spans, End
  <2> QED  BY <2>1
<1> DEFINE x == Worths(s, n, m - 1)
           y == EndGains(s, n)
           z == Worths(s, n, m)
<1>4. m \in Int /\ m - 1 \in Int
  BY <1>3
<1>5. Numbers(x, n) /\ Numbers(z, n)
  BY <1>1, <1>4, NetIs
<1>6. ASSUME NEW i \in 1..n PROVE y[i] \in Int /\ z[i] = x[i] + y[i]
  <2>1. IsLeg(s.legs[i]) /\ (s.legs[i].type = "stock" \/ s.legs[i].strike < m)
    BY <1>1, <1>3 DEF Scan!Strikes, Scan!IsOption
  <2>2. EndGain(s.legs[i]) \in Int /\ WorthAt(s.legs[i], m) = WorthAt(s.legs[i], m - 1) + EndGain(s.legs[i])
    BY <1>4, <2>1, LegEndGain
  <2> QED  BY <2>2 DEF Worths, EndGains
<1>7. DOMAIN y = 1..n /\ DOMAIN z = 1..n
  BY DEF Worths, EndGains
<1>8. /\ Scan!NetCost(s) \in Int
      /\ Scan!PayoffAt(s, m) = 100 * SumOf(z) - Scan!NetCost(s)
      /\ Scan!PayoffAt(s, m - 1) = 100 * SumOf(x) - Scan!NetCost(s)
  BY <1>1, <1>4, NetIs
<1> HIDE DEF x, y, z
<1>9. Numbers(y, n)
  BY <1>6, <1>7 DEF Numbers
<1>10. Combined(x, y, z, n, 1)
  <2>1. \A i \in 1..n : x[i] \in Int /\ y[i] \in Int
    BY <1>5, <1>9 DEF Numbers
  <2>2. \A i \in 1..n : z[i] = x[i] + 1 * y[i]
    BY <1>6, <2>1
  <2> QED  BY <1>5, <1>7, <1>9, <2>2 DEF Combined
<1>11. SumOf(z) = SumOf(x) + 1 * SumOf(y)
  BY <1>1, <1>10, SumOfCombined
<1>12. SumOf(x) \in Int /\ SumOf(y) \in Int /\ SumOf(z) \in Int
  BY <1>1, <1>5, <1>9, SumIsNumber
<1>13. Slope(s) = Scan!PayoffAt(s, m) - Scan!PayoffAt(s, m - 1)
  BY <1>3 DEF Slope
<1>14. Slope(s) = 100 * SumOf(y)
  BY <1>8, <1>11, <1>12, <1>13
<1> QED  BY <1>9, <1>14 DEF y

LEMMA SumOfFew ==
    /\ \A v : Numbers(v, 2) => SumOf(v) = v[1] + v[2]
    /\ \A v : Numbers(v, 3) => SumOf(v) = v[1] + v[2] + v[3]
    /\ \A v : Numbers(v, 4) => SumOf(v) = v[1] + v[2] + v[3] + v[4]
<1>1. ASSUME NEW n \in {2, 3, 4}, NEW v, Numbers(v, n)
      PROVE  SumOf(v) = IF n = 2 THEN v[1] + v[2]
                        ELSE IF n = 3 THEN v[1] + v[2] + v[3] ELSE v[1] + v[2] + v[3] + v[4]
  <2>1. PICK acc : Summed(v, n, acc)
    BY <1>1, SumIs DEF Numbers
  <2>2. /\ acc[0] = 0 /\ SumOf(v) = acc[n]
        /\ \A i \in 1..n : acc[i] = acc[i - 1] + v[i] /\ v[i] \in Int
    BY <1>1, <2>1 DEF Summed, SumsTo, Numbers
  <2>3. acc[1] = v[1] /\ acc[2] = v[1] + v[2] /\ v[1] \in Int /\ v[2] \in Int
    <3>1. 1 \in 1..n /\ 2 \in 1..n /\ 1 - 1 = 0 /\ 2 - 1 = 1
      OBVIOUS
    <3>2. acc[1] = acc[1 - 1] + v[1] /\ acc[2] = acc[2 - 1] + v[2] /\ v[1] \in Int /\ v[2] \in Int
      BY <2>2, <3>1
    <3> QED  BY <2>2, <3>1, <3>2
  <2>4. n >= 3 => acc[3] = v[1] + v[2] + v[3] /\ v[3] \in Int
    <3>1. n >= 3 => 3 \in 1..n /\ 3 - 1 = 2
      OBVIOUS
    <3>2. n >= 3 => acc[3] = acc[3 - 1] + v[3] /\ v[3] \in Int
      BY <2>2, <3>1
    <3> QED  BY <2>3, <3>1, <3>2
  <2>5. n >= 4 => acc[4] = v[1] + v[2] + v[3] + v[4] /\ v[4] \in Int
    <3>1. n >= 4 => 4 \in 1..n /\ 4 - 1 = 3 /\ n >= 3
      OBVIOUS
    <3>2. n >= 4 => acc[4] = acc[4 - 1] + v[4] /\ v[4] \in Int
      BY <2>2, <3>1
    <3> QED  BY <2>4, <3>1, <3>2
  <2> QED  BY <2>2, <2>3, <2>4, <2>5
<1> QED  BY <1>1

-----------------------------------------------------------------------------
(* The structures of the scanner.                                          *)

\* A leg of one contract.
One(l, type, long) ==
    /\ l.type = type /\ l.long = long /\ l.quantity = 1 /\ l.size \in Nat \ {0}
    /\ l.entry \in Int /\ l.strike \in Int
Option(l, type, long) == One(l, type, long) /\ l.strike > 0 /\ type \in {"call", "put"}

IsStraddle(s) ==
    /\ DOMAIN s.legs = 1..2
    /\ Option(s.legs[1], "call", TRUE) /\ Option(s.legs[2], "put", TRUE)
    /\ Scan!NetCost(s) > 0

IsCollar(s) ==
    /\ DOMAIN s.legs = 1..3
    /\ One(s.legs[1], "stock", TRUE) /\ Option(s.legs[2], "put", TRUE) /\ Option(s.legs[3], "call", FALSE)
    /\ s.legs[1].size = s.legs[3].size

IsSpread(s, type) ==
    /\ DOMAIN s.legs = 1..2
    /\ Option(s.legs[1], type, TRUE) /\ Option(s.legs[2], type, FALSE)
    /\ Scan!MaxProfit(s).known => Scan!MaxProfit(s).value > 0

IsCondor(s) ==
    /\ DOMAIN s.legs = 1..4 /\ s.kind = "iron_condor"
    /\ Option(s.legs[1], "put", TRUE) /\ Option(s.legs[2], "put", FALSE)
    /\ Option(s.legs[3], "call", FALSE) /\ Option(s.legs[4], "call", TRUE)
    /\ s.legs[1].strike < s.legs[2].strike /\ s.legs[3].strike < s.legs[4].strike

IsStructure(s) ==
    /\ s.rate \in Int /\ s.single = TRUE
    /\ IsStraddle(s) \/ IsCollar(s) \/ IsSpread(s, "call") \/ IsSpread(s, "put") \/ IsCondor(s)

Count(l, type, long) == IF l.type = type /\ (l.long <=> long) THEN l.quantity ELSE 0
LongCall(l) == Count(l, "call", TRUE)
ShortCall(l) == Count(l, "call", FALSE)
Share(l) == Count(l, "stock", TRUE)
LegCounts(s, n, type, long) == [i \in 1..n |-> Count(s.legs[i], type, long)]

LEMMA QuantityIs ==
    ASSUME NEW s, NEW n, HasLegs(s, n), NEW type, NEW long \in BOOLEAN
    PROVE  Numbers(LegCounts(s, n, type, long), n) /\ Scan!Quantity(s, type, long) = SumOf(LegCounts(s, n, type, long))
<1>1. n \in Nat /\ DOMAIN s.legs = 1..n /\ \A i \in 1..n : IsLeg(s.legs[i])
  BY DEF HasLegs
<1>2. \A i \in 1..n : Count(s.legs[i], type, long) \in Int
  BY <1>1 DEF IsLeg, Count
<1>3. Scan!Quantity(s, type, long) = SumOf([i \in DOMAIN s.legs |->
          IF s.legs[i].type = type /\ (s.legs[i].long <=> long) THEN s.legs[i].quantity ELSE 0])
  BY Zenon DEF Scan!Quantity, Scan!Total, SumOf, Scan!FoldLeft, FoldLeft, Scan!MapThenFoldSet, MapThenFoldSet, Scan!Max, Max
<1> QED  BY <1>1, <1>2, <1>3 DEF Numbers, LegCounts, Count

LEMMA LegOfOne ==
    ASSUME NEW l, NEW type \in {"stock", "call", "put"}, NEW long \in BOOLEAN, One(l, type, long)
    PROVE  /\ IsLeg(l)
           /\ EndGain(l) = IF type = "put" THEN 0 ELSE IF long THEN l.size ELSE -l.size
           /\ LongCall(l) = IF type = "call" /\ long THEN 1 ELSE 0
           /\ ShortCall(l) = IF type = "call" /\ ~long THEN 1 ELSE 0
           /\ Share(l) = IF type = "stock" /\ long THEN 1 ELSE 0
<1>1. /\ l.type = type /\ l.long = long /\ l.quantity = 1 /\ l.size \in Nat \ {0}
      /\ l.entry \in Int /\ l.strike \in Int
  BY DEF One
<1>2. IsLeg(l)
  BY <1>1 DEF IsLeg
<1>3. Scan!Units(l) = l.size
  BY <1>1 DEF Scan!Units
<1>4. EndGain(l) = IF type = "put" THEN 0 ELSE IF long THEN l.size ELSE -l.size
  BY <1>1, <1>3 DEF EndGain, Scan!Signed
<1>5. /\ LongCall(l) = IF type = "call" /\ long THEN 1 ELSE 0
      /\ ShortCall(l) = IF type = "call" /\ ~long THEN 1 ELSE 0
      /\ Share(l) = IF type = "stock" /\ long THEN 1 ELSE 0
  BY <1>1 DEF LongCall, ShortCall, Share, Count
<1> QED  BY <1>2, <1>4, <1>5

\* What the flags of a structure and its slope at the end say.
EndsIn(s, n, slope, up) ==
    /\ Sound(s, n) /\ Slope(s) = slope
    /\ Scan!UnlimitedUpside(s) <=> up
    /\ ~Scan!UnlimitedDownside(s)

LEMMA FewLegs ==
    ASSUME NEW s, NEW type, NEW long \in BOOLEAN
    PROVE  /\ HasLegs(s, 2) => Scan!Quantity(s, type, long)
                 = Count(s.legs[1], type, long) + Count(s.legs[2], type, long)
           /\ HasLegs(s, 3) => Scan!Quantity(s, type, long)
                 = Count(s.legs[1], type, long) + Count(s.legs[2], type, long) + Count(s.legs[3], type, long)
           /\ HasLegs(s, 4) => Scan!Quantity(s, type, long)
                 = Count(s.legs[1], type, long) + Count(s.legs[2], type, long)
                   + Count(s.legs[3], type, long) + Count(s.legs[4], type, long)
<1>1. ASSUME HasLegs(s, 2)
      PROVE  Scan!Quantity(s, type, long) = Count(s.legs[1], type, long) + Count(s.legs[2], type, long)
  <2> DEFINE v == LegCounts(s, 2, type, long)
  <2>1. Numbers(v, 2) /\ Scan!Quantity(s, type, long) = SumOf(v)
    BY <1>1, QuantityIs
  <2>2. v[1] = Count(s.legs[1], type, long) /\ v[2] = Count(s.legs[2], type, long)
    BY DEF LegCounts
  <2> HIDE DEF v
  <2>3. SumOf(v) = v[1] + v[2]
    BY <2>1, SumOfFew
  <2> QED  BY <2>1, <2>2, <2>3
<1>2. ASSUME HasLegs(s, 3)
      PROVE  Scan!Quantity(s, type, long) = Count(s.legs[1], type, long) + Count(s.legs[2], type, long) + Count(s.legs[3], type, long)
  <2> DEFINE v == LegCounts(s, 3, type, long)
  <2>1. Numbers(v, 3) /\ Scan!Quantity(s, type, long) = SumOf(v)
    BY <1>2, QuantityIs
  <2>2. /\ v[1] = Count(s.legs[1], type, long)
        /\ v[2] = Count(s.legs[2], type, long)
        /\ v[3] = Count(s.legs[3], type, long)
    BY DEF LegCounts
  <2> HIDE DEF v
  <2>3. SumOf(v) = v[1] + v[2] + v[3]
    BY <2>1, SumOfFew
  <2> QED  BY <2>1, <2>2, <2>3
<1>3. ASSUME HasLegs(s, 4)
      PROVE  Scan!Quantity(s, type, long) = Count(s.legs[1], type, long) + Count(s.legs[2], type, long)
                 + Count(s.legs[3], type, long) + Count(s.legs[4], type, long)
  <2> DEFINE v == LegCounts(s, 4, type, long)
  <2>1. Numbers(v, 4) /\ Scan!Quantity(s, type, long) = SumOf(v)
    BY <1>3, QuantityIs
  <2>2. /\ v[1] = Count(s.legs[1], type, long)
        /\ v[2] = Count(s.legs[2], type, long)
        /\ v[3] = Count(s.legs[3], type, long)
        /\ v[4] = Count(s.legs[4], type, long)
    BY DEF LegCounts
  <2> HIDE DEF v
  <2>3. SumOf(v) = v[1] + v[2] + v[3] + v[4]
    BY <2>1, SumOfFew
  <2> QED  BY <2>1, <2>2, <2>3
<1> QED  BY <1>1, <1>2, <1>3

LEMMA FewEndGains ==
    ASSUME NEW s
    PROVE  /\ Sound(s, 2) => Slope(s) = 100 * (EndGain(s.legs[1]) + EndGain(s.legs[2]))
           /\ Sound(s, 3) => Slope(s) = 100 * (EndGain(s.legs[1]) + EndGain(s.legs[2]) + EndGain(s.legs[3]))
           /\ Sound(s, 4) => Slope(s)
                 = 100 * (EndGain(s.legs[1]) + EndGain(s.legs[2]) + EndGain(s.legs[3]) + EndGain(s.legs[4]))
<1>1. ASSUME Sound(s, 2)
      PROVE  Slope(s) = 100 * (EndGain(s.legs[1]) + EndGain(s.legs[2]))
  <2> DEFINE v == EndGains(s, 2)
  <2>1. Numbers(v, 2) /\ Slope(s) = 100 * SumOf(v)
    BY <1>1, SlopeIs
  <2>2. v[1] = EndGain(s.legs[1]) /\ v[2] = EndGain(s.legs[2])
    BY DEF EndGains
  <2> HIDE DEF v
  <2>3. SumOf(v) = v[1] + v[2]
    BY <2>1, SumOfFew
  <2> QED  BY <2>1, <2>2, <2>3
<1>2. ASSUME Sound(s, 3)
      PROVE  Slope(s) = 100 * (EndGain(s.legs[1]) + EndGain(s.legs[2]) + EndGain(s.legs[3]))
  <2> DEFINE v == EndGains(s, 3)
  <2>1. Numbers(v, 3) /\ Slope(s) = 100 * SumOf(v)
    BY <1>2, SlopeIs
  <2>2. v[1] = EndGain(s.legs[1]) /\ v[2] = EndGain(s.legs[2]) /\ v[3] = EndGain(s.legs[3])
    BY DEF EndGains
  <2> HIDE DEF v
  <2>3. SumOf(v) = v[1] + v[2] + v[3]
    BY <2>1, SumOfFew
  <2> QED  BY <2>1, <2>2, <2>3
<1>3. ASSUME Sound(s, 4)
      PROVE  Slope(s) = 100 * (EndGain(s.legs[1]) + EndGain(s.legs[2]) + EndGain(s.legs[3]) + EndGain(s.legs[4]))
  <2> DEFINE v == EndGains(s, 4)
  <2>1. Numbers(v, 4) /\ Slope(s) = 100 * SumOf(v)
    BY <1>3, SlopeIs
  <2>2. v[1] = EndGain(s.legs[1]) /\ v[2] = EndGain(s.legs[2]) /\ v[3] = EndGain(s.legs[3]) /\ v[4] = EndGain(s.legs[4])
    BY DEF EndGains
  <2> HIDE DEF v
  <2>3. SumOf(v) = v[1] + v[2] + v[3] + v[4]
    BY <2>1, SumOfFew
  <2> QED  BY <2>1, <2>2, <2>3
<1> QED  BY <1>1, <1>2, <1>3

LEMMA StraddleEnds ==
    ASSUME NEW s, s.rate \in Int, IsStraddle(s)
    PROVE  EndsIn(s, 2, 100 * s.legs[1].size, TRUE) /\ s.legs[1].size \in Nat \ {0}
<1>1. /\ DOMAIN s.legs = 1..2
      /\ One(s.legs[1], "call", TRUE)
      /\ One(s.legs[2], "put", TRUE)
      /\ s.legs[1].strike > 0
      /\ s.legs[2].strike > 0
  BY DEF IsStraddle, Option
<1>2. \A i \in 1..2 : IsLeg(s.legs[i])
  <2>1. IsLeg(s.legs[1]) /\ IsLeg(s.legs[2])
    BY <1>1, LegOfOne
  <2> QED  BY <2>1
<1>3. HasLegs(s, 2) /\ Sound(s, 2)
  <2>1. 1 \in 1..2 /\ Scan!IsOption(s.legs[1])
    BY <1>1 DEF One, Scan!IsOption
  <2>2. \A i \in 1..2 : Scan!IsOption(s.legs[i]) => s.legs[i].strike > 0
    BY <1>1 DEF One, Scan!IsOption
  <2> QED  BY <1>1, <1>2, <2>1, <2>2 DEF HasLegs, Sound
<1>4. /\ EndGain(s.legs[1]) = s.legs[1].size /\ s.legs[1].size \in Nat \ {0}
      /\ EndGain(s.legs[2]) = 0
  BY <1>1, LegOfOne DEF One
<1>5. /\ LongCall(s.legs[1]) = 1
      /\ LongCall(s.legs[2]) = 0
  BY <1>1, LegOfOne
<1>6. /\ ShortCall(s.legs[1]) = 0
      /\ ShortCall(s.legs[2]) = 0
  BY <1>1, LegOfOne
<1>7. /\ Share(s.legs[1]) = 0
      /\ Share(s.legs[2]) = 0
  BY <1>1, LegOfOne
<1>8. Slope(s) = 100 * s.legs[1].size
  BY <1>3, <1>4, FewEndGains
<1>9. Scan!LongCalls(s) = 1
  <2>1. Scan!LongCalls(s) = LongCall(s.legs[1]) + LongCall(s.legs[2])
    BY <1>3, FewLegs, Zenon DEF Scan!LongCalls, LongCall
  <2> QED  BY <1>5, <2>1
<1>10. Scan!ShortCalls(s) = 0
  <2>1. Scan!ShortCalls(s) = ShortCall(s.legs[1]) + ShortCall(s.legs[2])
    BY <1>3, FewLegs, Zenon DEF Scan!ShortCalls, ShortCall
  <2> QED  BY <1>6, <2>1
<1>11. Scan!LongStock(s) = 0
  <2>1. Scan!LongStock(s) = Share(s.legs[1]) + Share(s.legs[2])
    BY <1>3, FewLegs, Zenon DEF Scan!LongStock, Share
  <2> QED  BY <1>7, <2>1
<1> QED  BY <1>3, <1>4, <1>8, <1>9, <1>10, <1>11 DEF EndsIn, Scan!UnlimitedUpside, Scan!UnlimitedDownside

LEMMA CollarEnds ==
    ASSUME NEW s, s.rate \in Int, IsCollar(s)
    PROVE  EndsIn(s, 3, 0, FALSE)
<1>1. /\ DOMAIN s.legs = 1..3
      /\ One(s.legs[1], "stock", TRUE)
      /\ One(s.legs[2], "put", TRUE)
      /\ One(s.legs[3], "call", FALSE)
      /\ s.legs[2].strike > 0
      /\ s.legs[3].strike > 0
  BY DEF IsCollar, Option
<1>2. \A i \in 1..3 : IsLeg(s.legs[i])
  <2>1. IsLeg(s.legs[1]) /\ IsLeg(s.legs[2]) /\ IsLeg(s.legs[3])
    BY <1>1, LegOfOne
  <2> QED  BY <2>1
<1>3. HasLegs(s, 3) /\ Sound(s, 3)
  <2>1. 2 \in 1..3 /\ Scan!IsOption(s.legs[2])
    BY <1>1 DEF One, Scan!IsOption
  <2>2. \A i \in 1..3 : Scan!IsOption(s.legs[i]) => s.legs[i].strike > 0
    BY <1>1 DEF One, Scan!IsOption
  <2> QED  BY <1>1, <1>2, <2>1, <2>2 DEF HasLegs, Sound
<1>4. /\ EndGain(s.legs[1]) = s.legs[1].size /\ s.legs[1].size \in Int
      /\ EndGain(s.legs[2]) = 0
      /\ EndGain(s.legs[3]) = -s.legs[1].size
  <2>1. s.legs[3].size = s.legs[1].size
    BY DEF IsCollar
  <2>2. /\ EndGain(s.legs[1]) = s.legs[1].size
        /\ EndGain(s.legs[2]) = 0
        /\ EndGain(s.legs[3]) = -s.legs[3].size
    BY <1>1, LegOfOne
  <2>3. s.legs[1].size \in Int
    BY <1>1 DEF One
  <2> QED  BY <2>1, <2>2, <2>3
<1>5. /\ LongCall(s.legs[1]) = 0
      /\ LongCall(s.legs[2]) = 0
      /\ LongCall(s.legs[3]) = 0
  BY <1>1, LegOfOne
<1>6. /\ ShortCall(s.legs[1]) = 0
      /\ ShortCall(s.legs[2]) = 0
      /\ ShortCall(s.legs[3]) = 1
  BY <1>1, LegOfOne
<1>7. /\ Share(s.legs[1]) = 1
      /\ Share(s.legs[2]) = 0
      /\ Share(s.legs[3]) = 0
  BY <1>1, LegOfOne
<1>8. Slope(s) = 0
  BY <1>3, <1>4, FewEndGains
<1>9. Scan!LongCalls(s) = 0
  <2>1. Scan!LongCalls(s) = LongCall(s.legs[1]) + LongCall(s.legs[2]) + LongCall(s.legs[3])
    BY <1>3, FewLegs, Zenon DEF Scan!LongCalls, LongCall
  <2> QED  BY <1>5, <2>1
<1>10. Scan!ShortCalls(s) = 1
  <2>1. Scan!ShortCalls(s) = ShortCall(s.legs[1]) + ShortCall(s.legs[2]) + ShortCall(s.legs[3])
    BY <1>3, FewLegs, Zenon DEF Scan!ShortCalls, ShortCall
  <2> QED  BY <1>6, <2>1
<1>11. Scan!LongStock(s) = 1
  <2>1. Scan!LongStock(s) = Share(s.legs[1]) + Share(s.legs[2]) + Share(s.legs[3])
    BY <1>3, FewLegs, Zenon DEF Scan!LongStock, Share
  <2> QED  BY <1>7, <2>1
<1> QED  BY <1>3, <1>8, <1>9, <1>10, <1>11 DEF EndsIn, Scan!UnlimitedUpside, Scan!UnlimitedDownside

LEMMA SpreadEnds ==
    ASSUME NEW s, NEW type \in {"call", "put"}, s.rate \in Int, IsSpread(s, type), SameSize(s, "call")
    PROVE  EndsIn(s, 2, 0, FALSE)
<1>1. /\ DOMAIN s.legs = 1..2
      /\ One(s.legs[1], type, TRUE)
      /\ One(s.legs[2], type, FALSE)
      /\ s.legs[1].strike > 0
      /\ s.legs[2].strike > 0
  BY DEF IsSpread, Option
<1>2. \A i \in 1..2 : IsLeg(s.legs[i])
  <2>1. IsLeg(s.legs[1]) /\ IsLeg(s.legs[2])
    BY <1>1, LegOfOne
  <2> QED  BY <2>1
<1>3. HasLegs(s, 2) /\ Sound(s, 2)
  <2>1. 1 \in 1..2 /\ Scan!IsOption(s.legs[1])
    BY <1>1 DEF One, Scan!IsOption
  <2>2. \A i \in 1..2 : Scan!IsOption(s.legs[i]) => s.legs[i].strike > 0
    BY <1>1 DEF One, Scan!IsOption
  <2> QED  BY <1>1, <1>2, <2>1, <2>2 DEF HasLegs, Sound
<1>4. /\ EndGain(s.legs[1]) = IF type = "put" THEN 0 ELSE s.legs[1].size
      /\ EndGain(s.legs[2]) = IF type = "put" THEN 0 ELSE -s.legs[1].size
      /\ s.legs[1].size \in Int
  <2>1. type = "call" => s.legs[1].size = s.legs[2].size
    BY <1>1 DEF SameSize, One
  <2>2. /\ EndGain(s.legs[1]) = IF type = "put" THEN 0 ELSE s.legs[1].size
        /\ EndGain(s.legs[2]) = IF type = "put" THEN 0 ELSE -s.legs[2].size
    BY <1>1, LegOfOne
  <2>3. s.legs[1].size \in Int
    BY <1>1 DEF One
  <2> QED  BY <2>1, <2>2, <2>3
<1>5. /\ LongCall(s.legs[1]) = IF type = "call" THEN 1 ELSE 0
      /\ LongCall(s.legs[2]) = 0
  BY <1>1, LegOfOne
<1>6. /\ ShortCall(s.legs[1]) = 0
      /\ ShortCall(s.legs[2]) = IF type = "call" THEN 1 ELSE 0
  BY <1>1, LegOfOne
<1>7. /\ Share(s.legs[1]) = 0
      /\ Share(s.legs[2]) = 0
  BY <1>1, LegOfOne
<1>8. Slope(s) = 0
  BY <1>3, <1>4, FewEndGains
<1>9. Scan!LongCalls(s) = IF type = "call" THEN 1 ELSE 0
  <2>1. Scan!LongCalls(s) = LongCall(s.legs[1]) + LongCall(s.legs[2])
    BY <1>3, FewLegs, Zenon DEF Scan!LongCalls, LongCall
  <2> QED  BY <1>5, <2>1
<1>10. Scan!ShortCalls(s) = IF type = "call" THEN 1 ELSE 0
  <2>1. Scan!ShortCalls(s) = ShortCall(s.legs[1]) + ShortCall(s.legs[2])
    BY <1>3, FewLegs, Zenon DEF Scan!ShortCalls, ShortCall
  <2> QED  BY <1>6, <2>1
<1>11. Scan!LongStock(s) = 0
  <2>1. Scan!LongStock(s) = Share(s.legs[1]) + Share(s.legs[2])
    BY <1>3, FewLegs, Zenon DEF Scan!LongStock, Share
  <2> QED  BY <1>7, <2>1
<1> QED  BY <1>3, <1>8, <1>9, <1>10, <1>11 DEF EndsIn, Scan!UnlimitedUpside, Scan!UnlimitedDownside

LEMMA CondorEnds ==
    ASSUME NEW s, s.rate \in Int, IsCondor(s), SameSize(s, "call")
    PROVE  EndsIn(s, 4, 0, FALSE)
<1>1. /\ DOMAIN s.legs = 1..4
      /\ One(s.legs[1], "put", TRUE)
      /\ One(s.legs[2], "put", FALSE)
      /\ One(s.legs[3], "call", FALSE)
      /\ One(s.legs[4], "call", TRUE)
      /\ s.legs[1].strike > 0
      /\ s.legs[2].strike > 0
      /\ s.legs[3].strike > 0
      /\ s.legs[4].strike > 0
  BY DEF IsCondor, Option
<1>2. \A i \in 1..4 : IsLeg(s.legs[i])
  <2>1. IsLeg(s.legs[1]) /\ IsLeg(s.legs[2]) /\ IsLeg(s.legs[3]) /\ IsLeg(s.legs[4])
    BY <1>1, LegOfOne
  <2> QED  BY <2>1
<1>3. HasLegs(s, 4) /\ Sound(s, 4)
  <2>1. 1 \in 1..4 /\ Scan!IsOption(s.legs[1])
    BY <1>1 DEF One, Scan!IsOption
  <2>2. \A i \in 1..4 : Scan!IsOption(s.legs[i]) => s.legs[i].strike > 0
    BY <1>1 DEF One, Scan!IsOption
  <2> QED  BY <1>1, <1>2, <2>1, <2>2 DEF HasLegs, Sound
<1>4. /\ EndGain(s.legs[1]) = 0
      /\ EndGain(s.legs[2]) = 0
      /\ EndGain(s.legs[3]) = -s.legs[4].size
      /\ EndGain(s.legs[4]) = s.legs[4].size /\ s.legs[4].size \in Int
  <2>1. s.legs[3].size = s.legs[4].size
    BY <1>1 DEF SameSize, One
  <2>2. /\ EndGain(s.legs[1]) = 0
        /\ EndGain(s.legs[2]) = 0
        /\ EndGain(s.legs[3]) = -s.legs[3].size
        /\ EndGain(s.legs[4]) = s.legs[4].size
    BY <1>1, LegOfOne
  <2>3. s.legs[4].size \in Int
    BY <1>1 DEF One
  <2> QED  BY <2>1, <2>2, <2>3
<1>5. /\ LongCall(s.legs[1]) = 0
      /\ LongCall(s.legs[2]) = 0
      /\ LongCall(s.legs[3]) = 0
      /\ LongCall(s.legs[4]) = 1
  BY <1>1, LegOfOne
<1>6. /\ ShortCall(s.legs[1]) = 0
      /\ ShortCall(s.legs[2]) = 0
      /\ ShortCall(s.legs[3]) = 1
      /\ ShortCall(s.legs[4]) = 0
  BY <1>1, LegOfOne
<1>7. /\ Share(s.legs[1]) = 0
      /\ Share(s.legs[2]) = 0
      /\ Share(s.legs[3]) = 0
      /\ Share(s.legs[4]) = 0
  BY <1>1, LegOfOne
<1>8. Slope(s) = 0
  BY <1>3, <1>4, FewEndGains
<1>9. Scan!LongCalls(s) = 1
  <2>1. Scan!LongCalls(s) = LongCall(s.legs[1]) + LongCall(s.legs[2])
         + LongCall(s.legs[3]) + LongCall(s.legs[4])
    BY <1>3, FewLegs, Zenon DEF Scan!LongCalls, LongCall
  <2> QED  BY <1>5, <2>1
<1>10. Scan!ShortCalls(s) = 1
  <2>1. Scan!ShortCalls(s) = ShortCall(s.legs[1]) + ShortCall(s.legs[2])
         + ShortCall(s.legs[3]) + ShortCall(s.legs[4])
    BY <1>3, FewLegs, Zenon DEF Scan!ShortCalls, ShortCall
  <2> QED  BY <1>6, <2>1
<1>11. Scan!LongStock(s) = 0
  <2>1. Scan!LongStock(s) = Share(s.legs[1]) + Share(s.legs[2])
         + Share(s.legs[3]) + Share(s.legs[4])
    BY <1>3, FewLegs, Zenon DEF Scan!LongStock, Share
  <2> QED  BY <1>7, <2>1
<1> QED  BY <1>3, <1>8, <1>9, <1>10, <1>11 DEF EndsIn, Scan!UnlimitedUpside, Scan!UnlimitedDownside

LEMMA FlagsMean ==
    ASSUME NEW s, IsStructure(s), SameSize(s, "call")
    PROVE  /\ \E n : Sound(s, n)
           /\ Slope(s) \in Int /\ Slope(s) >= 0 /\ s.single
           /\ Scan!UnlimitedUpside(s) <=> Slope(s) > 0
           /\ ~Scan!UnlimitedDownside(s)
<1>1. s.rate \in Int /\ s.single
  BY DEF IsStructure
<1>2. CASE IsStraddle(s)
  <2>1. EndsIn(s, 2, 100 * s.legs[1].size, TRUE) /\ s.legs[1].size \in Nat \ {0}
    BY <1>1, <1>2, StraddleEnds
  <2>2. Slope(s) \in Int /\ Slope(s) > 0
    BY <2>1 DEF EndsIn
  <2> QED  BY <1>1, <2>1, <2>2 DEF EndsIn
<1>3. CASE IsCollar(s)
  BY <1>1, <1>3, CollarEnds DEF EndsIn
<1>4. CASE IsCondor(s)
  BY <1>1, <1>4, CondorEnds DEF EndsIn
<1>5. ASSUME NEW type \in {"call", "put"}, IsSpread(s, type)
      PROVE  \E n : EndsIn(s, n, 0, FALSE)
  BY <1>1, <1>5, SpreadEnds
<1>6. CASE IsSpread(s, "call") \/ IsSpread(s, "put")
  BY <1>1, <1>5, <1>6 DEF EndsIn
<1> QED  BY <1>2, <1>3, <1>4, <1>6 DEF IsStructure

LEMMA ReportsAre ==
    ASSUME NEW s, IsStructure(s), SameSize(s, "call")
    PROVE  /\ Scan!MaxProfit(s).known <=> Slope(s) <= 0
           /\ Scan!MaxLoss(s).known
           /\ Scan!MaxProfit(s).known => Scan!MaxProfit(s).value = Scan!Max(ValuesAt(s, Scan!Probes(s)))
           /\ Scan!MaxLoss(s).value = Scan!Min(ValuesAt(s, Scan!Probes(s)))
<1>1. /\ Slope(s) \in Int /\ s.single /\ ~Scan!UnlimitedDownside(s)
      /\ Scan!UnlimitedUpside(s) <=> Slope(s) > 0
  BY FlagsMean
<1>2. Scan!MaxLoss(s) = [known |-> TRUE, value |-> Scan!Min(ValuesAt(s, Scan!Probes(s)))]
  BY <1>1 DEF Scan!MaxLoss, Scan!Known, ValuesAt
<1>3. CASE Slope(s) > 0
  <2>1. Scan!MaxProfit(s) = [known |-> FALSE]
    BY <1>1, <1>3 DEF Scan!MaxProfit, Scan!Unknown
  <2> QED  BY <1>1, <1>2, <1>3, <2>1
<1>4. CASE Slope(s) <= 0
  <2>1. Scan!MaxProfit(s) = [known |-> TRUE, value |-> Scan!Max(ValuesAt(s, Scan!Probes(s)))]
    BY <1>1, <1>4 DEF Scan!MaxProfit, Scan!Known, ValuesAt
  <2> QED  BY <1>1, <1>2, <1>4, <2>1
<1> QED  BY <1>1, <1>3, <1>4

LEMMA StructureExtremes ==
    ASSUME NEW s, IsStructure(s), SameSize(s, "call")
    PROVE  ReportsExtremes(s)
<1>1. PICK n : Sound(s, n)
  BY FlagsMean
<1>2. Max(PriceRange(s)) = End(s)
  BY <1>1, EndOfRange
<1>3. Slope(s) \in Int /\ Slope(s) >= 0
  BY FlagsMean
<1>4. /\ Slope(s) <= 0 => Scan!Max(ValuesAt(s, Scan!Probes(s))) = Max(ValuesAt(s, PriceRange(s)))
      /\ Slope(s) >= 0 => Scan!Min(ValuesAt(s, Scan!Probes(s))) = Min(ValuesAt(s, PriceRange(s)))
  BY <1>1, ExtremesOfRange
<1>5. /\ Scan!MaxProfit(s).known <=> Slope(s) <= 0
      /\ Scan!MaxLoss(s).known <=> Slope(s) >= 0
      /\ Scan!MaxProfit(s).known => Scan!MaxProfit(s).value = Max(ValuesAt(s, PriceRange(s)))
      /\ Scan!MaxLoss(s).known => Scan!MaxLoss(s).value = Min(ValuesAt(s, PriceRange(s)))
  BY <1>3, <1>4, ReportsAre
<1> QED  BY <1>2, <1>5, Zenon DEF ReportsExtremes, Slope, ValuesAt

-----------------------------------------------------------------------------
(* What a structure can lose.                                              *)

Bought(l, p) == IF l.type = "stock" THEN p
                ELSE IF l.type = "call" THEN IF p >= l.strike THEN p - l.strike ELSE 0
                ELSE IF l.strike >= p THEN l.strike - p ELSE 0

\* What a leg of one contract is worth to its buyer.
Gives(l, p) == l.size * Bought(l, p)

LEMMA OneWorth ==
    ASSUME NEW l, NEW type \in {"stock", "call", "put"}, NEW long \in BOOLEAN, One(l, type, long), NEW p \in Nat
    PROVE  /\ Bought(l, p) \in Nat /\ l.size \in Nat /\ Gives(l, p) \in Nat
           /\ WorthAt(l, p) = IF long THEN Gives(l, p) ELSE -Gives(l, p)
<1>1. IsLeg(l) /\ l.long = long /\ l.type = type /\ l.strike \in Int /\ l.size \in Nat
  BY LegOfOne DEF One
<1>2. Scan!Units(l) = l.size
  BY <1>1 DEF One, Scan!Units
<1>3. p \in Int
  OBVIOUS
<1>4. Scan!IntrinsicAt(l, p) = Bought(l, p)
  BY <1>1, <1>3, IntrinsicIs DEF Bought
<1>5. PICK a \in Nat : a = Bought(l, p)
  BY <1>1 DEF Bought
<1>6. PICK k \in Nat : k = l.size
  BY <1>1
<1>7. k * a \in Nat /\ a * k = k * a
  BY SMT
<1>8. Gives(l, p) = k * a /\ Scan!IntrinsicAt(l, p) * Scan!Units(l) = k * a
  BY <1>2, <1>4, <1>5, <1>6, <1>7 DEF Gives
<1> QED  BY <1>1, <1>5, <1>7, <1>8 DEF WorthAt, Scan!Signed

\* More of the same number of units is worth more.
LEMMA MoreIsWorthMore ==
    ASSUME NEW k, NEW l, NEW p, k.size = l.size, k.size \in Nat, Bought(k, p) \in Nat, Bought(l, p) \in Nat,
           Bought(k, p) <= Bought(l, p)
    PROVE  Gives(k, p) <= Gives(l, p)
<1>1. PICK n \in Nat, a \in Nat, b \in Nat : n = k.size /\ a = Bought(k, p) /\ b = Bought(l, p) /\ a <= b
  OBVIOUS
<1>2. n * a <= n * b
  BY <1>1, SMT
<1> QED  BY <1>1, <1>2 DEF Gives

LEMMA FewWorths ==
    ASSUME NEW s, NEW p \in Nat
    PROVE  /\ HasLegs(s, 2) => Scan!PayoffAt(s, p)
                 = 100 * (WorthAt(s.legs[1], p) + WorthAt(s.legs[2], p)) - Scan!NetCost(s)
           /\ HasLegs(s, 3) => Scan!PayoffAt(s, p)
                 = 100 * (WorthAt(s.legs[1], p) + WorthAt(s.legs[2], p) + WorthAt(s.legs[3], p)) - Scan!NetCost(s)
           /\ HasLegs(s, 4) => Scan!PayoffAt(s, p)
                 = 100 * (WorthAt(s.legs[1], p) + WorthAt(s.legs[2], p) + WorthAt(s.legs[3], p) + WorthAt(s.legs[4], p))
                   - Scan!NetCost(s)
<1> p \in Int
  OBVIOUS
<1>1. ASSUME HasLegs(s, 2)
      PROVE  Scan!PayoffAt(s, p) = 100 * (WorthAt(s.legs[1], p) + WorthAt(s.legs[2], p)) - Scan!NetCost(s)
  <2> DEFINE v == Worths(s, 2, p)
  <2>1. Numbers(v, 2) /\ Scan!PayoffAt(s, p) = 100 * SumOf(v) - Scan!NetCost(s)
    BY <1>1, NetIs
  <2>2. v[1] = WorthAt(s.legs[1], p) /\ v[2] = WorthAt(s.legs[2], p)
    BY DEF Worths
  <2> HIDE DEF v
  <2>3. SumOf(v) = v[1] + v[2]
    BY <2>1, SumOfFew
  <2> QED  BY <2>1, <2>2, <2>3
<1>2. ASSUME HasLegs(s, 3)
      PROVE  Scan!PayoffAt(s, p)
                = 100 * (WorthAt(s.legs[1], p) + WorthAt(s.legs[2], p) + WorthAt(s.legs[3], p)) - Scan!NetCost(s)
  <2> DEFINE v == Worths(s, 3, p)
  <2>1. Numbers(v, 3) /\ Scan!PayoffAt(s, p) = 100 * SumOf(v) - Scan!NetCost(s)
    BY <1>2, NetIs
  <2>2. v[1] = WorthAt(s.legs[1], p) /\ v[2] = WorthAt(s.legs[2], p) /\ v[3] = WorthAt(s.legs[3], p)
    BY DEF Worths
  <2> HIDE DEF v
  <2>3. SumOf(v) = v[1] + v[2] + v[3]
    BY <2>1, SumOfFew
  <2> QED  BY <2>1, <2>2, <2>3
<1>3. ASSUME HasLegs(s, 4)
      PROVE  Scan!PayoffAt(s, p)
                = 100 * (WorthAt(s.legs[1], p) + WorthAt(s.legs[2], p) + WorthAt(s.legs[3], p) + WorthAt(s.legs[4], p))
                  - Scan!NetCost(s)
  <2> DEFINE v == Worths(s, 4, p)
  <2>1. Numbers(v, 4) /\ Scan!PayoffAt(s, p) = 100 * SumOf(v) - Scan!NetCost(s)
    BY <1>3, NetIs
  <2>2. /\ v[1] = WorthAt(s.legs[1], p) /\ v[2] = WorthAt(s.legs[2], p)
        /\ v[3] = WorthAt(s.legs[3], p) /\ v[4] = WorthAt(s.legs[4], p)
    BY DEF Worths
  <2> HIDE DEF v
  <2>3. SumOf(v) = v[1] + v[2] + v[3] + v[4]
    BY <2>1, SumOfFew
  <2> QED  BY <2>1, <2>2, <2>3
<1> QED  BY <1>1, <1>2, <1>3

\* Beside what they cost, the legs bring something at every price, or at none.
Brings(s) == \A p \in Nat : Scan!PayoffAt(s, p) >= -Scan!NetCost(s)
Owes(s) == \A p \in Nat : Scan!PayoffAt(s, p) <= -Scan!NetCost(s)

LEMMA StraddleBrings ==
    ASSUME NEW s, s.rate \in Int, IsStraddle(s)
    PROVE  Brings(s)
<1>1. HasLegs(s, 2) /\ One(s.legs[1], "call", TRUE) /\ One(s.legs[2], "put", TRUE)
  BY StraddleEnds DEF EndsIn, Sound, IsStraddle, Option
<1>2. ASSUME NEW p \in Nat PROVE Scan!PayoffAt(s, p) >= -Scan!NetCost(s)
  <2>1. PICK a \in Nat, b \in Nat : WorthAt(s.legs[1], p) = a /\ WorthAt(s.legs[2], p) = b
    <3>1. /\ Gives(s.legs[1], p) \in Nat /\ WorthAt(s.legs[1], p) = Gives(s.legs[1], p)
          /\ Gives(s.legs[2], p) \in Nat /\ WorthAt(s.legs[2], p) = Gives(s.legs[2], p)
      BY <1>1, OneWorth
    <3> QED  BY <3>1
  <2>2. Scan!PayoffAt(s, p) = 100 * (a + b) - Scan!NetCost(s)
    BY <1>1, <2>1, FewWorths
  <2>3. Scan!NetCost(s) \in Int
    BY <1>1, NetIs
  <2> QED  BY <2>2, <2>3
<1> QED  BY <1>2 DEF Brings

LEMMA CollarBrings ==
    ASSUME NEW s, s.rate \in Int, IsCollar(s)
    PROVE  Brings(s)
<1>1. /\ HasLegs(s, 3)
      /\ One(s.legs[1], "stock", TRUE) /\ One(s.legs[2], "put", TRUE) /\ One(s.legs[3], "call", FALSE)
      /\ s.legs[3].strike > 0 /\ s.legs[3].strike \in Int /\ s.legs[1].size = s.legs[3].size
  BY CollarEnds DEF EndsIn, Sound, IsCollar, Option, One
<1>2. ASSUME NEW p \in Nat PROVE Scan!PayoffAt(s, p) >= -Scan!NetCost(s)
  <2>1. PICK b \in Nat : WorthAt(s.legs[2], p) = b
    <3>1. One(s.legs[2], "put", TRUE)
      BY <1>1
    <3>2. Gives(s.legs[2], p) \in Nat /\ WorthAt(s.legs[2], p) = Gives(s.legs[2], p)
      BY <3>1, OneWorth
    <3> QED  BY <3>2
  <2>2. /\ Bought(s.legs[1], p) = p /\ s.legs[1].size \in Nat
        /\ Gives(s.legs[1], p) \in Nat /\ WorthAt(s.legs[1], p) = Gives(s.legs[1], p)
    <3>1. s.legs[1].type = "stock" /\ One(s.legs[1], "stock", TRUE)
      BY <1>1 DEF One
    <3>2. Bought(s.legs[1], p) = p
      BY <3>1 DEF Bought
    <3> QED  BY <3>1, <3>2, OneWorth
  <2>3. /\ Bought(s.legs[3], p) \in Nat /\ Bought(s.legs[3], p) <= p
        /\ Gives(s.legs[3], p) \in Nat /\ WorthAt(s.legs[3], p) = -Gives(s.legs[3], p)
    <3>1. Bought(s.legs[3], p) = IF p >= s.legs[3].strike THEN p - s.legs[3].strike ELSE 0
      BY <1>1 DEF Bought, One
    <3>2. Bought(s.legs[3], p) \in Nat /\ Bought(s.legs[3], p) <= p
      BY <1>1, <3>1
    <3>3. One(s.legs[3], "call", FALSE)
      BY <1>1
    <3>4. Gives(s.legs[3], p) \in Nat /\ WorthAt(s.legs[3], p) = -Gives(s.legs[3], p)
      BY <3>3, OneWorth
    <3> QED  BY <3>2, <3>4
  <2>4. PICK a \in Nat, c \in Nat : c <= a /\ WorthAt(s.legs[1], p) = a /\ WorthAt(s.legs[3], p) = -c
    <3>1. Gives(s.legs[3], p) <= Gives(s.legs[1], p)
      BY <1>1, <2>2, <2>3, MoreIsWorthMore
    <3> QED  BY <2>2, <2>3, <3>1
  <2>5. Scan!PayoffAt(s, p) = 100 * (a + b + (-c)) - Scan!NetCost(s)
    BY <1>1, <2>1, <2>4, FewWorths
  <2>6. Scan!NetCost(s) \in Int
    BY <1>1, NetIs
  <2> QED  BY <2>4, <2>5, <2>6
<1> QED  BY <1>2 DEF Brings

\* Of two options of a type, the one with the lower strike is worth more, or less.
\* Both are of one size.
LEMMA BetterOption ==
    ASSUME NEW k, NEW l, NEW type \in {"call", "put"}, NEW long \in BOOLEAN, NEW short \in BOOLEAN,
           One(k, type, long), One(l, type, short), k.strike <= l.strike,
           k.size = l.size, NEW p \in Nat
    PROVE  IF type = "call" THEN Gives(l, p) <= Gives(k, p) ELSE Gives(k, p) <= Gives(l, p)
<1>1. k.strike \in Int /\ l.strike \in Int /\ k.type = type /\ l.type = type
  BY DEF One
<1>2. PICK a \in Int, b \in Int : a = k.strike /\ b = l.strike /\ a <= b
  BY <1>1
<1>3. /\ Bought(k, p) \in Nat /\ k.size \in Nat /\ Bought(l, p) \in Nat /\ l.size \in Nat
  BY OneWorth
<1>4. CASE type = "call"
  <2>1. /\ Bought(k, p) = IF p >= a THEN p - a ELSE 0
        /\ Bought(l, p) = IF p >= b THEN p - b ELSE 0
    BY <1>1, <1>2, <1>4 DEF Bought
  <2>2. Bought(l, p) <= Bought(k, p)
    BY <1>2, <2>1
  <2> QED  BY <1>3, <1>4, <2>2, MoreIsWorthMore
<1>5. CASE type = "put"
  <2>1. /\ Bought(k, p) = IF a >= p THEN a - p ELSE 0
        /\ Bought(l, p) = IF b >= p THEN b - p ELSE 0
    BY <1>1, <1>2, <1>5 DEF Bought
  <2>2. Bought(k, p) <= Bought(l, p)
    BY <1>2, <2>1
  <2> QED  BY <1>3, <1>5, <2>2, MoreIsWorthMore
<1> QED  BY <1>4, <1>5

LEMMA SpreadBringsOrOwes ==
    ASSUME NEW s, NEW type \in {"call", "put"}, s.rate \in Int, IsSpread(s, type), SameSize(s, "call"), SameSize(s, "put")
    PROVE  Brings(s) \/ Owes(s)
<1>1. HasLegs(s, 2) /\ One(s.legs[1], type, TRUE) /\ One(s.legs[2], type, FALSE)
  BY SpreadEnds DEF EndsIn, Sound, IsSpread, Option
<1>2. s.legs[1].strike \in Int /\ s.legs[2].strike \in Int /\ s.legs[1].size = s.legs[2].size
  <2>1. DOMAIN s.legs = 1..2 /\ SameSize(s, type)
    BY <1>1 DEF HasLegs
  <2> QED  BY <1>1, <2>1 DEF One, SameSize
<1> DEFINE a(p) == Gives(s.legs[1], p)
           b(p) == Gives(s.legs[2], p)
<1>3. ASSUME NEW p \in Nat
      PROVE  /\ a(p) \in Nat /\ b(p) \in Nat /\ Scan!NetCost(s) \in Int
             /\ Scan!PayoffAt(s, p) = 100 * (a(p) + (-b(p))) - Scan!NetCost(s)
  <2>1. /\ a(p) \in Nat /\ WorthAt(s.legs[1], p) = a(p)
        /\ b(p) \in Nat /\ WorthAt(s.legs[2], p) = -b(p)
    BY <1>1, OneWorth
  <2>2. p \in Int
    OBVIOUS
  <2>3. Scan!NetCost(s) \in Int
    BY <1>1, <2>2, NetIs
  <2> HIDE DEF a, b
  <2>4. Scan!PayoffAt(s, p) = 100 * (a(p) + (-b(p))) - Scan!NetCost(s)
    BY <1>1, <2>1, FewWorths
  <2> QED  BY <2>1, <2>3, <2>4
<1>4. (\A p \in Nat : a(p) >= b(p)) \/ (\A p \in Nat : a(p) <= b(p))
  <2>1. CASE s.legs[1].strike <= s.legs[2].strike
    <3>1. \A p \in Nat : IF type = "call" THEN b(p) <= a(p) ELSE a(p) <= b(p)
      BY <1>1, <1>2, <2>1, BetterOption
    <3>2. \A p \in Nat : a(p) \in Nat /\ b(p) \in Nat
      BY <1>3
    <3> HIDE DEF a, b
    <3> QED  BY <3>1, <3>2
  <2>2. CASE s.legs[2].strike <= s.legs[1].strike
    <3>1. \A p \in Nat : IF type = "call" THEN a(p) <= b(p) ELSE b(p) <= a(p)
      BY <1>1, <1>2, <2>2, BetterOption
    <3>2. \A p \in Nat : a(p) \in Nat /\ b(p) \in Nat
      BY <1>3
    <3> HIDE DEF a, b
    <3> QED  BY <3>1, <3>2
  <2> QED  BY <1>2, <2>1, <2>2
<1> HIDE DEF a, b
<1>5. CASE \A p \in Nat : a(p) >= b(p)
  <2>1. ASSUME NEW p \in Nat PROVE Scan!PayoffAt(s, p) >= -Scan!NetCost(s)
    BY <1>3, <1>5
  <2> QED  BY <2>1 DEF Brings
<1>6. CASE \A p \in Nat : a(p) <= b(p)
  <2>1. ASSUME NEW p \in Nat PROVE Scan!PayoffAt(s, p) <= -Scan!NetCost(s)
    BY <1>3, <1>6
  <2> QED  BY <2>1 DEF Owes
<1> QED  BY <1>4, <1>5, <1>6

LEMMA CondorOwes ==
    ASSUME NEW s, s.rate \in Int, IsCondor(s), SameSize(s, "call"), SameSize(s, "put")
    PROVE  Owes(s)
<1>1. /\ HasLegs(s, 4)
      /\ One(s.legs[1], "put", TRUE) /\ One(s.legs[2], "put", FALSE)
      /\ One(s.legs[3], "call", FALSE) /\ One(s.legs[4], "call", TRUE)
  BY CondorEnds DEF EndsIn, Sound, IsCondor, Option
<1>2. /\ s.legs[1].strike <= s.legs[2].strike /\ s.legs[3].strike <= s.legs[4].strike
      /\ s.legs[1].size = s.legs[2].size /\ s.legs[3].size = s.legs[4].size
  <2>1. DOMAIN s.legs = 1..4
    BY <1>1 DEF HasLegs
  <2>2. s.legs[1].size = s.legs[2].size /\ s.legs[3].size = s.legs[4].size
    BY <1>1, <2>1 DEF One, SameSize
  <2> QED  BY <1>1, <2>2 DEF IsCondor, One
<1>3. ASSUME NEW p \in Nat PROVE Scan!PayoffAt(s, p) <= -Scan!NetCost(s)
  <2>1. PICK a \in Nat, b \in Nat, c \in Nat, d \in Nat :
           /\ a = Gives(s.legs[1], p) /\ b = Gives(s.legs[2], p)
           /\ c = Gives(s.legs[3], p) /\ d = Gives(s.legs[4], p)
           /\ WorthAt(s.legs[1], p) = a /\ WorthAt(s.legs[2], p) = -b
           /\ WorthAt(s.legs[3], p) = -c /\ WorthAt(s.legs[4], p) = d
    <3>1. /\ Gives(s.legs[1], p) \in Nat /\ WorthAt(s.legs[1], p) = Gives(s.legs[1], p)
          /\ Gives(s.legs[2], p) \in Nat /\ WorthAt(s.legs[2], p) = -Gives(s.legs[2], p)
          /\ Gives(s.legs[3], p) \in Nat /\ WorthAt(s.legs[3], p) = -Gives(s.legs[3], p)
          /\ Gives(s.legs[4], p) \in Nat /\ WorthAt(s.legs[4], p) = Gives(s.legs[4], p)
      BY <1>1, OneWorth
    <3> QED  BY <3>1
  <2>2. a <= b
    BY <1>1, <1>2, <2>1, BetterOption
  <2>3. d <= c
    BY <1>1, <1>2, <2>1, BetterOption
  <2>4. Scan!PayoffAt(s, p) = 100 * (a + (-b) + (-c) + d) - Scan!NetCost(s)
    BY <1>1, <2>1, FewWorths
  <2>5. p \in Int
    OBVIOUS
  <2>6. Scan!NetCost(s) \in Int
    BY <1>1, <2>5, NetIs
  <2> QED  BY <2>2, <2>3, <2>4, <2>6
<1> QED  BY <1>3 DEF Owes

Covers(s) ==
    LET capital == Scan!RequiredCapital(s)
    IN  /\ s.single /\ SameSize(s, "call") /\ SameSize(s, "put") /\ capital.known
        /\ s.kind = "iron_condor" => Scan!MaxProfit(s).value > 0
        => \A p \in PriceRange(s) : Scan!PayoffAt(s, p) >= -capital.value

\* A structure that owes at every price and has a profit brings a credit.
LEMMA ProfitIsCredit ==
    ASSUME NEW s, IsStructure(s), SameSize(s, "call"), Owes(s), Slope(s) <= 0, Scan!MaxProfit(s).value > 0
    PROVE  Scan!NetCost(s) <= 0
<1>1. PICK n : Sound(s, n)
  BY FlagsMean
<1>2. PICK p \in PriceRange(s) : Scan!PayoffAt(s, p) = Scan!Max(ValuesAt(s, Scan!Probes(s)))
  BY <1>1, ExtremesOfRange
<1>3. Scan!MaxProfit(s).value = Scan!PayoffAt(s, p)
  BY <1>2, ReportsAre
<1>4. p \in Nat /\ p \in Int
  BY <1>1, EndOfRange
<1>5. Scan!NetCost(s) \in Int /\ Scan!PayoffAt(s, p) \in Int
  BY <1>1, <1>4, NetIs DEF Sound
<1> QED  BY <1>3, <1>4, <1>5 DEF Owes

LEMMA StructureCovers ==
    ASSUME NEW s, IsStructure(s)
    PROVE  Covers(s)
<1> DEFINE capital == Scan!RequiredCapital(s)
<1> SUFFICES ASSUME SameSize(s, "call"), SameSize(s, "put"), capital.known,
                    s.kind = "iron_condor" => Scan!MaxProfit(s).value > 0, NEW p \in PriceRange(s)
             PROVE  Scan!PayoffAt(s, p) >= -capital.value
  BY DEF Covers
<1>1. PICK n : Sound(s, n)
  BY FlagsMean
<1>2. p \in Nat /\ p \in Int
  BY <1>1, EndOfRange
<1>3. Scan!NetCost(s) \in Int /\ Scan!PayoffAt(s, p) \in Int
  BY <1>1, <1>2, NetIs DEF Sound
<1>4. CASE Scan!NetCost(s) > 0
  <2>1. capital = [known |-> TRUE, value |-> Scan!NetCost(s)]
    BY <1>3, <1>4 DEF Scan!RequiredCapital, Scan!Known
  <2>2. s.rate \in Int
    BY DEF IsStructure
  <2>3. CASE IsStraddle(s) \/ IsCollar(s)
    <3>1. Brings(s)
      BY <2>2, <2>3, StraddleBrings, CollarBrings
    <3> QED  BY <1>2, <2>1, <3>1 DEF Brings
  <2>4. CASE IsCondor(s)
    <3>1. Owes(s) /\ Slope(s) <= 0
      BY <2>2, <2>4, CondorOwes, CondorEnds DEF EndsIn
    <3>2. Scan!MaxProfit(s).value > 0
      BY <2>4 DEF IsCondor
    <3>3. Scan!NetCost(s) <= 0
      BY <3>1, <3>2, ProfitIsCredit
    <3> QED  BY <1>3, <1>4, <3>3
  <2>5. ASSUME NEW type \in {"call", "put"}, IsSpread(s, type)
        PROVE  Scan!PayoffAt(s, p) >= -capital.value
    <3>1. Brings(s) \/ Owes(s)
      BY <2>2, <2>5, SpreadBringsOrOwes
    <3>2. CASE Brings(s)
      BY <1>2, <2>1, <3>2 DEF Brings
    <3>3. CASE Owes(s)
      <4>1. Slope(s) <= 0
        BY <2>2, <2>5, SpreadEnds DEF EndsIn
      <4>2. Scan!MaxProfit(s).value > 0
        BY <2>5, <4>1, ReportsAre DEF IsSpread
      <4>3. Scan!NetCost(s) <= 0
        BY <3>3, <4>1, <4>2, ProfitIsCredit
      <4> QED  BY <1>3, <1>4, <4>3
    <3> QED  BY <3>1, <3>2, <3>3
  <2> QED  BY <2>3, <2>4, <2>5 DEF IsStructure
<1>5. CASE Scan!NetCost(s) <= 0
  <2>1. PICK least \in Int : least = Scan!MaxLoss(s).value /\ Scan!PayoffAt(s, p) >= least
    <3>1. Slope(s) >= 0
      BY FlagsMean
    <3>2. Scan!MaxLoss(s).value = Scan!Min(ValuesAt(s, Scan!Probes(s)))
      BY ReportsAre
    <3>3. Scan!PayoffAt(s, p) >= Scan!MaxLoss(s).value
      BY <1>1, <3>1, <3>2, ExtremesOfRange
    <3>4. Scan!MaxLoss(s).value \in Int
      BY <1>1, <3>1, <3>2, ExtremesOfRange
    <3> QED  BY <3>3, <3>4
  <2>2. capital = [known |-> TRUE, value |-> -least]
    <3>1. capital = IF Scan!MaxLoss(s).known /\ least < 0 THEN [known |-> TRUE, value |-> -least] ELSE [known |-> FALSE]
      BY <1>3, <1>5, <2>1 DEF Scan!RequiredCapital, Scan!Known, Scan!Unknown
    <3> QED  BY <3>1
  <2> QED  BY <2>1, <2>2
<1> QED  BY <1>3, <1>4, <1>5

-----------------------------------------------------------------------------
(* What the scanner finds.                                                 *)

LEMMA LegOfContract ==
    ASSUME NEW c, IsContract(c), c.strike > 0, NEW long \in BOOLEAN
    PROVE  /\ Option(Scan!LegOf(c, long), c.type, long)
           /\ [Scan!LegOf(c, long) EXCEPT !.quantity = 1] = Scan!LegOf(c, long)
           /\ Scan!LegOf(c, long).strike = c.strike /\ Scan!LegOf(c, long).size = c.size
<1>1. Scan!Price(c, long) \in Int
  BY DEF Scan!Price, IsContract
<1>2. Scan!LegOf(c, long) = [long |-> long, quantity |-> 1, entry |-> Scan!Price(c, long), size |-> c.size,
                             type |-> c.type, strike |-> c.strike]
  BY DEF Scan!LegOf, IsContract
<1> QED  BY <1>1, <1>2 DEF Option, One, IsContract

LEMMA UsableIs ==
    ASSUME NEW chain, \A c \in chain : IsContract(c), NEW c \in Scan!Usable(Filter, chain)
    PROVE  IsContract(c) /\ c.strike > 0
BY DEF Scan!Usable, Scan!Accepts

\* Two usable contracts, as a straddle and as a spread.
LEMMA StraddlesAre ==
    ASSUME NEW chain, \A c \in chain : IsContract(c), Filter.rate \in Int,
           NEW s \in Scan!LongStraddles(Filter, chain, Spot)
    PROVE  IsStructure(s)
<1>1. PICK p \in Scan!OfType(Scan!Usable(Filter, chain), "call") \X Scan!OfType(Scan!Usable(Filter, chain), "put") :
         s = Scan!Structure("long_straddle", Filter, <<Scan!LegOf(p[1], TRUE), Scan!LegOf(p[2], TRUE)>>, TRUE)
  BY DEF Scan!LongStraddles
<1>2. Scan!NetCost(s) > 0
  BY DEF Scan!LongStraddles
<1>3. /\ p[1] \in Scan!Usable(Filter, chain) /\ p[1].type = "call"
      /\ p[2] \in Scan!Usable(Filter, chain) /\ p[2].type = "put"
  BY <1>1 DEF Scan!OfType
<1>4. Option(Scan!LegOf(p[1], TRUE), "call", TRUE) /\ Option(Scan!LegOf(p[2], TRUE), "put", TRUE)
  BY <1>3, UsableIs, LegOfContract
<1>5. /\ s.rate \in Int /\ s.single = TRUE
      /\ s.legs = <<Scan!LegOf(p[1], TRUE), Scan!LegOf(p[2], TRUE)>>
  BY <1>1 DEF Scan!Structure
<1>6. /\ DOMAIN s.legs = 1..2
      /\ s.legs[1] = Scan!LegOf(p[1], TRUE) /\ s.legs[2] = Scan!LegOf(p[2], TRUE)
  BY <1>5
<1>7. IsStraddle(s)
  BY <1>2, <1>4, <1>6, Zenon DEF IsStraddle
<1> QED  BY <1>5, <1>7 DEF IsStructure

LEMMA CollarsAre ==
    ASSUME NEW chain, \A c \in chain : IsContract(c), Filter.rate \in Int, Spot \in Int,
           NEW s \in Scan!Collars(Filter, chain, Spot, 1)
    PROVE  IsStructure(s)
<1> DEFINE usable(e) == Scan!At(Scan!Usable(Filter, chain), e)
           puts(e) == Scan!Nearest(Scan!PutsBelow(usable(e), Spot), Spot, 4)
           calls(e) == Scan!Nearest(Scan!CallsAbove(usable(e), Spot), Spot, 4)
<1>1. PICK e, p :
         /\ p \in puts(e) \X calls(e)
         /\ s = Scan!Structure("collar", Filter,
                 <<Scan!StockLeg(Spot, 1, p[2].size), [Scan!LegOf(p[1], TRUE) EXCEPT !.quantity = 1],
                   [Scan!LegOf(p[2], FALSE) EXCEPT !.quantity = 1]>>, TRUE)
  BY DEF Scan!Collars
<1>2. /\ p[1] \in Scan!Usable(Filter, chain) /\ p[1].type = "put"
      /\ p[2] \in Scan!Usable(Filter, chain) /\ p[2].type = "call"
  BY <1>1 DEF Scan!Nearest, Scan!PutsBelow, Scan!CallsAbove, Scan!OfType, Scan!At
<1>3. /\ Option(Scan!LegOf(p[1], TRUE), "put", TRUE) /\ Option(Scan!LegOf(p[2], FALSE), "call", FALSE)
      /\ [Scan!LegOf(p[1], TRUE) EXCEPT !.quantity = 1] = Scan!LegOf(p[1], TRUE)
      /\ [Scan!LegOf(p[2], FALSE) EXCEPT !.quantity = 1] = Scan!LegOf(p[2], FALSE)
      /\ p[2].size \in Nat \ {0} /\ Scan!LegOf(p[2], FALSE).size = p[2].size
  <2>1. IsContract(p[1]) /\ p[1].strike > 0 /\ IsContract(p[2]) /\ p[2].strike > 0
    BY <1>2, UsableIs
  <2>2. p[2].size \in Nat \ {0}
    BY <2>1 DEF IsContract
  <2> QED  BY <1>2, <2>1, <2>2, LegOfContract
<1>4. One(Scan!StockLeg(Spot, 1, p[2].size), "stock", TRUE)
  <2>1. Scan!StockLeg(Spot, 1, p[2].size) = [long |-> TRUE, quantity |-> 1, entry |-> Spot, size |-> p[2].size,
                                      type |-> "stock", strike |-> 0]
    BY DEF Scan!StockLeg
  <2> DEFINE stock == Scan!StockLeg(Spot, 1, p[2].size)
  <2>2. /\ stock.type = "stock" /\ stock.long = TRUE /\ stock.quantity = 1 /\ stock.size = p[2].size
        /\ stock.entry = Spot /\ stock.strike = 0
    BY <2>1
  <2>3. 0 \in Int
    OBVIOUS
  <2> QED  BY <1>3, <2>2, <2>3, Zenon DEF One
<1>5. /\ s.rate \in Int /\ s.single = TRUE
      /\ s.legs = <<Scan!StockLeg(Spot, 1, p[2].size), Scan!LegOf(p[1], TRUE), Scan!LegOf(p[2], FALSE)>>
  BY <1>1, <1>3 DEF Scan!Structure
<1>6. /\ DOMAIN s.legs = 1..3
      /\ s.legs[1] = Scan!StockLeg(Spot, 1, p[2].size)
      /\ s.legs[2] = Scan!LegOf(p[1], TRUE) /\ s.legs[3] = Scan!LegOf(p[2], FALSE)
  BY <1>5
<1>7. s.legs[1].size = s.legs[3].size
  <2>1. Scan!StockLeg(Spot, 1, p[2].size).size = p[2].size
    BY DEF Scan!StockLeg
  <2> QED  BY <1>3, <1>6, <2>1, Zenon
<1>8. IsCollar(s)
  BY <1>3, <1>4, <1>6, <1>7, Zenon DEF IsCollar
<1> QED  BY <1>5, <1>8 DEF IsStructure

LEMMA CondorsAre ==
    ASSUME NEW chain, \A c \in chain : IsContract(c), Filter.rate \in Int,
           NEW s \in Scan!IronCondors(Filter, chain, Spot)
    PROVE  IsStructure(s)
<1> DEFINE usable(e) == Scan!At(Scan!Usable(Filter, chain), e)
           puts(e) == Scan!Nearest(Scan!PutsBelow(usable(e), Spot), Spot, 5)
           calls(e) == Scan!Nearest(Scan!CallsAbove(usable(e), Spot), Spot, 5)
<1>1. PICK e, q :
         /\ q \in puts(e) \X puts(e) \X calls(e) \X calls(e)
         /\ Scan!IsCondor(q[1], q[2], q[3], q[4])
         /\ s = Scan!CondorOf(Filter, q[1], q[2], q[3], q[4])
  BY DEF Scan!IronCondors
<1>2. /\ q[1] \in Scan!Usable(Filter, chain) /\ q[1].type = "put"
      /\ q[2] \in Scan!Usable(Filter, chain) /\ q[2].type = "put"
      /\ q[3] \in Scan!Usable(Filter, chain) /\ q[3].type = "call"
      /\ q[4] \in Scan!Usable(Filter, chain) /\ q[4].type = "call"
  BY <1>1 DEF Scan!Nearest, Scan!PutsBelow, Scan!CallsAbove, Scan!OfType, Scan!At
<1>3. /\ Option(Scan!LegOf(q[1], TRUE), "put", TRUE) /\ Option(Scan!LegOf(q[2], FALSE), "put", FALSE)
      /\ Option(Scan!LegOf(q[3], FALSE), "call", FALSE) /\ Option(Scan!LegOf(q[4], TRUE), "call", TRUE)
      /\ Scan!LegOf(q[1], TRUE).strike < Scan!LegOf(q[2], FALSE).strike
      /\ Scan!LegOf(q[3], FALSE).strike < Scan!LegOf(q[4], TRUE).strike
  BY <1>1, <1>2, UsableIs, LegOfContract DEF Scan!IsCondor
<1>4. /\ s.rate \in Int /\ s.single = TRUE /\ s.kind = "iron_condor"
      /\ s.legs = <<Scan!LegOf(q[1], TRUE), Scan!LegOf(q[2], FALSE),
                    Scan!LegOf(q[3], FALSE), Scan!LegOf(q[4], TRUE)>>
  BY <1>1 DEF Scan!CondorOf, Scan!Structure
<1>5. /\ DOMAIN s.legs = 1..4
      /\ s.legs[1] = Scan!LegOf(q[1], TRUE) /\ s.legs[2] = Scan!LegOf(q[2], FALSE)
      /\ s.legs[3] = Scan!LegOf(q[3], FALSE) /\ s.legs[4] = Scan!LegOf(q[4], TRUE)
  BY <1>4
<1>6. IsCondor(s)
  BY <1>3, <1>4, <1>5, Zenon DEF IsCondor
<1> QED  BY <1>4, <1>6 DEF IsStructure

LEMMA SpreadsAre ==
    ASSUME NEW chain, \A c \in chain : IsContract(c), Filter.rate \in Int,
           NEW type \in {"call", "put"}, NEW longIsLower \in BOOLEAN, NEW kind,
           NEW s \in Scan!Spreads(Filter, chain, Spot, type, longIsLower, kind)
    PROVE  IsStructure(s)
<1> DEFINE usable(e) == Scan!OfType(Scan!At(Scan!Usable(Filter, chain), e), type)
<1>1. PICK e, p :
         /\ p \in usable(e) \X usable(e)
         /\ Scan!IsSoundSpread(s, p[1], p[2])
         /\ s = Scan!Structure(kind, Filter, IF longIsLower
                    THEN <<Scan!LegOf(p[1], TRUE), Scan!LegOf(p[2], FALSE)>>
                    ELSE <<Scan!LegOf(p[2], TRUE), Scan!LegOf(p[1], FALSE)>>, TRUE)
  BY Zenon DEF Scan!Spreads
<1>2. /\ p[1] \in Scan!Usable(Filter, chain) /\ p[1].type = type
      /\ p[2] \in Scan!Usable(Filter, chain) /\ p[2].type = type
  BY <1>1 DEF Scan!OfType, Scan!At
<1>3. PICK k, l : /\ Option(Scan!LegOf(k, TRUE), type, TRUE) /\ Option(Scan!LegOf(l, FALSE), type, FALSE)
                  /\ s = Scan!Structure(kind, Filter, <<Scan!LegOf(k, TRUE), Scan!LegOf(l, FALSE)>>, TRUE)
  <2>1. \A c \in {p[1], p[2]}, long \in BOOLEAN : Option(Scan!LegOf(c, long), type, long)
    BY <1>2, UsableIs, LegOfContract
  <2>2. CASE longIsLower
    BY <1>1, <2>1, <2>2
  <2>3. CASE ~longIsLower
    BY <1>1, <2>1, <2>3
  <2> QED  BY <2>2, <2>3
<1>4. s.rate \in Int /\ s.single = TRUE /\ s.legs = <<Scan!LegOf(k, TRUE), Scan!LegOf(l, FALSE)>>
  BY <1>3 DEF Scan!Structure
<1>5. Scan!MaxProfit(s).known => Scan!MaxProfit(s).value > 0
  BY <1>1 DEF Scan!IsSoundSpread
<1>6. DOMAIN s.legs = 1..2 /\ s.legs[1] = Scan!LegOf(k, TRUE) /\ s.legs[2] = Scan!LegOf(l, FALSE)
  BY <1>4
<1>7. IsSpread(s, type)
  BY <1>3, <1>5, <1>6, Zenon DEF IsSpread
<1>8. type = "call" \/ type = "put"
  OBVIOUS
<1> QED  BY <1>4, <1>7, <1>8, Zenon DEF IsStructure

LEMMA FoundAre ==
    ASSUME NEW chain, \A c \in chain : IsContract(c), Filter.rate \in Int, Spot \in Int,
           NEW s \in Scan!Scanned(Filter, chain, Spot, 1), s.single
    PROVE  IsStructure(s)
<1>1. s \notin Scan!Calendars(Filter, chain)
  <2>1. ASSUME s \in Scan!Calendars(Filter, chain) PROVE FALSE
    <3>1. PICK legs : s = Scan!Structure("calendar_spread", Filter, legs, FALSE)
      BY <2>1 DEF Scan!Calendars
    <3>2. s.single = FALSE
      BY <3>1 DEF Scan!Structure
    <3> QED  BY <3>2
  <2> QED  BY <2>1
<1>2. CASE s \in Scan!LongStraddles(Filter, chain, Spot)
  BY <1>2, StraddlesAre
<1>3. CASE s \in Scan!Collars(Filter, chain, Spot, 1)
  BY <1>3, CollarsAre
<1>4. CASE s \in Scan!IronCondors(Filter, chain, Spot)
  BY <1>4, CondorsAre
<1>5. ASSUME NEW type \in {"call", "put"}, NEW lower \in BOOLEAN, NEW kind,
             s \in Scan!Spreads(Filter, chain, Spot, type, lower, kind)
      PROVE  IsStructure(s)
  BY <1>5, SpreadsAre
<1>6. \/ s \in Scan!LongStraddles(Filter, chain, Spot)
      \/ s \in Scan!Collars(Filter, chain, Spot, 1)
      \/ s \in Scan!IronCondors(Filter, chain, Spot)
      \/ \E type \in {"call", "put"}, lower \in BOOLEAN : \E kind :
            s \in Scan!Spreads(Filter, chain, Spot, type, lower, kind)
  BY <1>1, Zenon DEF Scan!Scanned
<1> QED  BY <1>2, <1>3, <1>4, <1>5, <1>6

LEMMA ScannedExtremes == Filter.rate \in Int /\ Spot \in Int /\ ScanAsked => ExtremesAreTrue
<1> SUFFICES ASSUME Filter.rate \in Int, Spot \in Int, ScanAsked, case.kind = "scan",
                    NEW s \in Found, s.single, SameSize(s, "call")
             PROVE  ReportsExtremes(s)
  BY Zenon DEF ExtremesAreTrue
<1>1. \A c \in case.chain : IsContract(c)
  BY DEF ScanAsked
<1> QED  BY <1>1, FoundAre, StructureExtremes DEF Found

\* The extremes a structure of the scanner reports are those of its payoff at
\* every price, and it reports none exactly when there is none, where its calls
\* have one size: for any chain, whichever contracts the broker corrected
\* (max_profit, max_loss, payoff.py:249-323).
THEOREM ExtremesAreThose == Spec => []ExtremesAreTrue
<1>1. Asked => ExtremesAreTrue
  BY ScannedExtremes, DeskAssumption DEF Asked
<1> QED  BY OnlyAsked, <1>1, PTL

LEMMA ScannedCapital == Filter.rate \in Int /\ Spot \in Int /\ ScanAsked => CapitalCoversTheLoss
<1> SUFFICES ASSUME Filter.rate \in Int, Spot \in Int, ScanAsked, case.kind = "scan"
             PROVE  \A s \in Found : Covers(s)
  BY Zenon DEF CapitalCoversTheLoss, Covers
<1>1. \A c \in case.chain : IsContract(c)
  BY DEF ScanAsked
<1>2. ASSUME NEW s \in Found PROVE Covers(s)
  <2>1. CASE s.single
    BY <1>1, <1>2, <2>1, FoundAre, StructureCovers DEF Found
  <2>2. CASE ~s.single
    BY <2>2 DEF Covers
  <2> QED  BY <2>1, <2>2
<1> QED  BY <1>2

\* No structure of the scanner loses more than the capital it asks for,
\* commission included, where its calls have one size and its puts have one: for
\* any chain, whichever contracts the broker corrected (required_capital,
\* payoff.py:193-217, and the gates of the scanners).
THEOREM CapitalIsEnough == Spec => []CapitalCoversTheLoss
<1>1. Asked => CapitalCoversTheLoss
  BY ScannedCapital, DeskAssumption DEF Asked
<1> QED  BY OnlyAsked, <1>1, PTL

-----------------------------------------------------------------------------
(* Jalali dates.                                                           *)

\* How often a leap year has been by the n-th of the years that repeat every
\* 33, from 1210 on.
LeapsBy(n) == 8 * (n \div 33) + ((n % 33) + 3) \div 4

Grown(n, leaps, more) ==
    leaps \in Nat /\ more = leaps + (IF n % 33 \in {0, 4, 8, 12, 16, 20, 24, 28} THEN 1 ELSE 0)

LEMMA LeapsGrow ==
    ASSUME NEW n \in 0..424
    PROVE  Grown(n, LeapsBy(n), LeapsBy(n + 1))
<1>1. PICK q \in 0..12, r \in 0..32 : n = 33 * q + r /\ n \div 33 = q /\ n % 33 = r
  <2>1. n \in Nat /\ n \div 33 \in Int /\ n % 33 \in 0..32
    OBVIOUS
  <2>2. n = 33 * (n \div 33) + (n % 33)
    OBVIOUS
  <2>3. n \div 33 \in 0..12
    BY <2>1, <2>2
  <2> QED  BY <2>1, <2>2, <2>3
<1>2. CASE r < 32
  <2>1. (n + 1) \div 33 = q /\ (n + 1) % 33 = r + 1
    BY <1>1, <1>2
  <2>2. (r + 4) \div 4 = (r + 3) \div 4 + (IF r \in {0, 4, 8, 12, 16, 20, 24, 28} THEN 1 ELSE 0)
    BY <1>2
  <2>3. LeapsBy(n) = 8 * q + (r + 3) \div 4 /\ LeapsBy(n + 1) = 8 * q + (r + 4) \div 4
    BY <1>1, <2>1 DEF LeapsBy
  <2> QED  BY <1>1, <2>2, <2>3 DEF Grown
<1>3. CASE r = 32
  <2>1. (n + 1) \div 33 = q + 1 /\ (n + 1) % 33 = 0
    BY <1>1, <1>3
  <2> QED  BY <1>1, <1>3, <2>1 DEF LeapsBy, Grown
<1> QED  BY <1>1, <1>2, <1>3

LEMMA LeapsCount == \A n \in 0..424 : LeapsBy(n) \in Nat
  BY LeapsGrow DEF Grown

\* The days before a year, and those of the leap day in it.
DayOfMarch(y) == (y \div 4) - (y \div 100) + (y \div 400)

MarchOf(y, d) == 365 * (y - 1) + DayOfMarch(y) + 59 + d

LEMMA MarchIs ==
    ASSUME NEW y \in Nat \ {0}, NEW d \in Int
    PROVE  Cal!March(y, d) = MarchOf(y, d)
<1>1. PICK a \in Nat, b \in 0..3, c \in 0..24, e \in 0..3 : y = 400 * a + 100 * b + 4 * c + e
  <2>1. PICK a \in Nat, f \in 0..399 : y = 400 * a + f
    <3>1. y \div 400 \in Nat /\ y % 400 \in 0..399 /\ y = 400 * (y \div 400) + (y % 400)
      OBVIOUS
    <3> QED  BY <3>1
  <2>2. PICK b \in 0..3, g \in 0..99 : f = 100 * b + g
    <3>1. f \div 100 \in 0..3 /\ f % 100 \in 0..99 /\ f = 100 * (f \div 100) + (f % 100)
      OBVIOUS
    <3> QED  BY <3>1
  <2>3. PICK c \in 0..24, e \in 0..3 : g = 4 * c + e
    <3>1. g \div 4 \in 0..24 /\ g % 4 \in 0..3 /\ g = 4 * (g \div 4) + (g % 4)
      OBVIOUS
    <3> QED  BY <3>1
  <2> QED  BY <2>1, <2>2, <2>3
<1>2. /\ y \div 4 = 100 * a + 25 * b + c /\ y \div 100 = 4 * a + b /\ y \div 400 = a
      /\ y % 4 = e /\ y % 100 = 4 * c + e /\ y % 400 = 100 * b + 4 * c + e
  BY <1>1
<1>3. (y - 1) \div 4 = IF e = 0 THEN 100 * a + 25 * b + c - 1 ELSE 100 * a + 25 * b + c
  BY <1>1
<1>4. (y - 1) \div 100 = IF c = 0 /\ e = 0 THEN 4 * a + b - 1 ELSE 4 * a + b
  BY <1>1
<1>5. (y - 1) \div 400 = IF b = 0 /\ c = 0 /\ e = 0 THEN a - 1 ELSE a
  BY <1>1
<1>6. Cal!IsGregorianLeap(y) <=> e = 0 /\ (c # 0 \/ b = 0)
  BY <1>1, <1>2 DEF Cal!IsGregorianLeap
<1> QED  BY <1>1, <1>2, <1>3, <1>4, <1>5, <1>6 DEF Cal!March, Cal!DaysBefore, DayOfMarch, MarchOf

\* The days before a year: 400 years have 146097 of them.
DaysBound(w, days, next) ==
    /\ days \in Int /\ next \in Int /\ days <= next
    /\ 146097 * w - 699 <= 400 * days /\ 400 * days <= 146097 * w + 396

LEMMA DaysAre ==
    ASSUME NEW w \in Nat
    PROVE  DaysBound(w, Cal!DaysBefore(w + 1), Cal!DaysBefore(w + 2))
<1>1. PICK a \in Int, b \in Int, c \in Int, f \in Int, g \in Int, h \in Int :
         /\ a = w \div 4 /\ b = w \div 100 /\ c = w \div 400
         /\ f = (w + 1) \div 4 /\ g = (w + 1) \div 100 /\ h = (w + 1) \div 400
  OBVIOUS
<1>2. 4 * a <= w /\ w <= 4 * a + 3 /\ 100 * b <= w /\ w <= 100 * b + 99 /\ 400 * c <= w /\ w <= 400 * c + 399
  BY <1>1
<1>3. a <= f /\ g <= b + 1 /\ c <= h
  BY <1>1
<1>4. Cal!DaysBefore(w + 1) = 365 * w + a - b + c /\ Cal!DaysBefore(w + 2) = 365 * (w + 1) + f - g + h
  BY <1>1 DEF Cal!DaysBefore
<1> QED  BY <1>2, <1>3, <1>4 DEF DaysBound

\* The year of a day is the one it is in.
LEMMA YearOfIs ==
    ASSUME NEW w \in Nat, NEW day \in Int, Cal!DaysBefore(w + 1) < day, day <= Cal!DaysBefore(w + 2)
    PROVE  Cal!YearOf(day) = w + 1
<1>1. PICK y \in Int : y = (day * 400) \div 146097
  OBVIOUS
<1>2. 146097 * y <= 400 * day /\ 400 * day < 146097 * y + 146097
  BY <1>1
<1>3. /\ DaysBound(w, Cal!DaysBefore(w + 1), Cal!DaysBefore(w + 2))
      /\ DaysBound(w + 1, Cal!DaysBefore(w + 2), Cal!DaysBefore(w + 3))
      /\ DaysBound(w + 2, Cal!DaysBefore(w + 3), Cal!DaysBefore(w + 4))
  <2>1. /\ w + 1 \in Nat /\ (w + 1) + 1 = w + 2 /\ (w + 1) + 2 = w + 3
        /\ w + 2 \in Nat /\ (w + 2) + 1 = w + 3 /\ (w + 2) + 2 = w + 4
    OBVIOUS
  <2>2. /\ DaysBound(w + 1, Cal!DaysBefore((w + 1) + 1), Cal!DaysBefore((w + 1) + 2))
        /\ DaysBound(w + 2, Cal!DaysBefore((w + 2) + 1), Cal!DaysBefore((w + 2) + 2))
    BY <2>1, DaysAre
  <2> QED  BY <2>1, <2>2, DaysAre
<1>4. PICK s \in Int, t \in Int, u \in Int :
         s = Cal!DaysBefore(w + 1) /\ t = Cal!DaysBefore(w + 2) /\ u = Cal!DaysBefore(w + 3)
  BY <1>3 DEF DaysBound
<1>5. /\ 146097 * w - 699 <= 400 * s /\ 400 * t <= 146097 * (w + 1) + 396 /\ t <= u
      /\ s < day /\ day <= t
  BY <1>3, <1>4 DEF DaysBound
<1>6. w - 1 <= y /\ y <= w + 1
  BY <1>2, <1>5
<1> DEFINE S == {z \in {y, y + 1, y + 2} : Cal!DaysBefore(z) < day}
<1>7. w + 1 \in S
  BY <1>4, <1>5, <1>6
<1>8. \A z \in S : z \in Int /\ z <= w + 1
  <2> SUFFICES ASSUME NEW z \in {y, y + 1, y + 2}, Cal!DaysBefore(z) < day PROVE z \in Int /\ z <= w + 1
    OBVIOUS
  <2>1. z # w + 2 /\ z # w + 3
    BY <1>4, <1>5
  <2>2. z \in Int /\ z <= w + 3
    BY <1>6
  <2> QED  BY <2>1, <2>2
<1>9. Cal!Max(S) = w + 1
  <2> HIDE DEF S
  <2>1. Cal!Max(S) \in S /\ \A x \in S : Cal!Max(S) >= x
    BY <1>7, <1>8 DEF Cal!Max
  <2> QED  BY <1>7, <1>8, <2>1
<1>10. Cal!YearOf(day) = Cal!Max(S)
  BY <1>1 DEF Cal!YearOf
<1> QED  BY <1>9, <1>10

Passed(sum, i) == sum + Cal!Leaps(Cal!Breaks[i] - Cal!Breaks[i - 1], 0)
Passes == INSTANCE SequenceFacts WITH Op <- Passed
Eras == [i \in 1..10 |-> i + 1]

\* The leap years of the patterns before the one of 1210.
LEMMA ErasPass ==
    ASSUME NEW base, base = -14
    PROVE  Passes!FoldLeft(Passed, base, Eras) = 294
<1>1. PICK acc : Passes!Walk(acc, base, Eras, 10) /\ Passes!FoldLeft(Passed, base, Eras) = acc[10]
  <2>1. PICK n \in Nat : n = 10
    OBVIOUS
  <2>2. DOMAIN Eras = 1..n
    BY <2>1 DEF Eras
  <2>3. \E acc : Passes!Walk(acc, base, Eras, n) /\ Passes!FoldLeft(Passed, base, Eras) = acc[n]
    BY <2>2, Passes!FoldLeftWalks, Zenon
  <2> QED  BY <2>1, <2>3
<1>2. acc[0] = -14 /\ \A i \in 1..10 : acc[i] = Passed(acc[i - 1], i + 1)
  <2>1. \A i \in 1..10 : Eras[i] = i + 1
    BY DEF Eras
  <2> QED  BY <1>1, <2>1 DEF Passes!Walk
<1>3. /\ Cal!Leaps(70, 0) = 17 /\ Cal!Leaps(29, 0) = 7 /\ Cal!Leaps(161, 0) = 39 /\ Cal!Leaps(227, 0) = 55
      /\ Cal!Leaps(260, 0) = 63 /\ Cal!Leaps(62, 0) = 15 /\ Cal!Leaps(293, 0) = 71
  BY DEF Cal!Leaps
<1>4. \A s \in Int : /\ Passed(s, 2) = s + 17 /\ Passed(s, 3) = s + 7 /\ Passed(s, 4) = s + 39 /\ Passed(s, 5) = s + 55
                     /\ Passed(s, 6) = s + 63 /\ Passed(s, 7) = s + 17 /\ Passed(s, 8) = s + 15
                     /\ Passed(s, 9) = s + 71 /\ Passed(s, 10) = s + 17 /\ Passed(s, 11) = s + 7
  BY <1>3 DEF Passed, Cal!Breaks
<1>5. acc[1] = 3 /\ acc[2] = 10 /\ acc[3] = 49 /\ acc[4] = 104 /\ acc[5] = 167
  <2>1. /\ acc[1] = Passed(acc[0], 2) /\ acc[2] = Passed(acc[1], 3) /\ acc[3] = Passed(acc[2], 4)
        /\ acc[4] = Passed(acc[3], 5) /\ acc[5] = Passed(acc[4], 6)
    BY <1>2
  <2> QED  BY <1>2, <1>4, <2>1
<1>6. acc[6] = 184 /\ acc[7] = 199 /\ acc[8] = 270 /\ acc[9] = 287 /\ acc[10] = 294
  <2>1. /\ acc[6] = Passed(acc[5], 7) /\ acc[7] = Passed(acc[6], 8) /\ acc[8] = Passed(acc[7], 9)
        /\ acc[9] = Passed(acc[8], 10) /\ acc[10] = Passed(acc[9], 11)
    BY <1>2
  <2> QED  BY <1>4, <1>5, <2>1
<1> QED  BY <1>1, <1>6

\* What the shape of a year is, of its pattern and of what passed before.
ShapeOf(jy, after, passed) ==
    LET start == Cal!Breaks[after - 1]
        jump == Cal!Breaks[after] - start
        n == jy - start
        leapJ == passed + Cal!Leaps(n, 3) + (IF jump % 33 = 4 /\ jump - n = 4 THEN 1 ELSE 0)
        gy == jy + 621
        leapG == (gy \div 4) - (((gy \div 100 + 1) * 3) \div 4) - 150
        m == IF jump - n < 6 THEN n - jump + ((jump + 4) \div 33) * 33 ELSE n
    IN  [leap |-> (((m + 1) % 33) - 1) % 4 = 0, march |-> 20 + leapJ - leapG]

LEMMA ShapeFolds ==
    ASSUME NEW jy
    PROVE  LET after == Cal!Min({i \in DOMAIN Cal!Breaks : jy < Cal!Breaks[i]})
           IN  Cal!YearShape(jy) = ShapeOf(jy, after, Passes!FoldLeft(Passed, -14, [i \in 1..(after - 2) |-> i + 1]))
BY Zenon DEF Cal!YearShape, ShapeOf, Passed, Cal!FoldLeft, Passes!FoldLeft, Cal!MapThenFoldSet, Passes!MapThenFoldSet,
             Cal!Max, Passes!Max

MarchFirst(leaps, gy) == 20 + 294 + leaps - ((gy \div 4) - (((gy \div 100 + 1) * 3) \div 4) - 150)
Shaped(n, shape) ==
    /\ shape.march = MarchFirst(LeapsBy(n), n + 1831)
    /\ n < 424 => (shape.leap <=> n % 33 \in {0, 4, 8, 12, 16, 20, 24, 28})

LEMMA ShapeIs ==
    ASSUME NEW n \in 0..424
    PROVE  Shaped(n, Cal!YearShape(n + 1210))
<1> DEFINE jy == n + 1210
           after == Cal!Min({i \in DOMAIN Cal!Breaks : jy < Cal!Breaks[i]})
           shape == ShapeOf(jy, 12, 294)
<1>1. after = 12
  <2> DEFINE S == {i \in DOMAIN Cal!Breaks : jy < Cal!Breaks[i]}
  <2>1. S = 12..20
    <3>1. DOMAIN Cal!Breaks = 1..20
      BY DEF Cal!Breaks
    <3>2. \A i \in 1..11 : Cal!Breaks[i] <= 1210
      BY DEF Cal!Breaks
    <3>3. \A i \in 12..20 : Cal!Breaks[i] >= 1635
      BY DEF Cal!Breaks
    <3>4. \A i \in 1..20 : Cal!Breaks[i] \in Int
      BY DEF Cal!Breaks
    <3>5. \A i \in 1..20 : jy < Cal!Breaks[i] <=> i \in 12..20
      BY <3>2, <3>3, <3>4
    <3> QED  BY <3>1, <3>5
  <2> HIDE DEF S
  <2>2. 12 \in S /\ \A i \in S : i \in Int /\ 12 <= i
    BY <2>1
  <2>3. Cal!Min(S) \in S /\ \A i \in S : Cal!Min(S) <= i
    BY <2>2 DEF Cal!Min
  <2>4. Cal!Min(S) = 12
    BY <2>2, <2>3
  <2> QED  BY <2>4 DEF S
<1>2. Cal!YearShape(jy) = shape
  <2> DEFINE eras == [i \in 1..(after - 2) |-> i + 1]
  <2>1. eras = Eras
    BY <1>1 DEF Eras
  <2>2. Cal!YearShape(jy) = ShapeOf(jy, after, Passes!FoldLeft(Passed, -14, eras))
    BY ShapeFolds
  <2>3. Passes!FoldLeft(Passed, -14, Eras) = 294
    <3>1. PICK base : base = -14
      OBVIOUS
    <3>2. Passes!FoldLeft(Passed, base, Eras) = 294
      BY <3>1, ErasPass
    <3> QED  BY <3>1, <3>2
  <2> HIDE DEF after, eras, jy
  <2> QED  BY <1>1, <2>1, <2>2, <2>3
<1>3. Cal!Breaks[11] = 1210 /\ Cal!Breaks[12] = 1635
  BY DEF Cal!Breaks
<1>4. shape.march = MarchFirst(LeapsBy(n), n + 1831)
  BY <1>3 DEF ShapeOf, MarchFirst, LeapsBy, Cal!Leaps
<1>5. ASSUME n < 424 PROVE shape.leap <=> n % 33 \in {0, 4, 8, 12, 16, 20, 24, 28}
  <2> DEFINE m == IF n > 419 THEN n + 4 ELSE n
  <2>1. shape.leap <=> (((m + 1) % 33) - 1) % 4 = 0
    <3>1. jy - 1210 = n /\ 12 - 1 = 11 /\ 1635 - 1210 = 425 /\ ((425 + 4) \div 33) * 33 = 429
      OBVIOUS
    <3>2. (IF 425 - n < 6 THEN n - 425 + 429 ELSE n) = m
      OBVIOUS
    <3> HIDE DEF m, jy
    <3>3. shape.leap = (((((IF 425 - n < 6 THEN n - 425 + 429 ELSE n) + 1) % 33) - 1) % 4 = 0)
      BY <1>3, <3>1 DEF ShapeOf
    <3> QED  BY <3>2, <3>3
  <2>2. (((m + 1) % 33) - 1) % 4 = 0 <=> n % 33 \in {0, 4, 8, 12, 16, 20, 24, 28}
    <3>1. PICK q \in Int, r \in 0..32 : n = 33 * q + r /\ n % 33 = r
      <4>1. n \div 33 \in Int /\ n % 33 \in 0..32 /\ n = 33 * (n \div 33) + (n % 33)
        OBVIOUS
      <4> QED  BY <4>1
    <3>2. CASE n > 419
      <4>1. q = 12 /\ r \in 24..27
        BY <1>5, <3>1, <3>2
      <4>2. (m + 1) % 33 = r + 5
        BY <3>1, <3>2, <4>1
      <4> QED  BY <3>1, <4>1, <4>2
    <3>3. CASE n <= 419 /\ r < 32
      <4>1. (m + 1) % 33 = r + 1
        BY <3>1, <3>3
      <4> QED  BY <3>1, <3>3, <4>1
    <3>4. CASE n <= 419 /\ r = 32
      <4>1. (m + 1) % 33 = 0
        BY <3>1, <3>4
      <4> QED  BY <3>1, <3>4, <4>1
    <3> QED  BY <3>1, <3>2, <3>3, <3>4
  <2> QED  BY <2>1, <2>2
<1> QED  BY <1>2, <1>4, <1>5 DEF Shaped

\* The first day of a year: no Gregorian leap year is left in it.
LEMMA NewYearIs ==
    ASSUME NEW n \in 0..424
    PROVE  Cal!NewYear(n + 1210) = 365 * (n + 1830) + 523 + LeapsBy(n)
<1>1. PICK gy \in Nat \ {0} : gy = n + 1831
  OBVIOUS
<1>2. PICK a \in Int, b \in Int, c \in Int : a = gy \div 4 /\ b = gy \div 100 /\ c = gy \div 400
  OBVIOUS
<1>3. ((b + 1) * 3) \div 4 = b - c
  <2>1. c = b \div 4
    BY <1>2
  <2> QED  BY <2>1
<1>4. PICK l \in Int : l = LeapsBy(n)
  BY LeapsCount
<1>5. PICK d \in Int : d = Cal!YearShape(n + 1210).march /\ d = 314 + l - (a - (b - c) - 150)
  <2>1. MarchFirst(l, gy) = 20 + 294 + l - ((gy \div 4) - (((gy \div 100 + 1) * 3) \div 4) - 150)
    BY DEF MarchFirst
  <2>2. Cal!YearShape(n + 1210).march = MarchFirst(l, gy)
    <3>1. Shaped(n, Cal!YearShape(n + 1210))
      BY ShapeIs
    <3> QED  BY <1>1, <1>4, <3>1 DEF Shaped
  <2>3. 20 + 294 + l - (a - (b - c) - 150) \in Int /\ 20 + 294 = 314
    OBVIOUS
  <2> QED  BY <1>2, <1>3, <2>1, <2>2, <2>3
<1>6. Cal!March(gy, d) = 365 * (gy - 1) + (a - b + c) + 59 + d
  <2>1. Cal!March(gy, d) = MarchOf(gy, d)
    BY MarchIs
  <2> QED  BY <1>2, <2>1 DEF MarchOf, DayOfMarch
<1>7. Cal!NewYear(n + 1210) = Cal!March(gy, d)
  <2>1. (n + 1210) + 621 = gy
    BY <1>1
  <2> QED  BY <1>5, <2>1 DEF Cal!NewYear
<1> QED  BY <1>1, <1>4, <1>5, <1>6, <1>7

\* It lies in its Gregorian year.
LEMMA NewYearFits ==
    ASSUME NEW n \in 0..424
    PROVE  /\ Cal!NewYear(n + 1210) \in Int
           /\ Cal!DaysBefore(n + 1831) < Cal!NewYear(n + 1210)
           /\ Cal!NewYear(n + 1210) <= Cal!DaysBefore(n + 1832)
<1>1. PICK x \in Int, l \in Int : x = Cal!NewYear(n + 1210) /\ l = LeapsBy(n) /\ x = 365 * (n + 1830) + 523 + l
  <2>1. LeapsBy(n) \in Int
    BY LeapsCount
  <2>2. Cal!NewYear(n + 1210) = 365 * (n + 1830) + 523 + LeapsBy(n)
    BY NewYearIs
  <2> QED  BY <2>1, <2>2
<1>2. 33 * l <= 8 * n + 33 /\ 8 * n <= 33 * l
  <2>1. PICK q \in Int, r \in 0..32 : n = 33 * q + r /\ n \div 33 = q /\ n % 33 = r
    <3>1. n \div 33 \in Int /\ n % 33 \in 0..32 /\ n = 33 * (n \div 33) + (n % 33)
      OBVIOUS
    <3> QED  BY <3>1
  <2>2. PICK t \in Int : t = (r + 3) \div 4 /\ 4 * t <= r + 3 /\ r <= 4 * t
    <3>1. (r + 3) \div 4 \in Int /\ 4 * ((r + 3) \div 4) <= r + 3 /\ r <= 4 * ((r + 3) \div 4)
      OBVIOUS
    <3> QED  BY <3>1
  <2>3. l = 8 * q + t
    BY <1>1, <2>1, <2>2 DEF LeapsBy
  <2> QED  BY <2>1, <2>2, <2>3
<1>3. PICK a \in Int, b \in Int, c \in Int :
         /\ a = (n + 1830) \div 4 /\ b = (n + 1830) \div 100 /\ c = (n + 1830) \div 400
         /\ 4 * a <= n + 1830 /\ n + 1827 <= 4 * a /\ 100 * b <= n + 1830 /\ n + 1731 <= 100 * b
         /\ 400 * c <= n + 1830 /\ n + 1431 <= 400 * c
  OBVIOUS
<1>4. PICK s \in Int, t \in Int : s = Cal!DaysBefore(n + 1831) /\ t = Cal!DaysBefore(n + 1832) /\ s + 365 <= t
                                /\ s = 365 * (n + 1830) + a - b + c
  <2>1. PICK f \in Int, g \in Int, h \in Int :
           /\ f = (n + 1831) \div 4 /\ g = (n + 1831) \div 100 /\ h = (n + 1831) \div 400
    OBVIOUS
  <2>2. Cal!DaysBefore(n + 1831) = 365 * (n + 1830) + a - b + c /\ Cal!DaysBefore(n + 1832) = 365 * (n + 1831) + f - g + h
    BY <1>3, <2>1 DEF Cal!DaysBefore
  <2>3. a - b <= f - g /\ c <= h
    <3>1. PICK z \in Int : z = n + 1830
      OBVIOUS
    <3>2. (z + 1) \div 100 = z \div 100 \/ ((z + 1) \div 100 = z \div 100 + 1 /\ (z + 1) \div 4 = z \div 4 + 1)
      BY <3>1
    <3>3. z \div 4 <= (z + 1) \div 4 /\ z \div 400 <= (z + 1) \div 400
      OBVIOUS
    <3>4. z + 1 = n + 1831
      BY <3>1
    <3>5. a = z \div 4 /\ b = z \div 100 /\ c = z \div 400
      BY <1>3, <3>1
    <3>6. f = (z + 1) \div 4 /\ g = (z + 1) \div 100 /\ h = (z + 1) \div 400
      BY <2>1, <3>4
    <3> QED  BY <3>2, <3>3, <3>5, <3>6
  <2> QED  BY <2>1, <2>2, <2>3
<1>5. s < x /\ x <= t
  BY <1>1, <1>2, <1>3, <1>4
<1> QED  BY <1>1, <1>4, <1>5

\* The years of the pattern that begins with 1210, but the last: those of 1831 to
\* 2255 of the other calendar.
Pattern == 1210..1633

\* A leap year is a day longer.
YearEndsAt(first, next, leap) == first \in Int /\ next = first + (IF leap THEN 366 ELSE 365)

LEMMA YearEnds ==
    ASSUME NEW y \in Pattern
    PROVE  YearEndsAt(Cal!NewYear(y), Cal!NewYear(y + 1), Cal!IsJalaliLeap(y))
<1>0. PICK n \in 0..423 : y = n + 1210 /\ y + 1 = n + 1211
  <2>1. y - 1210 \in 0..423 /\ y = (y - 1210) + 1210 /\ y + 1 = (y - 1210) + 1211
    BY DEF Pattern
  <2> QED  BY <2>1
<1>1. n \in 0..424 /\ n + 1 \in 0..424 /\ (n + 1) + 1210 = n + 1211 /\ (n + 1) + 1830 = n + 1831
  OBVIOUS
<1>2. PICK l \in Int, k \in Int : l = LeapsBy(n) /\ k = LeapsBy(n + 1)
  <2>1. LeapsBy(n) \in Nat /\ LeapsBy(n + 1) \in Nat
    BY <1>1, LeapsCount
  <2> QED  BY <2>1
<1>3. Cal!NewYear(n + 1210) = 365 * (n + 1830) + 523 + l
  BY <1>1, <1>2, NewYearIs
<1>4. Cal!NewYear(n + 1211) = 365 * (n + 1831) + 523 + k
  <2>1. Cal!NewYear((n + 1) + 1210) = 365 * ((n + 1) + 1830) + 523 + LeapsBy(n + 1)
    BY <1>1, NewYearIs
  <2> QED  BY <1>1, <1>2, <2>1
<1>5. k = l + (IF n % 33 \in {0, 4, 8, 12, 16, 20, 24, 28} THEN 1 ELSE 0)
  <2>1. Grown(n, LeapsBy(n), LeapsBy(n + 1))
    BY <1>1, LeapsGrow
  <2> QED  BY <1>2, <2>1 DEF Grown
<1>6. Cal!IsJalaliLeap(n + 1210) <=> n % 33 \in {0, 4, 8, 12, 16, 20, 24, 28}
  <2>1. Shaped(n, Cal!YearShape(n + 1210))
    BY <1>1, ShapeIs
  <2> QED  BY <2>1 DEF Shaped, Cal!IsJalaliLeap
<1> QED  BY <1>0, <1>3, <1>4, <1>5, <1>6 DEF YearEndsAt

\* The date of the k-th day of a year.
DateOf(y, k) ==
    IF k < 186 THEN <<y, k \div 31 + 1, (k % 31) + 1>>
    ELSE <<y, (k - 186) \div 30 + 7, ((k - 186) % 30) + 1>>

LEMMA ToJalaliIs ==
    ASSUME NEW y \in Pattern, NEW day \in Int, Cal!NewYear(y) <= day, day < Cal!NewYear(y + 1)
    PROVE  Cal!ToJalali(day) = DateOf(y, day - Cal!NewYear(y))
<1>0. PICK n \in 0..423 : y = n + 1210 /\ y + 1 = n + 1211
  <2>1. y - 1210 \in 0..423 /\ y = (y - 1210) + 1210 /\ y + 1 = (y - 1210) + 1211
    BY DEF Pattern
  <2> QED  BY <2>1
<1>1. n \in 0..424 /\ n + 1 \in 0..424 /\ (n + 1) + 1210 = n + 1211 /\ (n + 1) + 1831 = n + 1832 /\ (n + 1) + 1832 = n + 1833
  OBVIOUS
<1>2. PICK x \in Int, z \in Int : x = Cal!NewYear(n + 1210) /\ z = Cal!NewYear(n + 1211)
  <2>1. Cal!NewYear(n + 1210) \in Int /\ Cal!NewYear((n + 1) + 1210) \in Int
    BY <1>1, NewYearFits
  <2> QED  BY <1>1, <2>1
<1>3. PICK s \in Int, t \in Int, u \in Int :
         s = Cal!DaysBefore(n + 1831) /\ t = Cal!DaysBefore(n + 1832) /\ u = Cal!DaysBefore(n + 1833)
  BY DEF Cal!DaysBefore
<1>4. s < x /\ z <= u
  <2>1. Cal!DaysBefore(n + 1831) < Cal!NewYear(n + 1210)
    BY <1>1, NewYearFits
  <2>2. Cal!NewYear((n + 1) + 1210) <= Cal!DaysBefore((n + 1) + 1832)
    BY <1>1, NewYearFits
  <2> QED  BY <1>1, <1>2, <1>3, <2>1, <2>2
<1> DEFINE gy == Cal!YearOf(day)
           jy == IF day < Cal!NewYear(gy - 621) THEN gy - 622 ELSE gy - 621
<1>5. jy = y
  <2>1. CASE day <= t
    <3>1. PICK w \in Nat : w = n + 1830 /\ w + 1 = n + 1831 /\ w + 2 = n + 1832
      OBVIOUS
    <3>2. gy = w + 1
      <4>1. Cal!DaysBefore(w + 1) < day /\ day <= Cal!DaysBefore(w + 2)
        BY <1>0, <1>2, <1>3, <1>4, <2>1, <3>1
      <4> QED  BY <4>1, YearOfIs
    <3>3. gy = n + 1831 /\ gy - 621 = n + 1210
      BY <3>1, <3>2
    <3> HIDE DEF gy
    <3> QED  BY <1>0, <1>2, <3>3
  <2>2. CASE t < day
    <3>1. PICK w \in Nat : w = n + 1831 /\ w + 1 = n + 1832 /\ w + 2 = n + 1833
      OBVIOUS
    <3>2. gy = w + 1
      <4>1. Cal!DaysBefore(w + 1) < day /\ day <= Cal!DaysBefore(w + 2)
        BY <1>0, <1>2, <1>3, <1>4, <2>2, <3>1
      <4> QED  BY <4>1, YearOfIs
    <3>3. gy = n + 1832 /\ gy - 621 = n + 1211 /\ gy - 622 = n + 1210
      BY <3>1, <3>2
    <3> HIDE DEF gy
    <3> QED  BY <1>0, <1>2, <3>3
  <2> QED  BY <2>1, <2>2
<1>6. Cal!ToJalali(day) = DateOf(jy, day - Cal!NewYear(jy))
  BY DEF Cal!ToJalali, DateOf
<1> HIDE DEF jy
<1> QED  BY <1>5, <1>6

\* Months and days of a year, and the days of the year.
MonthLength(leap, m) == IF m <= 6 THEN 31 ELSE IF m < 12 \/ leap THEN 30 ELSE 29
DaysOfYear(leap) == {x \in (1..12) \X (1..31) : x[2] <= MonthLength(leap, x[1])}
DayOf(m, d) == (IF m <= 6 THEN (m - 1) * 31 ELSE (m - 7) * 30 + 186) + d - 1

DatesFit(leap, last, y) ==
    /\ \A m \in 1..12, d \in 1..31 : d <= MonthLength(leap, m) =>
          DayOf(m, d) \in 0..last /\ DateOf(y, DayOf(m, d)) = <<y, m, d>>
    /\ \A k \in 0..last : \E m \in 1..12, d \in 1..31 : d <= MonthLength(leap, m) /\ DayOf(m, d) = k

LEMMA DatesMatch ==
    ASSUME NEW leap \in BOOLEAN, NEW last \in Int, last = (IF leap THEN 365 ELSE 364), NEW y
    PROVE  DatesFit(leap, last, y)
<1>1. ASSUME NEW m \in 1..12, NEW d \in 1..31, d <= MonthLength(leap, m)
      PROVE  /\ DayOf(m, d) \in 0..last
             /\ DateOf(y, DayOf(m, d)) = <<y, m, d>>
  <2>1. CASE m <= 6
    <3>1. PICK k \in Int : k = (m - 1) * 31 + (d - 1) /\ k < 186 /\ 0 <= k
      BY <2>1
    <3>2. DayOf(m, d) = k
      BY <2>1, <3>1 DEF DayOf
    <3>3. k \div 31 = m - 1 /\ k % 31 = d - 1
      BY <3>1
    <3> QED  BY <3>1, <3>2, <3>3 DEF DateOf
  <2>2. CASE m > 6
    <3>1. d <= 30 /\ (m = 12 /\ ~leap => d <= 29)
      BY <1>1, <2>2 DEF MonthLength
    <3>2. PICK k \in Int : k = (m - 7) * 30 + 186 + (d - 1) /\ 186 <= k /\ k <= 365 /\ (~leap => k <= 364)
      BY <2>2, <3>1
    <3>3. DayOf(m, d) = k
      BY <2>2, <3>2 DEF DayOf
    <3>4. (k - 186) \div 30 = m - 7 /\ (k - 186) % 30 = d - 1
      BY <3>1, <3>2
    <3> QED  BY <3>2, <3>3, <3>4 DEF DateOf
  <2> QED  BY <2>1, <2>2
<1>2. ASSUME NEW k \in 0..last
      PROVE  \E m \in 1..12, d \in 1..31 : d <= MonthLength(leap, m) /\ DayOf(m, d) = k
  <2>1. CASE k < 186
    <3>1. PICK q \in Int, r \in Int : q = k \div 31 /\ r = k % 31 /\ k = 31 * q + r /\ q \in 0..5 /\ r \in 0..30
      <4>1. k \div 31 \in 0..5 /\ k % 31 \in 0..30 /\ k = 31 * (k \div 31) + (k % 31)
        BY <2>1
      <4> QED  BY <4>1
    <3>2. q + 1 \in 1..12 /\ r + 1 \in 1..31 /\ r + 1 <= MonthLength(leap, q + 1) /\ DayOf(q + 1, r + 1) = k
      BY <3>1 DEF MonthLength, DayOf
    <3> QED  BY <3>2
  <2>2. CASE k >= 186
    <3>1. PICK q \in Int, r \in Int : k = 30 * q + r + 186 /\ q \in 0..5 /\ r \in 0..29
      <4>1. PICK j \in 0..179 : k = j + 186
        BY <2>2
      <4>2. j \div 30 \in 0..5 /\ j % 30 \in 0..29 /\ j = 30 * (j \div 30) + (j % 30)
        OBVIOUS
      <4> QED  BY <4>1, <4>2
    <3>2. q = 5 /\ ~leap => r <= 28
      BY <3>1
    <3>3. q + 7 \in 1..12 /\ r + 1 \in 1..31 /\ r + 1 <= MonthLength(leap, q + 7) /\ DayOf(q + 7, r + 1) = k
      BY <3>1, <3>2 DEF MonthLength, DayOf
    <3> QED  BY <3>3
  <2> QED  BY <2>1, <2>2
<1> QED  BY <1>1, <1>2, Zenon DEF DatesFit

RoundTrips(y) ==
    LET leap == Cal!IsJalaliLeap(y)
        length(m) == IF m <= 6 THEN 31 ELSE IF m < 12 \/ leap THEN 30 ELSE 29
        days == {x \in (1..12) \X (1..31) : x[2] <= length(x[1])}
    IN  /\ \A x \in days : Cal!ToJalali(Cal!ToGregorian(y, x[1], x[2])) = <<y, x[1], x[2]>>
        /\ {Cal!ToGregorian(y, x[1], x[2]) : x \in days} = Cal!NewYear(y)..(Cal!NewYear(y + 1) - 1)

LEMMA YearRoundTrips ==
    ASSUME NEW y \in Pattern
    PROVE  RoundTrips(y)
<1> DEFINE leap == Cal!IsJalaliLeap(y)
           length(m) == IF m <= 6 THEN 31 ELSE IF m < 12 \/ leap THEN 30 ELSE 29
           days == {x \in (1..12) \X (1..31) : x[2] <= length(x[1])}
           first == Cal!NewYear(y)
           next == Cal!NewYear(y + 1)
<1>1. YearEndsAt(first, next, leap)
  BY YearEnds
<1>2. ASSUME NEW g \in Int, first <= g, g < next PROVE Cal!ToJalali(g) = DateOf(y, g - first)
  BY <1>2, ToJalaliIs
<1>3. \A m \in 1..12, d \in 1..31 : Cal!ToGregorian(y, m, d) = first + DayOf(m, d)
  BY <1>1 DEF Cal!ToGregorian, DayOf, YearEndsAt
<1>a. PICK l \in BOOLEAN : l <=> leap
  <2> HIDE DEF leap
  <2>1. CASE leap
    <3>1. TRUE \in BOOLEAN /\ (TRUE <=> leap)
      BY <2>1
    <3> QED  BY <3>1, Zenon
  <2>2. CASE ~leap
    <3>1. FALSE \in BOOLEAN /\ (FALSE <=> leap)
      BY <2>2
    <3> QED  BY <3>1, Zenon
  <2> QED  BY <2>1, <2>2
<1>b. PICK z \in Int : z = (IF l THEN 365 ELSE 364)
  <2> HIDE DEF leap
  <2>1. (IF l THEN 365 ELSE 364) \in Int
    OBVIOUS
  <2> QED  BY <2>1
<1>4. (l <=> leap) /\ z = (IF l THEN 365 ELSE 364)
  BY <1>a, <1>b
<1>5. days = DaysOfYear(l)
  <2> HIDE DEF leap
  <2>1. \A m : length(m) = MonthLength(l, m)
    <3> SUFFICES ASSUME NEW m PROVE length(m) = MonthLength(l, m)
      OBVIOUS
    <3>1. CASE leap
      BY <1>4, <3>1 DEF MonthLength
    <3>2. CASE ~leap
      BY <1>4, <3>2 DEF MonthLength
    <3> QED  BY <3>1, <3>2
  <2> HIDE DEF length
  <2> QED  BY <2>1 DEF DaysOfYear
<1> HIDE DEF leap, length, days, first, next
<1>6. PICK f \in Int : f = first /\ next = f + z + 1
  BY <1>1, <1>4 DEF YearEndsAt
<1>7. DatesFit(l, z, y)
  BY <1>4, DatesMatch
<1>8. \A m \in 1..12, d \in 1..31 : d <= MonthLength(l, m) =>
         /\ Cal!ToGregorian(y, m, d) \in f..(f + z)
         /\ Cal!ToJalali(Cal!ToGregorian(y, m, d)) = <<y, m, d>>
  <2> SUFFICES ASSUME NEW m \in 1..12, NEW d \in 1..31, d <= MonthLength(l, m)
               PROVE  /\ Cal!ToGregorian(y, m, d) \in f..(f + z)
                      /\ Cal!ToJalali(Cal!ToGregorian(y, m, d)) = <<y, m, d>>
    OBVIOUS
  <2>1. DayOf(m, d) \in 0..z /\ DateOf(y, DayOf(m, d)) = <<y, m, d>>
    BY <1>7, Zenon DEF DatesFit
  <2>2. PICK k \in 0..z : k = DayOf(m, d)
    BY <2>1
  <2>3. f + k \in f..(f + z) /\ f + k \in Int /\ f <= f + k /\ f + k < f + z + 1 /\ (f + k) - f = k
    BY <1>6
  <2>4. Cal!ToJalali(f + k) = DateOf(y, k)
    BY <1>2, <1>6, <2>3
  <2>5. Cal!ToGregorian(y, m, d) = f + k
    BY <1>3, <1>6, <2>2
  <2> QED  BY <2>1, <2>2, <2>3, <2>4, <2>5
<1>9. ASSUME NEW g \in f..(f + z)
      PROVE  \E m \in 1..12, d \in 1..31 : d <= MonthLength(l, m) /\ Cal!ToGregorian(y, m, d) = g
  <2>1. PICK k \in 0..z : g = f + k
    <3>1. g - f \in 0..z /\ g = f + (g - f)
      BY <1>6
    <3> QED  BY <3>1
  <2>2. PICK m \in 1..12, d \in 1..31 : d <= MonthLength(l, m) /\ DayOf(m, d) = k
    BY <1>7, Zenon DEF DatesFit
  <2>3. Cal!ToGregorian(y, m, d) = g
    BY <1>3, <1>6, <2>1, <2>2
  <2> QED  BY <2>2, <2>3
<1>10. \A x \in days : Cal!ToJalali(Cal!ToGregorian(y, x[1], x[2])) = <<y, x[1], x[2]>>
  BY <1>5, <1>8 DEF DaysOfYear
<1>11. {Cal!ToGregorian(y, x[1], x[2]) : x \in days} = f..(f + z)
  <2>1. \A x \in days : Cal!ToGregorian(y, x[1], x[2]) \in f..(f + z)
    BY <1>5, <1>8 DEF DaysOfYear
  <2>2. ASSUME NEW g \in f..(f + z) PROVE \E x \in days : Cal!ToGregorian(y, x[1], x[2]) = g
    <3>1. PICK m \in 1..12, d \in 1..31 : d <= MonthLength(l, m) /\ Cal!ToGregorian(y, m, d) = g
      BY <1>9
    <3> DEFINE x == <<m, d>>
    <3>2. x[1] = m /\ x[2] = d /\ x \in (1..12) \X (1..31)
      OBVIOUS
    <3> HIDE DEF x
    <3>3. x \in days
      BY <1>5, <3>1, <3>2 DEF DaysOfYear
    <3> QED  BY <3>1, <3>2, <3>3
  <2> QED  BY <2>1, <2>2
<1>12. f..(f + z) = first..(next - 1)
  BY <1>6
<1> QED  BY <1>10, <1>11, <1>12, Zenon DEF RoundTrips, leap, length, days, first, next
=============================================================================
