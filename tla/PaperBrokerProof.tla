-------------------------- MODULE PaperBrokerProof --------------------------
(***************************************************************************)
(* Proofs about the paper broker and its books, for any set of symbols,    *)
(* any number of overlapping requests, any prices and fees, and any        *)
(* bounds. When requests do not overlap and the contract of an order is    *)
(* not delisted under it, every order, settlement and reset is one posting *)
(* of PaperLedger and the books balance; with any number of overlapping    *)
(* requests the order history shows only applied fills.                    *)
(***************************************************************************)
EXTENDS PaperBrokerProps, FiniteSetTheorems, WellFoundedInduction, TLAPS

\* What the position formulas return is a row again.
LEMMA RowsClosed ==
    /\ NoPosition \in Rows
    /\ \A w \in Rows, q, p \in Nat : AfterBuy(w, q, p) \in Rows
    /\ \A w \in Rows, q \in Nat : AfterSell(w, q) \in Rows
<1>1. NoPosition \in Rows
  BY DEF NoPosition, Rows
<1>2. ASSUME NEW w \in Rows, NEW q \in Nat, NEW p \in Nat
      PROVE  AfterBuy(w, q, p) \in Rows
  <2>1. CASE ~IsOpen(w)
    BY <2>1 DEF AfterBuy, Rows
  <2>2. CASE IsOpen(w)
    <3> DEFINE n == w.quantity + q
               c == w.quantity * w.average_price + q * p
    <3>1. n \in Nat \ {0} /\ w.quantity + q = n
      BY <2>2 DEF IsOpen, Rows
    <3>2. c \in Nat
      BY DEF Rows
    <3>3. c \div n \in Nat
      <4> HIDE DEF c, n
      <4> QED  BY <3>1, <3>2
    <3>4. AfterBuy(w, q, p) = [quantity |-> n, average_price |-> c \div n]
      BY <2>2 DEF AfterBuy
    <3> HIDE DEF c, n
    <3> QED  BY <3>1, <3>3, <3>4 DEF Rows
  <2> QED  BY <2>1, <2>2
<1>3. ASSUME NEW w \in Rows, NEW q \in Nat
      PROVE  AfterSell(w, q) \in Rows
  BY <1>1 DEF AfterSell, Rows
<1> QED  BY <1>1, <1>2, <1>3

\* Worths, fees and profits are numbers.
LEMMA MoneyTypes ==
    /\ \A p, q, z \in Nat : Worth(p, q, z) \in Nat /\ Notional(p, q, z) \in Nat
    /\ \A w \in Nat : EntryCost(w) \in Nat /\ ExitCost(w) \in Nat
    /\ \A w \in Rows, q, p, z \in Nat : TradePnl(w, q, p, z) \in Int
<1>1. ASSUME NEW p \in Nat, NEW q \in Nat, NEW z \in Nat
      PROVE  Worth(p, q, z) \in Nat /\ Notional(p, q, z) \in Nat
  BY MoneyAssumption DEF Worth, Notional
<1>2. ASSUME NEW w \in Nat
      PROVE  EntryCost(w) \in Nat /\ ExitCost(w) \in Nat
  BY MoneyAssumption DEF EntryCost, ExitCost
<1>3. ASSUME NEW w \in Rows, NEW q \in Nat, NEW p \in Nat, NEW z \in Nat
      PROVE  TradePnl(w, q, p, z) \in Int
  <2>1. ExitCost(Worth(p, q, z)) \in Nat
    BY <1>1, <1>2
  <2>2. RateScale \in Int /\ w.average_price \in Int
    BY MoneyAssumption DEF Rows
  <2>3. p - w.average_price \in Int
    BY <2>2
  <2>4. RateScale * (p - w.average_price) \in Int
    BY <2>2, <2>3
  <2>5. RateScale * (p - w.average_price) * q \in Int
    BY <2>4
  <2>6. RateScale * (p - w.average_price) * q * z \in Int
    BY <2>5
  <2> QED  BY <2>1, <2>6 DEF TradePnl
<1> QED  BY <1>1, <1>2, <1>3

LEMMA PriceTypes == \A p \in Prices \union {NoPrice} : p \in Nat
<1>1. \A p \in Prices : p \in Nat
  BY MoneyAssumption
<1>2. NoPrice \in Nat
  BY DEF NoPrice
<1> QED  BY <1>1, <1>2, Zenon

LEMMA LocalsStart == NoLocals \in Locals /\ NoLeg \in Legs /\ NewContract \in Contracts
<1>1. NoLeg \in Legs
  BY MoneyAssumption DEF NoLeg, Legs, Sides
<1>2. NewContract \in Contracts
  BY DEF NewContract, Contracts, NoPrice
<1> QED  BY <1>1, <1>2, RowsClosed DEF NoLocals, Locals

-----------------------------------------------------------------------------
(* Type correctness.                                                       *)

LEMMA EmptyTables ==
    /\ EmptyTrades \in [closed : Nat, pnl : Int]
    /\ EmptyOrders \in [bought : Nat, sold : Nat, entryFees : Nat]
BY DEF EmptyTrades, EmptyOrders

\* Adding to the totals of a table keeps them totals.
LEMMA TablesClosed ==
    /\ \A t \in [closed : Nat, pnl : Int], q \in Nat, i \in Int :
         AddTrade(t, q, i) \in [closed : Nat, pnl : Int]
    /\ \A o \in [bought : Nat, sold : Nat, entryFees : Nat], q, f \in Nat :
         /\ AddBuyOrder(o, q, f) \in [bought : Nat, sold : Nat, entryFees : Nat]
         /\ AddSellOrder(o, q) \in [bought : Nat, sold : Nat, entryFees : Nat]
<1>1. ASSUME NEW t \in [closed : Nat, pnl : Int], NEW q \in Nat, NEW i \in Int
      PROVE  AddTrade(t, q, i) \in [closed : Nat, pnl : Int]
  BY DEF AddTrade
<1>2. ASSUME NEW o \in [bought : Nat, sold : Nat, entryFees : Nat],
             NEW q \in Nat, NEW f \in Nat
      PROVE  /\ AddBuyOrder(o, q, f) \in [bought : Nat, sold : Nat, entryFees : Nat]
             /\ AddSellOrder(o, q) \in [bought : Nat, sold : Nat, entryFees : Nat]
  BY DEF AddBuyOrder, AddSellOrder
<1> QED  BY <1>1, <1>2

LEMMA InitType == Init => TypeOK
<1> SUFFICES ASSUME Init PROVE TypeOK
  OBVIOUS
<1>1. pc \in [Requests -> Steps]
  BY DEF Init, Steps
<1>2. req \in [Requests -> Locals] /\ positions \in [Symbols -> Rows]
  BY LocalsStart, RowsClosed DEF Init
<1>3. contract \in [Symbols -> Contracts] /\ paid \in [Symbols -> Nat]
  BY LocalsStart DEF Init
<1>4. /\ trades \in [Symbols -> [closed : Nat, pnl : Int]]
      /\ orders \in [Symbols -> [bought : Nat, sold : Nat, entryFees : Nat]]
  BY EmptyTables DEF Init
<1>5. cash \in Int /\ crashes \in Nat
  BY DEF Init
<1>6. opened \in BOOLEAN
  BY Zenon DEF Init
<1>7. \A r \in Requests : pc[r] # "check"
  BY DEF Init
<1>8. premiums \in [Symbols -> SUBSET Nat]
  BY DEF Init
<1> QED  BY <1>1, <1>2, <1>3, <1>4, <1>5, <1>6, <1>7, <1>8 DEF TypeOK

\* A request's leg is well formed, and so are its worth and its profit.
LEMMA LegTypes ==
    ASSUME TypeOK, NEW r \in Requests
    PROVE  /\ req[r] \in Locals
           /\ req[r].leg \in Legs
           /\ LegWorth(r) \in Nat
           /\ LegPnl(r) \in Int
<1>1. req[r] \in Locals /\ req[r].leg \in Legs /\ req[r].row \in Rows
  BY DEF TypeOK, Locals
<1>2. ContractSize[req[r].leg.symbol] \in Nat
  BY <1>1, MoneyAssumption DEF Legs
<1> QED  BY <1>1, <1>2, MoneyTypes DEF LegWorth, LegPnl, Legs

LEMMA StepType ==
    ASSUME TypeOK, [Next]_vars
    PROVE  TypeOK'
<1> USE DEF Goto, Finish, store
<1>0. \A r \in Requests : req[r] \in Locals
  BY DEF TypeOK
<1>1. ASSUME NEW r \in Requests, Start(r)
      PROVE  TypeOK'
  <2>1. PICK a \in Asks : req' = [req EXCEPT ![r].ask = a]
    BY <1>1 DEF Start
  <2>2. a \in OrderAsks \union [kind : {"none", "view", "reset"}]
    BY BrokerAssumption DEF Asks
  <2>3. [req[r] EXCEPT !.ask = a] \in Locals
    BY <1>0, <2>2 DEF Locals
  <2>4. req' \in [Requests -> Locals]
    BY <2>1, <2>3 DEF TypeOK
  <2>5. pc' \in [Requests -> Steps]
    BY <1>1 DEF Start, TypeOK, Steps
  <2> QED  BY <1>1, <2>4, <2>5 DEF Start, TypeOK
<1>2. ASSUME NEW r \in Requests, InsertAccount(r)
      PROVE  TypeOK'
  <2>1. req' \in [Requests -> Locals] /\ pc' \in [Requests -> Steps]
    BY <1>2, LocalsStart DEF InsertAccount, TypeOK, Steps
  <2>2. \A t \in Requests : pc'[t] = "check" => req'[t].ask \in OrderAsks
    BY <1>2 DEF InsertAccount, TypeOK
  <2> QED  BY <1>2, <2>1, <2>2, MoneyAssumption DEF InsertAccount, TypeOK
<1>3. ASSUME NEW r \in Requests, Reset(r)
      PROVE  TypeOK'
  <2>1. /\ trades' \in [Symbols -> [closed : Nat, pnl : Int]]
        /\ orders' \in [Symbols -> [bought : Nat, sold : Nat, entryFees : Nat]]
    BY <1>3, EmptyTables DEF Reset
  <2>2. /\ positions' \in [Symbols -> Rows] /\ paid' \in [Symbols -> Nat]
        /\ premiums' \in [Symbols -> SUBSET Nat]
    BY <1>3, RowsClosed DEF Reset
  <2>3. pc' \in [Requests -> Steps] /\ req' \in [Requests -> Locals]
    BY <1>3, LocalsStart DEF Reset, TypeOK, Steps
  <2> QED  BY <1>3, <2>1, <2>2, <2>3, MoneyAssumption DEF Reset, TypeOK
<1>4. ASSUME NEW r \in Requests, ListPositions(r)
      PROVE  TypeOK'
  <2>1. [req[r] EXCEPT !.rows = positions, !.chain = contract] \in Locals
    BY <1>0 DEF TypeOK, Locals
  <2>2. req' \in [Requests -> Locals]
    BY <1>4, <2>1 DEF ListPositions, TypeOK
  <2>3. \A t \in Requests : pc'[t] = "check" => req'[t].ask \in OrderAsks
    BY <1>4 DEF ListPositions, TypeOK
  <2> QED  BY <1>4, <2>2, <2>3 DEF ListPositions, TypeOK, Steps
<1>5. ASSUME NEW r \in Requests, NEW s \in Symbols, LeaveOpen(r, s)
      PROVE  TypeOK'
  <2>1. [req[r] EXCEPT !.rows[s] = NoPosition] \in Locals
    BY <1>0, RowsClosed DEF Locals
  <2>2. req' = [req EXCEPT ![r] = [req[r] EXCEPT !.rows[s] = NoPosition]]
    BY <1>5 DEF LeaveOpen
  <2>3. req' \in [Requests -> Locals]
    BY <2>1, <2>2 DEF TypeOK
  <2>4. \A t \in Requests : pc'[t] = "check" => req'[t].ask \in OrderAsks
    <3>1. \A t \in Requests : req'[t].ask = req[t].ask
      BY <1>0, <2>2 DEF Locals
    <3> QED  BY <1>5, <3>1 DEF LeaveOpen, TypeOK
  <2> QED  BY <1>5, <2>3, <2>4 DEF LeaveOpen, TypeOK
<1>6. ASSUME NEW r \in Requests, NEW s \in Symbols, BeginSettlement(r, s)
      PROVE  TypeOK'
  <2> DEFINE l == [symbol |-> s, side |-> "expiry", price |-> req[r].chain[s].last_price,
                   quantity |-> req[r].rows[s].quantity, size |-> ContractSize[s]]
             new == [req[r] EXCEPT !.row = req[r].rows[s], !.rows[s] = NoPosition,
                                   !.seen = cash, !.leg = l]
  <2>1. req[r].rows[s] \in Rows /\ req[r].chain[s] \in Contracts
    BY <1>0 DEF Locals
  <2>2. req[r].chain[s].last_price \in Nat
    BY <2>1, PriceTypes DEF Contracts
  <2>3. l \in Legs
    BY <2>1, <2>2, MoneyAssumption DEF Rows, Legs, Sides
  <2>4. req' = [req EXCEPT ![r] = new]
    BY <1>6 DEF BeginSettlement
  <2> HIDE DEF l
  <2>5. new \in Locals
    BY <1>0, <2>1, <2>3, RowsClosed DEF TypeOK, Locals
  <2> HIDE DEF new
  <2>6. req' \in [Requests -> Locals]
    BY <2>4, <2>5 DEF TypeOK
  <2>7. pc' \in [Requests -> Steps]
    BY <1>6 DEF BeginSettlement, TypeOK, Steps
  <2> QED  BY <1>6, <2>6, <2>7 DEF BeginSettlement, TypeOK
<1>7. ASSUME NEW r \in Requests, EndSettlement(r)
      PROVE  TypeOK'
  <2>1. req' \in [Requests -> Locals] /\ pc' \in [Requests -> Steps]
    BY <1>7, LocalsStart DEF EndSettlement, TypeOK, Steps
  <2>2. req[r].ask.kind = "order" => req[r].ask \in OrderAsks
    BY <1>0 DEF Locals
  <2>3. \A t \in Requests : pc'[t] = "check" => req'[t].ask \in OrderAsks
    BY <1>7, <2>2 DEF EndSettlement, TypeOK
  <2> QED  BY <1>7, <2>1, <2>3 DEF EndSettlement, TypeOK
<1>8. ASSUME NEW r \in Requests, RejectOrder(r)
      PROVE  TypeOK'
  BY <1>8, LocalsStart DEF RejectOrder, TypeOK, Steps
<1>9. ASSUME NEW r \in Requests, FillOrder(r)
      PROVE  TypeOK'
  <2> DEFINE a == req[r].ask
             l(price, filled) == [symbol |-> a.symbol, side |-> a.side, price |-> price,
                                  quantity |-> filled, size |-> ContractSize[a.symbol]]
  <2>1. PICK price \in Prices, filled \in 1..a.quantity :
           req' = [req EXCEPT ![r] = [NoLocals EXCEPT !.leg = l(price, filled)]]
    BY <1>9 DEF FillOrder
  <2>2. a \in OrderAsks
    BY <1>9 DEF FillOrder, TypeOK
  <2>3. l(price, filled) \in Legs
    BY <2>2, MoneyAssumption DEF OrderAsks, Legs, Sides, Quantities
  <2>4. [NoLocals EXCEPT !.leg = l(price, filled)] \in Locals
    BY <2>3, LocalsStart DEF Locals
  <2>5. req' \in [Requests -> Locals]
    BY <2>1, <2>4 DEF TypeOK
  <2>6. pc' \in [Requests -> Steps]
    BY <1>9 DEF FillOrder, TypeOK, Steps
  <2> QED  BY <1>9, <2>5, <2>6 DEF FillOrder, TypeOK
<1>10. ASSUME NEW r \in Requests, BuyReadCash(r)
      PROVE  TypeOK'
  <2> DEFINE small == [req[r].leg EXCEPT !.size = 1]
  <2>0. small \in Legs
    BY LegTypes DEF Legs
  <2>1. /\ [req[r] EXCEPT !.seen = cash] \in Locals
        /\ [req[r] EXCEPT !.seen = cash, !.leg = small] \in Locals
    BY <1>0, <2>0 DEF Locals, TypeOK
  <2>2. req' \in [Requests -> Locals]
    BY SMTT(30), <1>10, <2>1 DEF BuyReadCash, TypeOK
  <2> QED  BY <1>10, <2>2 DEF BuyReadCash, TypeOK, Steps
<1>11. ASSUME NEW r \in Requests, BuyDebit(r)
      PROVE  TypeOK'
  <2>1. cash' \in Int
    BY <1>11, LegTypes, MoneyTypes DEF BuyDebit, Legs, Locals
  <2>2. paid' \in [Symbols -> Nat]
    BY <1>11, LegTypes DEF BuyDebit, TypeOK, Legs
  <2>3. premiums' \in [Symbols -> SUBSET Nat]
    BY <1>11, LegTypes DEF BuyDebit, TypeOK, Legs
  <2> QED  BY <1>11, <2>1, <2>2, <2>3 DEF BuyDebit, TypeOK, Steps
<1>12. ASSUME NEW r \in Requests, BuyReadRow(r)
      PROVE  TypeOK'
  <2>1. [req[r] EXCEPT !.row = positions[req[r].leg.symbol]] \in Locals
    BY LegTypes DEF Locals, Legs, TypeOK
  <2> QED  BY <1>12, <2>1 DEF BuyReadRow, TypeOK, Steps
<1>13. ASSUME NEW r \in Requests, BuyWriteRow(r)
      PROVE  TypeOK'
  <2>1. AfterBuy(req[r].row, req[r].leg.quantity, req[r].leg.price) \in Rows
    BY LegTypes, RowsClosed DEF Locals, Legs
  <2> QED  BY <1>13, <2>1 DEF BuyWriteRow, TypeOK, Steps
<1>14. ASSUME NEW r \in Requests, SellReadRow(r)
      PROVE  TypeOK'
  <2>1. [req[r] EXCEPT !.row = positions[req[r].leg.symbol]] \in Locals
    BY LegTypes DEF Locals, Legs, TypeOK
  <2> QED  BY <1>14, <2>1, LocalsStart DEF SellReadRow, TypeOK, Steps
<1>15. ASSUME NEW r \in Requests, SellReadCash(r)
      PROVE  TypeOK'
  <2>1. [req[r] EXCEPT !.seen = cash] \in Locals
    BY <1>0 DEF Locals, TypeOK
  <2> QED  BY <1>15, <2>1 DEF SellReadCash, TypeOK, Steps
<1>16. ASSUME NEW r \in Requests, Credit(r)
      PROVE  TypeOK'
  <2>1. cash' \in Int
    BY SMTT(30), <1>16, LegTypes, MoneyTypes DEF Credit, Legs, Locals
  <2> QED  BY <1>16, <2>1 DEF Credit, TypeOK, Steps
<1>17. ASSUME NEW r \in Requests, CloseRow(r)
      PROVE  TypeOK'
  <2>1. AfterSell(req[r].row, req[r].leg.quantity) \in Rows
    BY LegTypes, RowsClosed DEF Locals, Legs
  <2> QED  BY <1>17, <2>1, RowsClosed DEF CloseRow, TypeOK, Steps
<1>18. ASSUME NEW r \in Requests, RecordTrade(r)
      PROVE  TypeOK'
  <2>1. trades' \in [Symbols -> [closed : Nat, pnl : Int]]
    BY <1>18, LegTypes, TablesClosed DEF RecordTrade, TypeOK, Legs
  <2> QED  BY <1>18, <2>1 DEF RecordTrade, TypeOK, Steps
<1>19. ASSUME NEW r \in Requests, SaveOrder(r)
      PROVE  TypeOK'
  <2>1. EntryCost(LegWorth(r)) \in Nat
    BY LegTypes, MoneyTypes
  <2>2. orders' \in [Symbols -> [bought : Nat, sold : Nat, entryFees : Nat]]
    BY <1>19, <2>1, LegTypes, TablesClosed DEF SaveOrder, TypeOK, Legs
  <2> QED  BY <1>19, <2>2, LocalsStart DEF SaveOrder, TypeOK, Steps
<1>20. ASSUME NEW r \in Requests, Crash(r)
      PROVE  TypeOK'
  BY <1>20, LocalsStart DEF Crash, TypeOK, Steps
<1>21. ASSUME NEW s \in Symbols, Expire(s) \/ Delist(s)
      PROVE  TypeOK'
  <2>1. ASSUME NEW p \in Prices \union {NoPrice}
        PROVE  /\ [contract[s] EXCEPT !.expired = TRUE, !.last_price = p] \in Contracts
               /\ [contract[s] EXCEPT !.listed = FALSE] \in Contracts
    BY DEF TypeOK, Contracts
  <2>2. contract' \in [Symbols -> Contracts]
    BY <1>21, <2>1 DEF Expire, Delist, TypeOK
  <2> QED  BY <1>21, <2>2 DEF Expire, Delist, TypeOK
<1>22. CASE UNCHANGED vars
  BY <1>22 DEF vars, TypeOK
<1> QED
  BY <1>1, <1>2, <1>3, <1>4, <1>5, <1>6, <1>7, <1>8, <1>9, <1>10, <1>11, <1>12, <1>13,
     <1>14, <1>15, <1>16, <1>17, <1>18, <1>19, <1>20, <1>21, <1>22 DEF Next, Step

\* The tables and the requests' local variables stay well formed, however
\* the requests interleave and wherever they die.
THEOREM TypeCorrect == Spec => []TypeOK
<1>1. Init => TypeOK
  BY InitType
<1>2. TypeOK /\ [Next]_vars => TypeOK'
  BY StepType
<1> QED  BY <1>1, <1>2, PTL DEF Spec

-----------------------------------------------------------------------------
(* A weighted mean stays between the prices it averages.                   *)

LEMMA MulMono ==
    ASSUME NEW a \in Nat, NEW b \in Nat, NEW m \in Nat, a <= b
    PROVE  m * a <= m * b
OBVIOUS

LEMMA DivBounds ==
    ASSUME NEW c \in Nat, NEW n \in Nat \ {0}
    PROVE  /\ c \div n \in Nat
           /\ n * (c \div n) <= c
           /\ c < n * (c \div n) + n
<1>1. c \div n \in Nat
  OBVIOUS
<1>2. n * (c \div n) <= c
  OBVIOUS
<1>3. c < n * (c \div n) + n
  BY SMTT(30)
<1> QED  BY <1>1, <1>2, <1>3

LEMMA DivBetween ==
    ASSUME NEW c \in Nat, NEW n \in Nat \ {0}, NEW low \in Nat, NEW high \in Nat,
           n * low <= c, c <= n * high
    PROVE  low <= c \div n /\ c \div n <= high
<1> DEFINE k == c \div n
<1>1. k \in Nat /\ n * k <= c /\ c < n * k + n
  BY DivBounds
<1> HIDE DEF k
<1>2. ASSUME k < low PROVE FALSE
  <2>1. n * (k + 1) <= n * low
    BY <1>1, <1>2, MulMono
  <2>2. n * (k + 1) = n * k + n
    BY <1>1
  <2> QED  BY <1>1, <2>1, <2>2
<1>3. ASSUME high < k PROVE FALSE
  <2>1. n * (high + 1) <= n * k
    BY <1>1, <1>3, MulMono
  <2>2. n * (high + 1) = n * high + n
    OBVIOUS
  <2> QED  BY <1>1, <2>1, <2>2
<1>4. low <= k /\ k <= high
  BY <1>1, <1>2, <1>3
<1> QED  BY <1>4 DEF k

\* A weighted mean lies between any bounds of what it averages.
LEMMA MeanBetween ==
    ASSUME NEW m \in Nat, NEW a \in Nat, NEW q \in Nat, NEW p \in Nat,
           NEW low \in Nat, NEW high \in Nat, m > 0,
           low <= a, a <= high, low <= p, p <= high
    PROVE  /\ low <= (m * a + q * p) \div (m + q)
           /\ (m * a + q * p) \div (m + q) <= high
<1> DEFINE n == m + q
           c == m * a + q * p
<1>1. n \in Nat \ {0} /\ c \in Nat
  OBVIOUS
<1>2. n * low <= c
  <2>1. m * low <= m * a /\ q * low <= q * p
    BY MulMono
  <2>2. n * low = m * low + q * low
    OBVIOUS
  <2> QED  BY <2>1, <2>2
<1>3. c <= n * high
  <2>1. m * a <= m * high /\ q * p <= q * high
    BY MulMono
  <2>2. n * high = m * high + q * high
    OBVIOUS
  <2> QED  BY <2>1, <2>2
<1> HIDE DEF n, c
<1>4. low <= c \div n /\ c \div n <= high
  BY <1>1, <1>2, <1>3, DivBetween
<1> QED  BY <1>4 DEF n, c

\* The steps of a buy between its fill and its row.
Buying == {"buyReadCash", "buyDebit", "buyReadRow", "buyWriteRow"}

-----------------------------------------------------------------------------
(* One request at a time: nothing is sold or settled that was not paid for. *)

OneRequest == \A r, t \in Requests : r = t

\* What a request in flight knows of the row it is working on.
LegSound(r) ==
    LET l == req[r].leg
        sym == req[r].leg.symbol
        live == positions[req[r].leg.symbol]
    IN
    /\ pc[r] \in {"settle", "credit", "closeRow", "trade"} =>
         \A s \in Symbols : IsOpen(req[r].rows[s]) =>
            /\ req[r].rows[s] = positions[s]
            /\ pc[r] # "settle" => s # sym
    /\ pc[r] = "sellReadRow" => l.quantity <= live.quantity
    /\ pc[r] \in {"sellReadCash", "credit", "closeRow"} =>
         /\ req[r].row = live
         /\ l.quantity <= live.quantity
         /\ l.side = "expiry" => l.quantity = live.quantity
    /\ pc[r] \in {"buyReadRow", "buyWriteRow", "trade"} =>
         live.quantity + trades[sym].closed + l.quantity <= paid[sym]
    /\ pc[r] = "buyWriteRow" => req[r].row = live
    /\ pc[r] \in {"sellReadRow", "sellReadCash"} =>
         l.side # "expiry" /\ \A s \in Symbols : ~IsOpen(req[r].rows[s])

\* The strengthening: in the middle of a posting, the units in flight are
\* counted too, and the row read is the row stored.
PaidInv ==
    /\ TypeOK
    /\ UnitsArePaidFor
    /\ \A r \in Requests : LegSound(r)

LEMMA AfterBuyQuantity ==
    ASSUME NEW w \in Rows, NEW q \in Nat, NEW p \in Nat
    PROVE  AfterBuy(w, q, p).quantity = w.quantity + q
BY DEF AfterBuy, IsOpen, Rows

LEMMA AfterSellQuantity ==
    ASSUME NEW w \in Rows, NEW q \in Nat, q <= w.quantity
    PROVE  AfterSell(w, q).quantity = w.quantity - q
BY DEF AfterSell, NoPosition, Rows

\* Steps that leave the tables and the history alone keep the account sound.
LEMMA PaidUnchanged ==
    ASSUME UnitsArePaidFor, UNCHANGED <<positions, trades, paid>>
    PROVE  UnitsArePaidFor'
BY DEF UnitsArePaidFor

LEMMA PaidStep ==
    ASSUME OneRequest, PaidInv, [Next]_vars
    PROVE  PaidInv'
<1> USE DEF Goto, Finish, store
<1>0. TypeOK /\ TypeOK' /\ UnitsArePaidFor /\ \A t \in Requests : LegSound(t)
  BY StepType DEF PaidInv
<1>b. SUFFICES UnitsArePaidFor' /\ \A t \in Requests : LegSound(t)'
  BY <1>0 DEF PaidInv
<1>r. ASSUME NEW r \in Requests
      PROVE  /\ req[r] \in Locals /\ req[r].leg \in Legs
             /\ req[r].leg.symbol \in Symbols /\ req[r].leg.quantity \in Nat
             /\ req[r].leg.price \in Nat /\ req[r].row \in Rows
             /\ req[r].rows \in [Symbols -> Rows]
  BY <1>0 DEF TypeOK, Locals, Legs
<1>t. ASSUME NEW s \in Symbols
      PROVE  /\ positions[s] \in Rows /\ positions[s].quantity \in Nat
             /\ trades[s].closed \in Nat /\ paid[s] \in Nat
             /\ positions[s].quantity + trades[s].closed <= paid[s]
  BY <1>0 DEF TypeOK, Rows, UnitsArePaidFor
<1>1. ASSUME NEW r \in Requests, Start(r) \/ InsertAccount(r) \/ EndSettlement(r)
                                  \/ RejectOrder(r) \/ Crash(r) \/ SaveOrder(r)
      PROVE  UnitsArePaidFor' /\ \A t \in Requests : LegSound(t)'
  <2>1. UNCHANGED <<positions, trades, paid>>
    BY <1>1 DEF Start, InsertAccount, EndSettlement, RejectOrder, Crash, SaveOrder
  <2>2. pc'[r] \in {"idle", "insert", "started", "check"}
    BY <1>0, <1>1 DEF Start, InsertAccount, EndSettlement, RejectOrder, Crash, SaveOrder, TypeOK
  <2>3. \A t \in Requests : LegSound(t)'
    BY <2>2, OneRequest DEF LegSound, OneRequest
  <2> QED  BY <1>0, <2>1, <2>3, PaidUnchanged
<1>2. ASSUME NEW r \in Requests, Reset(r)
      PROVE  UnitsArePaidFor' /\ \A t \in Requests : LegSound(t)'
  <2>1. UnitsArePaidFor'
    BY <1>2 DEF Reset, UnitsArePaidFor, NoPosition, EmptyTrades
  <2>2. pc'[r] = "idle"
    BY <1>0, <1>2 DEF Reset, TypeOK
  <2> QED  BY <2>1, <2>2, OneRequest DEF LegSound, OneRequest
<1>3. ASSUME NEW r \in Requests, ListPositions(r)
      PROVE  UnitsArePaidFor' /\ \A t \in Requests : LegSound(t)'
  <2>1. UNCHANGED <<positions, trades, paid>> /\ pc'[r] = "settle" /\ req'[r].rows = positions
    BY <1>0, <1>3, <1>r DEF ListPositions, TypeOK, Locals
  <2>2. LegSound(r)'
    BY <2>1 DEF LegSound
  <2> QED  BY <1>0, <2>1, <2>2, PaidUnchanged, OneRequest DEF OneRequest
<1>4. ASSUME NEW r \in Requests, NEW s \in Symbols, LeaveOpen(r, s)
      PROVE  UnitsArePaidFor' /\ \A t \in Requests : LegSound(t)'
  <2>1. UNCHANGED <<positions, trades, paid>> /\ pc[r] = "settle" /\ pc'[r] = "settle"
    BY <1>4 DEF LeaveOpen
  <2>2. req'[r].rows = [req[r].rows EXCEPT ![s] = NoPosition]
    BY <1>0, <1>4, <1>r DEF LeaveOpen, TypeOK, Locals
  <2>3. \A t \in Symbols : IsOpen(req'[r].rows[t]) => req'[r].rows[t] = positions[t]
    BY <1>0, <1>r, <2>1, <2>2 DEF LegSound, IsOpen, NoPosition
  <2>4. LegSound(r)'
    BY <2>1, <2>3 DEF LegSound
  <2> QED  BY <1>0, <2>1, <2>4, PaidUnchanged, OneRequest DEF OneRequest
<1>5. ASSUME NEW r \in Requests, NEW s \in Symbols, BeginSettlement(r, s)
      PROVE  UnitsArePaidFor' /\ \A t \in Requests : LegSound(t)'
  <2>1. UNCHANGED <<positions, trades, paid>> /\ pc[r] = "settle" /\ pc'[r] = "credit"
    BY <1>0, <1>5 DEF BeginSettlement, TypeOK
  <2>2. req[r].rows[s] = positions[s]
    BY <1>0, <1>5, <2>1 DEF LegSound, BeginSettlement
  <2>3. /\ req'[r].rows = [req[r].rows EXCEPT ![s] = NoPosition]
        /\ req'[r].row = positions[s]
        /\ req'[r].leg.symbol = s
        /\ req'[r].leg.quantity = positions[s].quantity
    BY <1>0, <1>5, <1>r, <2>2 DEF BeginSettlement, TypeOK, Locals
  <2>4. \A t \in Symbols : IsOpen(req'[r].rows[t]) => req'[r].rows[t] = positions[t] /\ t # s
    BY <1>0, <1>r, <2>1, <2>3 DEF LegSound, IsOpen, NoPosition
  <2>5. LegSound(r)'
    BY <1>t, <2>1, <2>3, <2>4 DEF LegSound
  <2> QED  BY <1>0, <2>1, <2>5, PaidUnchanged, OneRequest DEF OneRequest
<1>6. ASSUME NEW r \in Requests, FillOrder(r)
      PROVE  UnitsArePaidFor' /\ \A t \in Requests : LegSound(t)'
  <2> DEFINE a == req[r].ask
  <2>1. UNCHANGED <<positions, trades, paid>>
    BY <1>6 DEF FillOrder
  <2>2. pc'[r] = (IF a.side = "buy" THEN "buyReadCash" ELSE "sellReadRow")
    BY <1>0, <1>6 DEF FillOrder, TypeOK
  <2>3. a \in OrderAsks /\ (a.side = "sell" => positions[a.symbol].quantity >= a.quantity)
    BY <1>0, <1>6 DEF FillOrder, TypeOK, Held
  <2>4. PICK price \in Prices, filled \in 1..a.quantity :
           req' = [req EXCEPT ![r] = [NoLocals EXCEPT !.leg =
                     [symbol |-> a.symbol, side |-> a.side, price |-> price,
                      quantity |-> filled, size |-> ContractSize[a.symbol]]]]
    BY <1>6 DEF FillOrder
  <2>5. /\ req'[r].leg.symbol = a.symbol
        /\ req'[r].leg.quantity = filled
        /\ req'[r].leg.side = a.side
        /\ \A s \in Symbols : req'[r].rows[s] = NoPosition
    BY <1>0, <2>4 DEF TypeOK, NoLocals
  <2>6. a.quantity \in Nat /\ a.side \in {"buy", "sell"} /\ a.symbol \in Symbols
    BY <2>3 DEF OrderAsks, Quantities
  <2>7. a.side = "sell" => filled <= positions[a.symbol].quantity
    BY <1>t, <2>3, <2>6
  <2> HIDE DEF a
  <2>8. LegSound(r)'
    BY <2>1, <2>2, <2>5, <2>6, <2>7 DEF LegSound, IsOpen, NoPosition
  <2> QED  BY <1>0, <2>1, <2>8, PaidUnchanged, OneRequest DEF OneRequest
<1>7. ASSUME NEW r \in Requests, BuyReadCash(r)
      PROVE  UnitsArePaidFor' /\ \A t \in Requests : LegSound(t)'
  <2>1. UNCHANGED <<positions, trades, paid>> /\ pc'[r] = "buyDebit"
    BY <1>0, <1>7 DEF BuyReadCash, TypeOK
  <2>2. LegSound(r)'
    BY <2>1 DEF LegSound
  <2> QED  BY <1>0, <2>1, <2>2, PaidUnchanged, OneRequest DEF OneRequest
<1>8. ASSUME NEW r \in Requests, BuyDebit(r)
      PROVE  UnitsArePaidFor' /\ \A t \in Requests : LegSound(t)'
  <2> DEFINE sym == req[r].leg.symbol
  <2>1. /\ UNCHANGED <<positions, trades, req>>
        /\ pc'[r] = "buyReadRow"
        /\ paid' = [paid EXCEPT ![sym] = @ + req[r].leg.quantity]
    BY <1>0, <1>8 DEF BuyDebit, TypeOK
  <2>2. paid'[sym] = paid[sym] + req[r].leg.quantity
    BY <1>0, <1>r, <2>1 DEF TypeOK
  <2>3. LegSound(r)'
    BY <1>r, <1>t, <2>1, <2>2 DEF LegSound
  <2>4. UnitsArePaidFor'
    BY <1>0, <1>r, <1>t, <2>1 DEF UnitsArePaidFor, TypeOK
  <2> QED  BY <2>3, <2>4, OneRequest DEF OneRequest
<1>9. ASSUME NEW r \in Requests, BuyReadRow(r)
      PROVE  UnitsArePaidFor' /\ \A t \in Requests : LegSound(t)'
  <2>1. UNCHANGED <<positions, trades, paid>> /\ pc[r] = "buyReadRow" /\ pc'[r] = "buyWriteRow"
    BY <1>0, <1>9 DEF BuyReadRow, TypeOK
  <2>2. req'[r].leg = req[r].leg /\ req'[r].row = positions[req[r].leg.symbol]
    BY <1>0, <1>9, <1>r DEF BuyReadRow, TypeOK, Locals
  <2>3. LegSound(r)'
    BY <1>0, <2>1, <2>2 DEF LegSound
  <2> QED  BY <1>0, <2>1, <2>3, PaidUnchanged, OneRequest DEF OneRequest
<1>10. ASSUME NEW r \in Requests, BuyWriteRow(r)
      PROVE  UnitsArePaidFor' /\ \A t \in Requests : LegSound(t)'
  <2> DEFINE sym == req[r].leg.symbol
             new == AfterBuy(req[r].row, req[r].leg.quantity, req[r].leg.price)
  <2>1. /\ UNCHANGED <<trades, paid>>
        /\ pc[r] = "buyWriteRow" /\ pc'[r] = "save"
        /\ positions' = [positions EXCEPT ![sym] = new]
    BY <1>0, <1>10 DEF BuyWriteRow, TypeOK
  <2>2. new.quantity = positions[sym].quantity + req[r].leg.quantity
    BY <1>0, <1>r, <2>1, AfterBuyQuantity DEF LegSound
  <2>3. positions[sym].quantity + trades[sym].closed + req[r].leg.quantity <= paid[sym]
    BY <1>0, <2>1 DEF LegSound
  <2> HIDE DEF new
  <2>4. UnitsArePaidFor'
    BY <1>0, <1>r, <1>t, <2>1, <2>2, <2>3 DEF UnitsArePaidFor, TypeOK
  <2>5. LegSound(r)'
    BY <2>1 DEF LegSound
  <2> QED  BY <2>4, <2>5, OneRequest DEF OneRequest
<1>11. ASSUME NEW r \in Requests, SellReadRow(r)
      PROVE  UnitsArePaidFor' /\ \A t \in Requests : LegSound(t)'
  <2>1. UNCHANGED <<positions, trades, paid>> /\ pc[r] = "sellReadRow"
    BY <1>11 DEF SellReadRow
  <2> DEFINE live == positions[req[r].leg.symbol]
  <2>2. ASSUME IsOpen(live) PROVE LegSound(r)'
    <3>1. pc'[r] = "sellReadCash" /\ req' = [req EXCEPT ![r].row = live]
      BY <1>0, <1>11, <2>2 DEF SellReadRow, TypeOK
    <3>2. req'[r].leg = req[r].leg /\ req'[r].row = live /\ req'[r].rows = req[r].rows
      BY <1>0, <1>r, <3>1 DEF TypeOK, Locals
    <3> QED  BY <1>0, <2>1, <3>1, <3>2 DEF LegSound
  <2>3. ASSUME ~IsOpen(live) PROVE LegSound(r)'
    <3>1. pc'[r] = "idle"
      BY <1>0, <1>11, <2>3 DEF SellReadRow, TypeOK
    <3> QED  BY <3>1 DEF LegSound
  <2>4. LegSound(r)'
    BY <2>2, <2>3
  <2> QED  BY <1>0, <2>1, <2>4, PaidUnchanged, OneRequest DEF OneRequest
<1>12. ASSUME NEW r \in Requests, SellReadCash(r)
      PROVE  UnitsArePaidFor' /\ \A t \in Requests : LegSound(t)'
  <2>1. UNCHANGED <<positions, trades, paid>> /\ pc[r] = "sellReadCash" /\ pc'[r] = "credit"
    BY <1>0, <1>12 DEF SellReadCash, TypeOK
  <2>2. req'[r].leg = req[r].leg /\ req'[r].row = req[r].row /\ req'[r].rows = req[r].rows
    BY <1>0, <1>12, <1>r DEF SellReadCash, TypeOK, Locals
  <2>3. LegSound(r)'
    BY <1>0, <2>1, <2>2 DEF LegSound
  <2> QED  BY <1>0, <2>1, <2>3, PaidUnchanged, OneRequest DEF OneRequest
<1>13. ASSUME NEW r \in Requests, Credit(r)
      PROVE  UnitsArePaidFor' /\ \A t \in Requests : LegSound(t)'
  <2>1. /\ UNCHANGED <<positions, trades, paid, req>>
        /\ pc[r] = "credit" /\ pc'[r] = "closeRow"
    BY <1>0, <1>13 DEF Credit, TypeOK
  <2>3. LegSound(r)'
    BY <1>0, <2>1 DEF LegSound
  <2> QED  BY <1>0, <2>1, <2>3, PaidUnchanged, OneRequest DEF OneRequest
<1>14. ASSUME NEW r \in Requests, CloseRow(r)
      PROVE  UnitsArePaidFor' /\ \A t \in Requests : LegSound(t)'
  <2> DEFINE sym == req[r].leg.symbol
             q == req[r].leg.quantity
             new == IF req[r].leg.side = "expiry" THEN NoPosition ELSE AfterSell(req[r].row, q)
  <2>1. /\ UNCHANGED <<trades, paid, req>>
        /\ pc[r] = "closeRow" /\ pc'[r] = "trade"
        /\ positions' = [positions EXCEPT ![sym] = new]
    BY <1>0, <1>14 DEF CloseRow, TypeOK
  <2>2. new.quantity = positions[sym].quantity - q
    <3>1. /\ req[r].row = positions[sym] /\ q <= positions[sym].quantity
          /\ req[r].leg.side = "expiry" => q = positions[sym].quantity
      BY <1>0, <2>1 DEF LegSound
    <3>2. CASE req[r].leg.side = "expiry"
      BY <1>r, <1>t, <3>1, <3>2 DEF NoPosition
    <3>3. CASE req[r].leg.side # "expiry"
      BY <1>r, <3>1, <3>3, AfterSellQuantity
    <3> QED  BY <3>2, <3>3
  <2> HIDE DEF new
  <2>3. /\ positions'[sym].quantity = positions[sym].quantity - q
        /\ \A t \in Symbols \ {sym} : positions'[t] = positions[t]
    BY <1>0, <1>r, <2>1, <2>2 DEF TypeOK
  <2>4. UnitsArePaidFor'
    BY <1>r, <1>t, <2>1, <2>3 DEF UnitsArePaidFor
  <2>5. positions'[sym].quantity + trades[sym].closed + q <= paid[sym]
    BY <1>r, <1>t, <2>3
  <2>6. \A s \in Symbols : IsOpen(req[r].rows[s]) => req[r].rows[s] = positions'[s] /\ s # sym
    BY <1>0, <2>1, <2>3 DEF LegSound
  <2>7. LegSound(r)'
    BY <2>1, <2>5, <2>6 DEF LegSound
  <2> QED  BY <2>4, <2>7, OneRequest DEF OneRequest
<1>15. ASSUME NEW r \in Requests, RecordTrade(r)
      PROVE  UnitsArePaidFor' /\ \A t \in Requests : LegSound(t)'
  <2> DEFINE sym == req[r].leg.symbol
             q == req[r].leg.quantity
  <2>1. /\ UNCHANGED <<positions, paid, req>>
        /\ pc[r] = "trade" /\ pc'[r] \in {"settle", "save"}
        /\ trades' = [trades EXCEPT ![sym] = AddTrade(@, q, LegPnl(r))]
    BY <1>0, <1>15 DEF RecordTrade, TypeOK
  <2>2. /\ trades'[sym].closed = trades[sym].closed + q
        /\ \A t \in Symbols \ {sym} : trades'[t] = trades[t]
    BY <1>0, <1>r, <2>1 DEF TypeOK, AddTrade
  <2>3. positions[sym].quantity + trades[sym].closed + q <= paid[sym]
    BY <1>0, <2>1 DEF LegSound
  <2>4. UnitsArePaidFor'
    BY <1>r, <1>t, <2>1, <2>2, <2>3 DEF UnitsArePaidFor
  <2>5. LegSound(r)'
    BY <1>0, <2>1 DEF LegSound
  <2> QED  BY <2>4, <2>5, OneRequest DEF OneRequest
<1>16. ASSUME NEW s \in Symbols, Expire(s) \/ Delist(s)
      PROVE  UnitsArePaidFor' /\ \A t \in Requests : LegSound(t)'
  <2>1. UNCHANGED <<positions, trades, paid, req, pc>>
    BY <1>16 DEF Expire, Delist
  <2> QED  BY <1>0, <2>1 DEF LegSound, UnitsArePaidFor
<1>17. CASE UNCHANGED vars
  BY <1>0, <1>17 DEF vars, LegSound, UnitsArePaidFor
<1> QED
  BY <1>1, <1>2, <1>3, <1>4, <1>5, <1>6, <1>7, <1>8, <1>9, <1>10, <1>11, <1>12, <1>13,
     <1>14, <1>15, <1>16, <1>17 DEF Next, Step

\* With one request at a time, crashes included, no contract is sold or
\* settled twice: what is held and what was closed was debited.
THEOREM SerialUnitsArePaidFor ==
    ASSUME OneRequest
    PROVE  Spec => []UnitsArePaidFor
<1>1. Init => PaidInv
  <2> SUFFICES ASSUME Init PROVE UnitsArePaidFor /\ \A r \in Requests : LegSound(r)
    BY InitType DEF PaidInv
  <2>1. UnitsArePaidFor
    <3> SUFFICES ASSUME NEW s \in Symbols
                 PROVE  positions[s].quantity + trades[s].closed <= paid[s]
      BY DEF UnitsArePaidFor
    <3>1. positions[s].quantity = 0 /\ trades[s].closed = 0 /\ paid[s] = 0
      BY DEF Init, NoPosition, EmptyTrades
    <3> QED  BY <3>1
  <2>2. \A r \in Requests : pc[r] = "idle"
    BY DEF Init
  <2> QED  BY <2>1, <2>2 DEF LegSound
<1>2. PaidInv /\ [Next]_vars => PaidInv'
  BY PaidStep
<1>3. PaidInv => UnitsArePaidFor
  BY DEF PaidInv
<1> QED  BY <1>1, <1>2, <1>3, PTL DEF Spec

-----------------------------------------------------------------------------
(* The inductive invariant: what is in the tables and what the request in  *)
(* flight remembers at each step of a posting.                             *)

Filled == {"buyReadCash", "buyDebit", "buyReadRow", "buyWriteRow", "sellReadRow",
           "sellReadCash", "credit", "closeRow", "trade", "save"}

SavingBuy(r) == pc[r] = "save" /\ req[r].leg.side = "buy"
SavingSell(r) == pc[r] = "save" /\ req[r].leg.side = "sell"

\* The leg is what FillOrder or BeginSettlement made it.
LegFilled(r) ==
    LET l == req[r].leg IN
    /\ pc[r] \in Filled =>
         /\ l.size = ContractSize[l.symbol] /\ l.price \in Prices /\ l.quantity > 0
         /\ l.side \in {"buy", "sell"} => l.quantity \in Quantities
    /\ pc[r] \in Buying => l.side = "buy"
    /\ pc[r] \in {"sellReadRow", "sellReadCash"} => l.side = "sell"
    /\ pc[r] \in {"credit", "closeRow", "trade"} => l.side \in {"sell", "expiry"}
    /\ pc[r] = "save" => l.side \in {"buy", "sell"}

\* The cash is what was seen until the posting writes it.
CashSound(r) ==
    /\ pc[r] \in {"buyDebit", "credit"} => req[r].seen = cash
    /\ (pc[r] \in {"buyReadRow", "buyWriteRow"} \/ SavingBuy(r)) =>
         cash = req[r].seen - RateScale * LegWorth(r) - EntryCost(LegWorth(r))
    /\ (pc[r] \in {"closeRow", "trade"} \/ SavingSell(r)) =>
         cash = req[r].seen + RateScale * LegWorth(r) - ExitCost(LegWorth(r))

\* The row is what the posting made of the row that was read.
RowSound(r) ==
    LET l == req[r].leg
        live == positions[req[r].leg.symbol]
    IN
    /\ (pc[r] = "trade" \/ SavingSell(r)) =>
         /\ live = AfterSell(req[r].row, l.quantity)
         /\ l.quantity <= req[r].row.quantity
         /\ l.side = "expiry" => l.quantity = req[r].row.quantity
    /\ SavingBuy(r) => live = AfterBuy(req[r].row, l.quantity, l.price)

Posting(r) ==
    /\ pc[r] \notin {"idle", "insert"} => opened
    /\ LegFilled(r) /\ CashSound(r) /\ RowSound(r)

BooksInv == PaidInv /\ \A r \in Requests : Posting(r)

-----------------------------------------------------------------------------
(* Every step keeps it.                                                    *)

LEMMA WorthOfLeg ==
    ASSUME NEW r \in Requests, req'[r].leg = req[r].leg
    PROVE  LegWorth(r)' = LegWorth(r)
BY DEF LegWorth

\* Before a request has filled anything there is nothing to say of it.
LEMMA NothingFilled ==
    ASSUME NEW r \in Requests, pc'[r] \notin Filled, pc'[r] \notin {"idle", "insert"} => opened'
    PROVE  Posting(r)'
<1>1. pc'[r] \notin Buying /\ pc'[r] \notin {"sellReadRow", "sellReadCash", "credit", "closeRow", "trade", "save"}
  BY DEF Filled, Buying
<1> QED  BY <1>1 DEF Posting, LegFilled, CashSound, RowSound, SavingBuy, SavingSell, Buying

\* What is known of the request in flight and of the row it works on.
LEMMA BooksTypes ==
    ASSUME BooksInv, NEW r \in Requests
    PROVE  /\ TypeOK /\ LegSound(r) /\ Posting(r)
           /\ req[r] \in Locals /\ req[r].leg \in Legs /\ req[r].leg.symbol \in Symbols
           /\ req[r].leg.quantity \in Nat /\ req[r].leg.price \in Nat
           /\ req[r].row \in Rows /\ req[r].seen \in Int /\ cash \in Int
           /\ LegWorth(r) \in Nat /\ LegPnl(r) \in Int
           /\ EntryCost(LegWorth(r)) \in Nat /\ ExitCost(LegWorth(r)) \in Nat
           /\ positions \in [Symbols -> Rows] /\ positions[req[r].leg.symbol] \in Rows
<1>1. TypeOK /\ LegSound(r) /\ Posting(r)
  BY DEF BooksInv, PaidInv
<1>2. /\ req[r] \in Locals /\ req[r].leg \in Legs /\ LegWorth(r) \in Nat /\ LegPnl(r) \in Int
  BY <1>1, LegTypes
<1>3. EntryCost(LegWorth(r)) \in Nat /\ ExitCost(LegWorth(r)) \in Nat
  BY <1>2, MoneyTypes
<1>4. /\ req[r].row \in Rows /\ req[r].seen \in Int /\ req[r].leg.symbol \in Symbols
      /\ req[r].leg.quantity \in Nat /\ req[r].leg.price \in Nat
  BY <1>2 DEF Locals, Legs
<1>5. cash \in Int /\ positions \in [Symbols -> Rows]
  BY <1>1 DEF TypeOK
<1> QED  BY <1>1, <1>2, <1>3, <1>4, <1>5

\* The worth of a leg of the size its contract has.
LEMMA LegNotional ==
    ASSUME BooksInv, NEW r \in Requests, pc[r] \in Filled
    PROVE  Notional(req[r].leg.price, req[r].leg.quantity, req[r].leg.size)
             = RateScale * LegWorth(r)
BY BooksTypes DEF Posting, LegFilled, Notional, LegWorth

LEMMA BooksFirstSteps ==
    ASSUME BooksInv, NEW r \in Requests,
           \/ Start(r) \/ InsertAccount(r) \/ Reset(r) \/ ListPositions(r) \/ EndSettlement(r)
           \/ RejectOrder(r) \/ SaveOrder(r) \/ Crash(r) \/ \E s \in Symbols : LeaveOpen(r, s)
    PROVE  Posting(r)'
<1> USE DEF Goto, Finish, store
<1>0. TypeOK /\ Posting(r)
  BY BooksTypes
<1>1. ASSUME NEW step, pc' = [pc EXCEPT ![r] = step]
      PROVE  pc'[r] = step
  BY <1>0, <1>1 DEF TypeOK
<1>2. CASE Start(r)
  <2>1. pc'[r] \in {"started", "insert"} /\ (pc'[r] = "started" => opened) /\ opened' = opened
    BY <1>1, <1>2 DEF Start
  <2> QED  BY <2>1, NothingFilled DEF Filled
<1>3. CASE InsertAccount(r)
  <2>1. pc'[r] \in {"started", "idle"} /\ (pc'[r] = "started" => opened')
    BY <1>1, <1>3 DEF InsertAccount
  <2> QED  BY <2>1, NothingFilled DEF Filled
<1>4. CASE Reset(r) \/ RejectOrder(r) \/ SaveOrder(r) \/ Crash(r)
  <2>1. pc'[r] = "idle"
    BY <1>1, <1>4 DEF Reset, RejectOrder, SaveOrder, Crash
  <2> QED  BY <2>1, NothingFilled DEF Filled
<1>5. CASE ListPositions(r)
  <2>1. pc'[r] = "settle" /\ opened' = opened /\ opened
    BY <1>0, <1>1, <1>5 DEF ListPositions, Posting
  <2> QED  BY <2>1, NothingFilled DEF Filled
<1>6. CASE EndSettlement(r)
  <2>1. pc'[r] \in {"check", "idle"} /\ opened' = opened /\ opened
    BY <1>0, <1>1, <1>6 DEF EndSettlement, Posting
  <2> QED  BY <2>1, NothingFilled DEF Filled
<1>7. CASE \E s \in Symbols : LeaveOpen(r, s)
  <2>1. pc'[r] = "settle" /\ opened' = opened /\ opened
    BY <1>0, <1>7 DEF LeaveOpen, Posting
  <2> QED  BY <2>1, NothingFilled DEF Filled
<1> QED  BY <1>2, <1>3, <1>4, <1>5, <1>6, <1>7

\* A settlement closes the whole of a row at a price.
LEMMA BooksBeginSettlement ==
    ASSUME BooksInv, NEW r \in Requests, NEW s \in Symbols, BeginSettlement(r, s)
    PROVE  Posting(r)'
<1>1. /\ TypeOK /\ Posting(r) /\ LegSound(r) /\ req[r] \in Locals /\ pc[r] = "settle"
      /\ IsOpen(req[r].rows[s])
  BY BooksTypes DEF BeginSettlement
<1> DEFINE l == [symbol |-> s, side |-> "expiry", price |-> req[r].chain[s].last_price,
                 quantity |-> req[r].rows[s].quantity, size |-> ContractSize[s]]
<1>2. /\ pc'[r] = "credit" /\ req'[r].leg = l /\ req'[r].seen = cash
      /\ cash' = cash /\ opened' = opened
  <2>1. pc' = [pc EXCEPT ![r] = "credit"] /\ cash' = cash /\ opened' = opened
    BY DEF BeginSettlement, Goto, store
  <2>2. req' = [req EXCEPT ![r].row = req[r].rows[s], ![r].rows[s] = NoPosition,
                           ![r].seen = cash, ![r].leg = l]
    BY DEF BeginSettlement
  <2>3. req'[r].leg = l /\ req'[r].seen = cash
    BY <1>1, <2>2 DEF TypeOK, Locals
  <2> QED  BY <1>1, <2>1, <2>3 DEF TypeOK
<1>3. l.price \in Prices /\ l.quantity > 0
  <2>1. req[r].chain[s] \in Contracts
    BY <1>1 DEF Locals
  <2> QED  BY <1>1, <2>1 DEF BeginSettlement, Due, Contracts, IsOpen
<1>4. opened'
  BY <1>1, <1>2 DEF Posting
<1>5. LegFilled(r)'
  <2> HIDE DEF l
  <2>1. l.size = ContractSize[l.symbol] /\ l.side = "expiry"
    BY DEF l
  <2> QED  BY <1>2, <1>3, <2>1 DEF LegFilled, Buying
<1>6. CashSound(r)' /\ RowSound(r)'
  BY <1>2 DEF CashSound, RowSound, SavingBuy, SavingSell
<1> QED  BY <1>4, <1>5, <1>6 DEF Posting

LEMMA BooksFillOrder ==
    ASSUME BooksInv, NEW r \in Requests, FillOrder(r)
    PROVE  Posting(r)'
<1>1. TypeOK /\ Posting(r) /\ pc[r] = "check"
  BY BooksTypes DEF FillOrder
<1> DEFINE a == req[r].ask
<1>2. PICK price \in Prices, filled \in 1..a.quantity :
         req' = [req EXCEPT ![r] = [NoLocals EXCEPT !.leg =
                   [symbol |-> a.symbol, side |-> a.side, price |-> price,
                    quantity |-> filled, size |-> ContractSize[a.symbol]]]]
  BY DEF FillOrder
<1>3. a \in OrderAsks
  BY <1>1 DEF TypeOK
<1>4. a.quantity \in Quantities /\ a.side \in {"buy", "sell"} /\ MaxQuantity \in Nat
  BY <1>3, MoneyAssumption DEF OrderAsks
<1>5. filled \in Quantities /\ filled > 0
  BY <1>4 DEF Quantities
<1> HIDE DEF a
<1>6. req'[r].leg = [symbol |-> a.symbol, side |-> a.side, price |-> price,
                     quantity |-> filled, size |-> ContractSize[a.symbol]]
  BY <1>1, <1>2 DEF TypeOK, NoLocals
<1>7. pc'[r] = (IF a.side = "buy" THEN "buyReadCash" ELSE "sellReadRow") /\ opened' /\ cash' = cash
  BY <1>1 DEF FillOrder, Goto, TypeOK, a, store, Posting
<1>8. LegFilled(r)'
  BY <1>4, <1>5, <1>6, <1>7 DEF LegFilled, Filled, Buying
<1>9. CashSound(r)' /\ RowSound(r)'
  BY <1>7 DEF CashSound, RowSound, SavingBuy, SavingSell
<1> QED  BY <1>7, <1>8, <1>9 DEF Posting

\* Steps that read into the local variables of the request.
LEMMA BooksReadingSteps ==
    ASSUME BooksInv, ~ChainExpires, NEW r \in Requests,
           BuyReadCash(r) \/ BuyReadRow(r) \/ SellReadRow(r) \/ SellReadCash(r)
    PROVE  Posting(r)'
<1>1. /\ TypeOK /\ LegSound(r) /\ Posting(r) /\ req[r] \in Locals
  BY BooksTypes
<1>2. opened' = opened /\ cash' = cash /\ positions' = positions
  BY DEF BuyReadCash, BuyReadRow, SellReadRow, SellReadCash, store
<1>3. opened
  BY <1>1 DEF Posting, BuyReadCash, BuyReadRow, SellReadRow, SellReadCash
<1>4. CASE BuyReadCash(r)
  <2>1. pc[r] = "buyReadCash" /\ pc'[r] = "buyDebit" /\ req'[r].leg = req[r].leg /\ req'[r].seen = cash
    BY <1>1, <1>4 DEF BuyReadCash, Goto, TypeOK, Locals
  <2>2. LegFilled(r)'
    BY <1>1, <2>1 DEF Posting, LegFilled, Filled, Buying
  <2>3. CashSound(r)' /\ RowSound(r)'
    BY <1>2, <2>1 DEF CashSound, RowSound, SavingBuy, SavingSell
  <2> QED  BY <1>2, <1>3, <2>2, <2>3 DEF Posting
<1>5. CASE BuyReadRow(r)
  <2>1. /\ pc[r] = "buyReadRow" /\ pc'[r] = "buyWriteRow"
        /\ req'[r].leg = req[r].leg /\ req'[r].seen = req[r].seen
    BY <1>1, <1>5 DEF BuyReadRow, Goto, TypeOK, Locals
  <2>2. LegFilled(r)'
    BY <1>1, <2>1 DEF Posting, LegFilled, Filled, Buying
  <2>3. LegWorth(r)' = LegWorth(r)
    BY <2>1, WorthOfLeg
  <2>4. cash = req[r].seen - RateScale * LegWorth(r) - EntryCost(LegWorth(r))
    BY <1>1, <2>1 DEF Posting, CashSound
  <2>5. CashSound(r)' /\ RowSound(r)'
    BY <1>2, <2>1, <2>3, <2>4 DEF CashSound, RowSound, SavingBuy, SavingSell
  <2> QED  BY <1>2, <1>3, <2>2, <2>5 DEF Posting
<1>6. CASE SellReadRow(r)
  <2>1. CASE ~IsOpen(positions[req[r].leg.symbol])
    <3>1. pc'[r] = "idle"
      BY <1>1, <1>6, <2>1 DEF SellReadRow, Finish, Goto, TypeOK
    <3> QED  BY <3>1, NothingFilled DEF Filled
  <2>2. CASE IsOpen(positions[req[r].leg.symbol])
    <3>1. pc[r] = "sellReadRow" /\ pc'[r] = "sellReadCash" /\ req'[r].leg = req[r].leg
      BY <1>1, <1>6, <2>2 DEF SellReadRow, Goto, TypeOK, Locals
    <3>2. LegFilled(r)'
      BY <1>1, <3>1 DEF Posting, LegFilled, Filled, Buying
    <3>3. CashSound(r)' /\ RowSound(r)'
      BY <1>2, <3>1 DEF CashSound, RowSound, SavingBuy, SavingSell
    <3> QED  BY <1>2, <1>3, <3>2, <3>3 DEF Posting
  <2> QED  BY <2>1, <2>2
<1>7. CASE SellReadCash(r)
  <2>1. pc[r] = "sellReadCash" /\ pc'[r] = "credit" /\ req'[r].leg = req[r].leg /\ req'[r].seen = cash
    BY <1>1, <1>7 DEF SellReadCash, Goto, TypeOK, Locals
  <2>2. LegFilled(r)'
    BY <1>1, <2>1 DEF Posting, LegFilled, Filled, Buying
  <2>3. CashSound(r)' /\ RowSound(r)'
    BY <1>2, <2>1 DEF CashSound, RowSound, SavingBuy, SavingSell
  <2> QED  BY <1>2, <1>3, <2>2, <2>3 DEF Posting
<1> QED  BY <1>4, <1>5, <1>6, <1>7

\* Steps that write the cash.
LEMMA BooksCashSteps ==
    ASSUME BooksInv, NEW r \in Requests, BuyDebit(r) \/ Credit(r)
    PROVE  Posting(r)'
<1>1. /\ TypeOK /\ LegSound(r) /\ Posting(r) /\ req[r] \in Locals
      /\ req' = req /\ opened' = opened /\ opened /\ pc[r] \in Filled
  BY BooksTypes DEF BuyDebit, Credit, Posting, Filled
<1>2. LegWorth(r)' = LegWorth(r)
  BY <1>1, WorthOfLeg
<1>3. Notional(req[r].leg.price, req[r].leg.quantity, req[r].leg.size) = RateScale * LegWorth(r)
  BY <1>1, LegNotional
<1>4. CASE BuyDebit(r)
  <2>1. pc[r] = "buyDebit" /\ pc'[r] = "buyReadRow"
    BY <1>1, <1>4 DEF BuyDebit, Goto, TypeOK
  <2>2. cash' = req[r].seen - RateScale * LegWorth(r) - EntryCost(LegWorth(r))
    BY <1>3, <1>4 DEF BuyDebit
  <2>3. LegFilled(r)'
    BY <1>1, <2>1 DEF Posting, LegFilled, Filled, Buying
  <2>4. CashSound(r)' /\ RowSound(r)'
    BY <1>1, <1>2, <2>1, <2>2 DEF CashSound, RowSound, SavingBuy, SavingSell
  <2> QED  BY <1>1, <2>3, <2>4 DEF Posting
<1>5. CASE Credit(r)
  <2>1. pc[r] = "credit" /\ pc'[r] = "closeRow"
    BY <1>1, <1>5 DEF Credit, Goto, TypeOK
  <2>2. cash' = req[r].seen + RateScale * LegWorth(r) - ExitCost(LegWorth(r))
    BY <1>3, <1>5 DEF Credit
  <2>3. LegFilled(r)'
    BY <1>1, <2>1 DEF Posting, LegFilled, Filled, Buying
  <2>4. CashSound(r)' /\ RowSound(r)'
    BY <1>1, <1>2, <2>1, <2>2 DEF CashSound, RowSound, SavingBuy, SavingSell
  <2> QED  BY <1>1, <2>3, <2>4 DEF Posting
<1> QED  BY <1>4, <1>5

\* Selling all that is held leaves no row.
LEMMA SoldOut ==
    ASSUME NEW w \in Rows
    PROVE  AfterSell(w, w.quantity) = NoPosition
BY DEF AfterSell, Rows

\* Steps that write the position row or the trade row.
LEMMA BooksRowSteps ==
    ASSUME BooksInv, NEW r \in Requests, BuyWriteRow(r) \/ CloseRow(r) \/ RecordTrade(r)
    PROVE  Posting(r)'
<1> DEFINE l == req[r].leg
           sym == req[r].leg.symbol
<1>1. /\ TypeOK /\ LegSound(r) /\ Posting(r) /\ req[r] \in Locals /\ sym \in Symbols
      /\ req[r].row \in Rows /\ positions \in [Symbols -> Rows]
      /\ req' = req /\ opened' = opened /\ opened /\ pc[r] \in Filled /\ cash' = cash
  BY BooksTypes DEF BuyWriteRow, CloseRow, RecordTrade, Posting, Filled
<1>2. LegWorth(r)' = LegWorth(r)
  BY <1>1, WorthOfLeg
<1>3. CASE BuyWriteRow(r)
  <2>1. pc[r] = "buyWriteRow" /\ pc'[r] = "save" /\ l.side = "buy"
    BY <1>1, <1>3 DEF BuyWriteRow, Goto, TypeOK, Posting, LegFilled, Buying
  <2>2. positions'[sym] = AfterBuy(req[r].row, l.quantity, l.price)
    BY <1>1, <1>3 DEF BuyWriteRow
  <2>3. LegFilled(r)'
    BY <1>1, <2>1 DEF Posting, LegFilled, Filled, Buying
  <2>4. cash = req[r].seen - RateScale * LegWorth(r) - EntryCost(LegWorth(r))
    BY <1>1, <2>1 DEF Posting, CashSound
  <2>5. CashSound(r)'
    BY <1>1, <1>2, <2>1, <2>4 DEF CashSound, SavingBuy, SavingSell
  <2>6. RowSound(r)'
    BY <1>1, <2>1, <2>2 DEF RowSound, SavingBuy, SavingSell
  <2> QED  BY <1>1, <2>3, <2>5, <2>6 DEF Posting
<1>4. CASE CloseRow(r)
  <2>1. pc[r] = "closeRow" /\ pc'[r] = "trade"
    BY <1>1, <1>4 DEF CloseRow, Goto, TypeOK
  <2>2. /\ l.quantity <= req[r].row.quantity
        /\ l.side = "expiry" => l.quantity = req[r].row.quantity
    BY <1>1, <2>1 DEF LegSound
  <2>3. positions'[sym] = IF l.side = "expiry" THEN NoPosition ELSE AfterSell(req[r].row, l.quantity)
    BY <1>1, <1>4 DEF CloseRow
  <2>4. positions'[sym] = AfterSell(req[r].row, l.quantity)
    BY <1>1, <2>2, <2>3, SoldOut
  <2>5. LegFilled(r)'
    BY <1>1, <2>1 DEF Posting, LegFilled, Filled, Buying
  <2>6. cash = req[r].seen + RateScale * LegWorth(r) - ExitCost(LegWorth(r))
    BY <1>1, <2>1 DEF Posting, CashSound
  <2>7. CashSound(r)'
    BY <1>1, <1>2, <2>1, <2>6 DEF CashSound, SavingBuy, SavingSell
  <2>8. RowSound(r)'
    BY <1>1, <2>1, <2>2, <2>4 DEF RowSound, SavingBuy, SavingSell
  <2> QED  BY <1>1, <2>5, <2>7, <2>8 DEF Posting
<1>5. CASE RecordTrade(r)
  <2>1. pc[r] = "trade" /\ pc'[r] = (IF l.side = "expiry" THEN "settle" ELSE "save")
        /\ positions' = positions
    BY <1>1, <1>5 DEF RecordTrade, Goto, TypeOK
  <2>2. CASE l.side = "expiry"
    <3>1. pc'[r] = "settle"
      BY <2>1, <2>2
    <3> QED  BY <1>1, <3>1, NothingFilled DEF Filled
  <2>3. CASE l.side # "expiry"
    <3>1. pc'[r] = "save" /\ l.side = "sell"
      BY <1>1, <2>1, <2>3 DEF Posting, LegFilled
    <3>2. LegFilled(r)'
      BY <1>1, <2>1, <3>1 DEF Posting, LegFilled, Filled, Buying
    <3>3. cash = req[r].seen + RateScale * LegWorth(r) - ExitCost(LegWorth(r))
      BY <1>1, <2>1 DEF Posting, CashSound
    <3>4. CashSound(r)'
      BY <1>1, <1>2, <3>1, <3>3 DEF CashSound, SavingBuy, SavingSell
    <3>5. RowSound(r)'
      BY <1>1, <2>1, <3>1 DEF Posting, RowSound, SavingBuy, SavingSell
    <3> QED  BY <1>1, <3>2, <3>4, <3>5 DEF Posting
  <2> QED  BY <2>2, <2>3
<1> QED  BY <1>3, <1>4, <1>5

LEMMA BooksStep ==
    ASSUME OneRequest, ~ChainExpires, BooksInv, [Next]_vars
    PROVE  BooksInv'
<1>1. PaidInv'
  BY PaidStep DEF BooksInv
<1>2. SUFFICES ASSUME NEW r \in Requests PROVE Posting(r)'
  BY <1>1 DEF BooksInv
<1>3. Posting(r)
  BY DEF BooksInv
<1>4. ASSUME NEW t \in Requests, Start(t) \/ Step(t) \/ Crash(t)
      PROVE  Posting(r)'
  <2>1. t = r
    BY OneRequest DEF OneRequest
  <2>2. Start(r) \/ Step(r) \/ Crash(r)
    BY <1>4, <2>1
  <2> QED
    BY <2>2, BooksFirstSteps, BooksBeginSettlement, BooksFillOrder, BooksReadingSteps,
       BooksCashSteps, BooksRowSteps DEF Step
<1>5. ASSUME pc' = pc, req' = req, cash' = cash, positions' = positions, opened' = opened
      PROVE  Posting(r)'
  <2>1. LegWorth(r)' = LegWorth(r)
    BY <1>5, WorthOfLeg
  <2>2. LegFilled(r)' /\ CashSound(r)' /\ RowSound(r)'
    BY <1>3, <1>5, <2>1 DEF Posting, LegFilled, CashSound, RowSound, SavingBuy, SavingSell
  <2> QED  BY <1>3, <1>5, <2>2 DEF Posting
<1>6. ASSUME NEW s \in Symbols, Expire(s) \/ Delist(s)
      PROVE  Posting(r)'
  <2>1. pc' = pc /\ req' = req /\ cash' = cash /\ positions' = positions /\ opened' = opened
    BY <1>6 DEF Expire, Delist, store
  <2> QED  BY <1>5, <2>1
<1>7. CASE UNCHANGED vars
  <2>1. pc' = pc /\ req' = req /\ cash' = cash /\ positions' = positions /\ opened' = opened
    BY <1>7 DEF vars
  <2> QED  BY <1>5, <2>1
<1> QED  BY <1>4, <1>6, <1>7 DEF Next

LEMMA BooksStart == Init => BooksInv
<1> SUFFICES ASSUME Init PROVE BooksInv
  OBVIOUS
<1>1. \A r \in Requests : pc[r] = "idle"
  BY DEF Init
<1>2. UnitsArePaidFor
  <2> SUFFICES ASSUME NEW s \in Symbols
               PROVE  positions[s].quantity + trades[s].closed <= paid[s]
    BY DEF UnitsArePaidFor
  <2>1. positions[s].quantity = 0 /\ trades[s].closed = 0 /\ paid[s] = 0
    BY DEF Init, NoPosition, EmptyTrades
  <2> QED  BY <2>1
<1>3. \A r \in Requests : LegSound(r)
  BY <1>1 DEF LegSound
<1>4. \A r \in Requests : Posting(r)
  BY <1>1 DEF Posting, LegFilled, CashSound, RowSound, SavingBuy, SavingSell, Filled, Buying
<1> QED  BY <1>2, <1>3, <1>4, InitType DEF BooksInv, PaidInv

THEOREM BooksHold ==
    ASSUME OneRequest, ~ChainExpires
    PROVE  Spec => []BooksInv
<1>1. BooksInv /\ [Next]_vars => BooksInv'
  BY BooksStep
<1> QED  BY BooksStart, <1>1, PTL DEF Spec

-----------------------------------------------------------------------------
(* Refinement: each order, settlement and reset is one step of the ledger.  *)

SerialRequests == OneRequest /\ Requests # {} /\ ~ChainExpires /\ MaxCrashes = 0

\* The ledger counts money as the broker does.
LEMMA LedgerMoney ==
    /\ Ledger!NoPosition = NoPosition /\ Ledger!EmptyTrades = EmptyTrades
    /\ Ledger!EmptyOrders = EmptyOrders /\ Ledger!Quantities = Quantities
    /\ \A p, q, z : Ledger!Worth(p, q, z) = Worth(p, q, z)
    /\ \A w : Ledger!EntryCost(w) = EntryCost(w) /\ Ledger!ExitCost(w) = ExitCost(w)
<1>1. /\ Ledger!NoPosition = NoPosition /\ Ledger!EmptyTrades = EmptyTrades
      /\ Ledger!EmptyOrders = EmptyOrders /\ Ledger!Quantities = Quantities
  BY DEF Ledger!NoPosition, Ledger!EmptyTrades, Ledger!EmptyOrders, Ledger!Quantities,
         NoPosition, EmptyTrades, EmptyOrders, Quantities
<1>2. ASSUME NEW p, NEW q, NEW z
      PROVE  Ledger!Worth(p, q, z) = Worth(p, q, z)
  BY DEF Ledger!Worth, Worth
<1>3. ASSUME NEW w
      PROVE  Ledger!EntryCost(w) = EntryCost(w) /\ Ledger!ExitCost(w) = ExitCost(w)
  BY DEF Ledger!EntryCost, Ledger!ExitCost, EntryCost, ExitCost
<1> QED  BY <1>1, <1>2, <1>3

LEMMA LedgerRows ==
    ASSUME NEW w, NEW q, NEW p, NEW z, NEW t, NEW m
    PROVE  /\ Ledger!AfterBuy(w, q, p) = AfterBuy(w, q, p)
           /\ Ledger!AfterSell(w, q) = AfterSell(w, q)
           /\ Ledger!TradePnl(w, q, p, z) = TradePnl(w, q, p, z)
           /\ Ledger!AddTrade(t, q, m) = AddTrade(t, q, m)
           /\ Ledger!AddBuyOrder(t, q, m) = AddBuyOrder(t, q, m)
           /\ Ledger!AddSellOrder(t, q) = AddSellOrder(t, q)
<1>1. Ledger!IsOpen(w) = IsOpen(w)
  BY DEF Ledger!IsOpen, IsOpen
<1>2. Ledger!AfterBuy(w, q, p) = AfterBuy(w, q, p)
  BY <1>1, Zenon DEF Ledger!AfterBuy, AfterBuy
<1>3. Ledger!AfterSell(w, q) = AfterSell(w, q)
  BY Zenon DEF Ledger!AfterSell, AfterSell, Ledger!NoPosition, NoPosition
<1>4. Ledger!TradePnl(w, q, p, z) = TradePnl(w, q, p, z)
  BY Zenon DEF Ledger!TradePnl, TradePnl, Ledger!ExitCost, ExitCost, Ledger!Worth, Worth
<1>5. /\ Ledger!AddTrade(t, q, m) = AddTrade(t, q, m)
      /\ Ledger!AddBuyOrder(t, q, m) = AddBuyOrder(t, q, m)
      /\ Ledger!AddSellOrder(t, q) = AddSellOrder(t, q)
  BY Zenon DEF Ledger!AddTrade, AddTrade, Ledger!AddBuyOrder, AddBuyOrder, Ledger!AddSellOrder, AddSellOrder
<1> QED  BY <1>2, <1>3, <1>4, <1>5

\* Away from a posting the ledger is the store.
LEMMA StoreIsLedger ==
    ASSUME pc[Only] \notin CashWritten
    PROVE  LedgerCash = cash /\ LedgerPositions = positions /\ LedgerTrades = trades
BY DEF LedgerCash, LedgerPositions, LedgerTrades, CashWritten, RowWritten

LEMMA NextStoreIsLedger ==
    ASSUME pc'[Only] \notin CashWritten
    PROVE  LedgerCash' = cash' /\ LedgerPositions' = positions' /\ LedgerTrades' = trades'
BY DEF LedgerCash, LedgerPositions, LedgerTrades, CashWritten, RowWritten

\* Steps before anything of a posting is written.
LEMMA QuietSteps ==
    ASSUME pc[Only] \notin CashWritten, pc'[Only] \notin CashWritten, UNCHANGED store
    PROVE  UNCHANGED Ledger!ledger
BY StoreIsLedger, NextStoreIsLedger DEF store, Ledger!ledger

LEMMA ReadingStepsAreQuiet ==
    ASSUME BooksInv, Only \in Requests,
           \/ Start(Only) \/ ListPositions(Only) \/ EndSettlement(Only)
           \/ \E s \in Symbols : LeaveOpen(Only, s) \/ BeginSettlement(Only, s)
           \/ RejectOrder(Only) \/ FillOrder(Only) \/ BuyReadCash(Only)
           \/ SellReadRow(Only) \/ SellReadCash(Only)
    PROVE  UNCHANGED Ledger!ledger
<1> USE DEF Goto, Finish
<1>0. pc \in [Requests -> Steps]
  BY BooksTypes DEF TypeOK
<1>1. UNCHANGED store
  BY DEF Start, ListPositions, EndSettlement, LeaveOpen, BeginSettlement, RejectOrder,
         FillOrder, BuyReadCash, SellReadRow, SellReadCash
<1>2. pc[Only] \in {"idle", "started", "settle", "check", "buyReadCash", "sellReadRow", "sellReadCash"}
  BY DEF Start, ListPositions, EndSettlement, LeaveOpen, BeginSettlement, RejectOrder,
         FillOrder, BuyReadCash, SellReadRow, SellReadCash
<1>3. pc'[Only] \in {"insert", "started", "settle", "credit", "check", "idle", "buyReadCash",
                     "sellReadRow", "buyDebit", "sellReadCash"}
  <2>1. CASE Start(Only) \/ ListPositions(Only) \/ EndSettlement(Only)
    BY <1>0, <2>1 DEF Start, ListPositions, EndSettlement
  <2>2. CASE \E s \in Symbols : LeaveOpen(Only, s) \/ BeginSettlement(Only, s)
    BY <1>0, <2>2 DEF LeaveOpen, BeginSettlement
  <2>3. CASE RejectOrder(Only) \/ FillOrder(Only) \/ BuyReadCash(Only)
    BY <1>0, <2>3 DEF RejectOrder, FillOrder, BuyReadCash
  <2>4. CASE SellReadRow(Only) \/ SellReadCash(Only)
    BY <1>0, <2>4 DEF SellReadRow, SellReadCash
  <2> QED  BY <2>1, <2>2, <2>3, <2>4
<1> QED  BY <1>1, <1>2, <1>3, QuietSteps DEF CashWritten

\* Writing the cash, or the row it was read for, does not show in the ledger yet.
LEMMA WritingStepsAreHidden ==
    ASSUME BooksInv, Only \in Requests,
           \/ BuyDebit(Only) \/ Credit(Only) \/ BuyReadRow(Only)
           \/ BuyWriteRow(Only) \/ CloseRow(Only)
    PROVE  UNCHANGED Ledger!ledger
<1> DEFINE l == req[Only].leg
           sym == req[Only].leg.symbol
<1> USE DEF Goto
<1>1. /\ TypeOK /\ LegSound(Only) /\ Posting(Only) /\ req[Only] \in Locals /\ sym \in Symbols
      /\ pc \in [Requests -> Steps] /\ req \in [Requests -> Locals]
      /\ positions \in [Symbols -> Rows]
  BY BooksTypes DEF TypeOK
<1>2. opened' = opened /\ orders' = orders /\ trades' = trades
  BY DEF BuyDebit, Credit, BuyReadRow, BuyWriteRow, CloseRow, store
<1> SUFFICES LedgerCash' = LedgerCash /\ LedgerPositions' = LedgerPositions /\ LedgerTrades' = LedgerTrades
  BY <1>2 DEF Ledger!ledger
<1>3. CASE BuyDebit(Only) \/ Credit(Only)
  <2>1. /\ pc[Only] \in {"buyDebit", "credit"} /\ pc'[Only] \in {"buyReadRow", "closeRow"}
        /\ req' = req /\ positions' = positions
    BY <1>1, <1>3 DEF BuyDebit, Credit
  <2>2. req[Only].seen = cash
    BY <1>1, <2>1 DEF Posting, CashSound
  <2> QED  BY <1>2, <2>1, <2>2 DEF LedgerCash, LedgerPositions, LedgerTrades, CashWritten, RowWritten
<1>4. CASE BuyReadRow(Only)
  <2>1. /\ pc[Only] = "buyReadRow" /\ pc'[Only] = "buyWriteRow"
        /\ req'[Only].seen = req[Only].seen /\ positions' = positions
    BY <1>1, <1>4 DEF BuyReadRow, store, Locals
  <2> QED  BY <1>2, <2>1 DEF LedgerCash, LedgerPositions, LedgerTrades, CashWritten, RowWritten
<1>5. CASE BuyWriteRow(Only) \/ CloseRow(Only)
  <2>1. /\ pc[Only] \in {"buyWriteRow", "closeRow"}
        /\ pc'[Only] = (IF pc[Only] = "buyWriteRow" THEN "save" ELSE "trade")
        /\ req' = req
    BY <1>1, <1>5 DEF BuyWriteRow, CloseRow
  <2>2. PICK new : positions' = [positions EXCEPT ![sym] = new]
    BY <1>5 DEF BuyWriteRow, CloseRow
  <2>3. req[Only].row = positions[sym]
    BY <1>1, <2>1 DEF LegSound
  <2>4. pc[Only] = "buyWriteRow" => l.side = "buy"
    BY <1>1 DEF Posting, LegFilled, Buying
  <2>5. [positions' EXCEPT ![sym] = positions[sym]] = positions
    BY <1>1, <2>2
  <2>6. LedgerPositions' = [positions' EXCEPT ![sym] = req[Only].row] /\ LedgerPositions = positions
    BY <2>1 DEF LedgerPositions, RowWritten
  <2>7. LedgerTrades' = trades /\ LedgerTrades = trades
    BY <1>2, <2>1, <2>4 DEF LedgerTrades
  <2>8. LedgerCash' = req[Only].seen /\ LedgerCash = req[Only].seen
    BY <2>1 DEF LedgerCash, CashWritten
  <2> QED  BY <2>3, <2>5, <2>6, <2>7, <2>8
<1> QED  BY <1>3, <1>4, <1>5

\* Taking a trade back out of the totals.
LEMMA TradeTakenBack ==
    ASSUME NEW t \in [closed : Nat, pnl : Int], NEW q \in Int, NEW m \in Int
    PROVE  /\ AddTrade(AddTrade(t, q, m), -q, -m) = t
           /\ AddTrade(AddTrade(t, -q, -m), q, m) = t
BY DEF AddTrade

\* What the ledger holds while a sell or a settlement is in its last steps.
LEMMA SellRecordIsHidden ==
    ASSUME BooksInv, Only \in Requests, RecordTrade(Only), req[Only].leg.side = "sell"
    PROVE  UNCHANGED Ledger!ledger
<1> DEFINE l == req[Only].leg
           sym == req[Only].leg.symbol
<1>1. /\ sym \in Symbols /\ pc \in [Requests -> Steps] /\ trades \in [Symbols -> [closed : Nat, pnl : Int]]
      /\ l.quantity \in Int /\ LegPnl(Only) \in Int
  BY BooksTypes DEF TypeOK
<1>2. /\ pc[Only] = "trade" /\ pc'[Only] = "save"
      /\ opened' = opened /\ orders' = orders /\ req' = req /\ positions' = positions /\ cash' = cash
      /\ trades' = [trades EXCEPT ![sym] = AddTrade(@, l.quantity, LegPnl(Only))]
  BY <1>1 DEF RecordTrade, Goto
<1>3. LegPnl(Only)' = LegPnl(Only)
  BY <1>2 DEF LegPnl
<1>4. LedgerCash' = LedgerCash /\ LedgerPositions' = LedgerPositions
  BY <1>2 DEF LedgerCash, LedgerPositions, CashWritten, RowWritten
<1>5. LedgerTrades = trades
  BY <1>2 DEF LedgerTrades
<1>6. LedgerTrades' = [trades' EXCEPT ![sym] = AddTrade(@, -l.quantity, -LegPnl(Only))]
  BY <1>2, <1>3 DEF LedgerTrades
<1> DEFINE old == trades[sym]
           back == AddTrade(AddTrade(old, l.quantity, LegPnl(Only)), -l.quantity, -LegPnl(Only))
<1>7. back = old
  BY <1>1, TradeTakenBack
<1>8. LedgerTrades' = [trades EXCEPT ![sym] = back]
  BY <1>1, <1>2, <1>6
<1>9. LedgerTrades' = trades
  BY <1>1, <1>7, <1>8
<1> QED  BY <1>2, <1>4, <1>5, <1>9 DEF Ledger!ledger

\* The last commit of an order or a settlement is the step of the ledger.
LEMMA SaveBuyIsBuy ==
    ASSUME BooksInv, Only \in Requests, SaveOrder(Only), req[Only].leg.side = "buy"
    PROVE  Ledger!Buy(req[Only].leg.symbol, req[Only].leg.quantity, req[Only].leg.price)
<1> DEFINE l == req[Only].leg
           sym == req[Only].leg.symbol
           w == LegWorth(Only)
<1>1. /\ sym \in Symbols /\ pc \in [Requests -> Steps] /\ Posting(Only)
      /\ positions \in [Symbols -> Rows]
  BY BooksTypes DEF TypeOK
<1>2. /\ pc[Only] = "save" /\ pc'[Only] = "idle" /\ opened' = opened /\ opened /\ cash' = cash
      /\ positions' = positions /\ trades' = trades
      /\ orders' = [orders EXCEPT ![sym] = AddBuyOrder(@, l.quantity, EntryCost(w))]
  BY <1>1 DEF SaveOrder, Finish, Goto, Posting
<1>3. LedgerCash' = cash /\ LedgerPositions' = positions /\ LedgerTrades' = trades
  BY <1>2, NextStoreIsLedger DEF CashWritten
<1>4. LedgerCash = req[Only].seen /\ LedgerTrades = trades
  BY <1>2 DEF LedgerCash, LedgerTrades, CashWritten
<1>5. LedgerPositions = [positions EXCEPT ![sym] = req[Only].row]
  BY <1>2 DEF LedgerPositions, RowWritten
<1>6. cash = req[Only].seen - RateScale * w - EntryCost(w)
  BY <1>1, <1>2 DEF Posting, CashSound, SavingBuy
<1>7. positions[sym] = AfterBuy(req[Only].row, l.quantity, l.price)
  BY <1>1, <1>2 DEF Posting, RowSound, SavingBuy
<1>8. positions = [LedgerPositions EXCEPT ![sym] = AfterBuy(@, l.quantity, l.price)]
  BY <1>1, <1>5, <1>7
<1>9. Ledger!Worth(l.price, l.quantity, ContractSize[sym]) = w /\ Ledger!EntryCost(w) = EntryCost(w)
  BY LedgerMoney DEF LegWorth
<1>10. \A t : Ledger!AfterBuy(t, l.quantity, l.price) = AfterBuy(t, l.quantity, l.price)
  BY LedgerRows
<1>11. \A t : Ledger!AddBuyOrder(t, l.quantity, EntryCost(w)) = AddBuyOrder(t, l.quantity, EntryCost(w))
  BY LedgerRows
<1>12. LedgerCash' = LedgerCash - RateScale * w - Ledger!EntryCost(w)
  BY <1>3, <1>4, <1>6, <1>9
<1>13. LedgerPositions' = [LedgerPositions EXCEPT ![sym] = Ledger!AfterBuy(@, l.quantity, l.price)]
  BY <1>3, <1>8, <1>10
<1>14. orders' = [orders EXCEPT ![sym] = Ledger!AddBuyOrder(@, l.quantity, Ledger!EntryCost(w))]
  BY <1>2, <1>9, <1>11
<1> HIDE DEF w
<1> QED  BY <1>2, <1>3, <1>4, <1>9, <1>12, <1>13, <1>14 DEF Ledger!Buy

\* A leg that is closed takes units that the ledger holds.
LEMMA ClosedUnits ==
    ASSUME BooksInv, Only \in Requests,
           pc[Only] = "trade" \/ SavingSell(Only)
    PROVE  /\ LedgerPositions[req[Only].leg.symbol] = req[Only].row
           /\ req[Only].leg.quantity \in 1..req[Only].row.quantity
           /\ positions = [LedgerPositions EXCEPT ![req[Only].leg.symbol] =
                             Ledger!AfterSell(req[Only].row, req[Only].leg.quantity)]
           /\ opened /\ LedgerCash = req[Only].seen
           /\ cash = req[Only].seen + RateScale * LegWorth(Only) - Ledger!ExitCost(LegWorth(Only))
<1> DEFINE l == req[Only].leg
           sym == req[Only].leg.symbol
<1>1. /\ sym \in Symbols /\ Posting(Only) /\ positions \in [Symbols -> Rows]
      /\ l.quantity \in Nat /\ req[Only].row \in Rows
  BY BooksTypes
<1>2. LedgerPositions = [positions EXCEPT ![sym] = req[Only].row] /\ LedgerCash = req[Only].seen
  BY DEF LedgerPositions, LedgerCash, RowWritten, CashWritten, SavingSell
<1>3. positions[sym] = AfterSell(req[Only].row, l.quantity) /\ l.quantity <= req[Only].row.quantity
  BY <1>1 DEF Posting, RowSound
<1>4. l.quantity > 0 /\ opened
  BY <1>1 DEF Posting, LegFilled, Filled, SavingSell
<1>5. cash = req[Only].seen + RateScale * LegWorth(Only) - ExitCost(LegWorth(Only))
  BY <1>1 DEF Posting, CashSound
<1>6. /\ Ledger!AfterSell(req[Only].row, l.quantity) = AfterSell(req[Only].row, l.quantity)
      /\ Ledger!ExitCost(LegWorth(Only)) = ExitCost(LegWorth(Only))
  BY LedgerMoney, LedgerRows
<1>7. l.quantity \in 1..req[Only].row.quantity
  BY <1>1, <1>3, <1>4 DEF Rows
<1>8. LedgerPositions[sym] = req[Only].row
  BY <1>1, <1>2
<1>9. positions = [LedgerPositions EXCEPT ![sym] = AfterSell(req[Only].row, l.quantity)]
  BY <1>1, <1>2, <1>3
<1> QED  BY <1>2, <1>4, <1>5, <1>6, <1>7, <1>8, <1>9

\* Closing units, whichever step made the trade visible.
LEMMA LedgerCloses ==
    ASSUME BooksInv, Only \in Requests,
           pc[Only] = "trade" \/ SavingSell(Only),
           LedgerCash' = cash, LedgerPositions' = positions, opened' = opened,
           LedgerTrades' = [LedgerTrades EXCEPT ![req[Only].leg.symbol] =
                              AddTrade(@, req[Only].leg.quantity, LegPnl(Only))]
    PROVE  Ledger!Close(req[Only].leg.symbol, req[Only].leg.quantity, req[Only].leg.price)
<1> DEFINE l == req[Only].leg
           sym == req[Only].leg.symbol
           w == LegWorth(Only)
<1>1. /\ LedgerPositions[sym] = req[Only].row /\ l.quantity \in 1..req[Only].row.quantity
      /\ positions = [LedgerPositions EXCEPT ![sym] = Ledger!AfterSell(req[Only].row, l.quantity)]
      /\ opened /\ LedgerCash = req[Only].seen
      /\ cash = req[Only].seen + RateScale * w - Ledger!ExitCost(w)
  BY ClosedUnits
<1>2. Ledger!Worth(l.price, l.quantity, ContractSize[sym]) = w
  BY LedgerMoney DEF LegWorth
<1>3. Ledger!TradePnl(LedgerPositions[sym], l.quantity, l.price, ContractSize[sym]) = LegPnl(Only)
  BY <1>1, LedgerRows DEF LegPnl
<1>4. \A t : Ledger!AddTrade(t, l.quantity, LegPnl(Only)) = AddTrade(t, l.quantity, LegPnl(Only))
  BY LedgerRows
<1>5. LedgerCash' = LedgerCash + RateScale * w - Ledger!ExitCost(w)
  BY <1>1
<1>6. LedgerPositions' = [LedgerPositions EXCEPT ![sym] = Ledger!AfterSell(@, l.quantity)]
  BY <1>1
<1>7. LedgerTrades' = [LedgerTrades EXCEPT ![sym] = Ledger!AddTrade(@, l.quantity,
         Ledger!TradePnl(LedgerPositions[sym], l.quantity, l.price, ContractSize[sym]))]
  BY <1>3, <1>4
<1> HIDE DEF w
<1> QED  BY <1>1, <1>2, <1>5, <1>6, <1>7 DEF Ledger!Close

LEMMA SaveSellIsSell ==
    ASSUME BooksInv, Only \in Requests, SaveOrder(Only), req[Only].leg.side = "sell"
    PROVE  Ledger!Sell(req[Only].leg.symbol, req[Only].leg.quantity, req[Only].leg.price)
<1> DEFINE l == req[Only].leg
           sym == req[Only].leg.symbol
<1>1. /\ sym \in Symbols /\ pc \in [Requests -> Steps] /\ l.quantity \in Int /\ LegPnl(Only) \in Int
      /\ trades \in [Symbols -> [closed : Nat, pnl : Int]]
  BY BooksTypes DEF TypeOK
<1>2. /\ pc[Only] = "save" /\ pc'[Only] = "idle" /\ opened' = opened /\ cash' = cash
      /\ positions' = positions /\ trades' = trades
      /\ orders' = [orders EXCEPT ![sym] = AddSellOrder(@, l.quantity)]
  BY <1>1 DEF SaveOrder, Finish, Goto
<1>3. LedgerCash' = cash /\ LedgerPositions' = positions /\ LedgerTrades' = trades
  BY <1>2, NextStoreIsLedger DEF CashWritten
<1> DEFINE old == trades[sym]
           back == AddTrade(AddTrade(old, -l.quantity, -LegPnl(Only)), l.quantity, LegPnl(Only))
<1>4. LedgerTrades = [trades EXCEPT ![sym] = AddTrade(old, -l.quantity, -LegPnl(Only))]
  BY <1>2 DEF LedgerTrades
<1>5. back = old
  BY <1>1, TradeTakenBack
<1>6. [LedgerTrades EXCEPT ![sym] = AddTrade(@, l.quantity, LegPnl(Only))] = [trades EXCEPT ![sym] = back]
  BY <1>1, <1>4
<1>7. LedgerTrades' = [LedgerTrades EXCEPT ![sym] = AddTrade(@, l.quantity, LegPnl(Only))]
  BY <1>1, <1>3, <1>5, <1>6
<1>8. SavingSell(Only)
  BY <1>2 DEF SavingSell
<1>9. Ledger!Close(sym, l.quantity, l.price)
  BY <1>2, <1>3, <1>7, <1>8, LedgerCloses
<1>10. \A t : Ledger!AddSellOrder(t, l.quantity) = AddSellOrder(t, l.quantity)
  BY LedgerRows
<1>11. orders' = [orders EXCEPT ![sym] = Ledger!AddSellOrder(@, l.quantity)]
  BY <1>2, <1>10
<1> QED  BY <1>9, <1>11 DEF Ledger!Sell

LEMMA SettlementIsSettle ==
    ASSUME BooksInv, Only \in Requests, RecordTrade(Only), req[Only].leg.side = "expiry"
    PROVE  Ledger!Settle(req[Only].leg.symbol, req[Only].leg.price)
<1> DEFINE l == req[Only].leg
           sym == req[Only].leg.symbol
<1>1. pc \in [Requests -> Steps] /\ Posting(Only)
  BY BooksTypes DEF TypeOK
<1>2. /\ pc[Only] = "trade" /\ pc'[Only] = "settle" /\ opened' = opened /\ cash' = cash
      /\ positions' = positions /\ orders' = orders
      /\ trades' = [trades EXCEPT ![sym] = AddTrade(@, l.quantity, LegPnl(Only))]
  BY <1>1 DEF RecordTrade, Goto
<1>3. LedgerCash' = cash /\ LedgerPositions' = positions /\ LedgerTrades' = trades'
  BY <1>2, NextStoreIsLedger DEF CashWritten
<1>4. LedgerTrades = trades
  BY <1>2 DEF LedgerTrades
<1>5. Ledger!Close(sym, l.quantity, l.price)
  BY <1>2, <1>3, <1>4, LedgerCloses
<1>6. LedgerPositions[sym] = req[Only].row
  BY <1>2, ClosedUnits
<1>7. l.quantity = req[Only].row.quantity
  BY <1>1, <1>2 DEF Posting, RowSound
<1>8. Ledger!Close(sym, LedgerPositions[sym].quantity, l.price)
  BY <1>5, <1>6, <1>7
<1> QED  BY <1>2, <1>8 DEF Ledger!Settle

LEMMA OpeningOrResetting ==
    ASSUME BooksInv, Only \in Requests, InsertAccount(Only) \/ Reset(Only)
    PROVE  Ledger!Open \/ Ledger!Reset \/ UNCHANGED Ledger!ledger
<1>1. pc \in [Requests -> Steps] /\ Posting(Only)
  BY BooksTypes DEF TypeOK
<1>2. pc[Only] \in {"insert", "started"} /\ pc'[Only] \in {"started", "idle"}
  BY <1>1 DEF InsertAccount, Reset, Goto, Finish
<1>3. /\ LedgerCash = cash /\ LedgerPositions = positions /\ LedgerTrades = trades
      /\ LedgerCash' = cash' /\ LedgerPositions' = positions' /\ LedgerTrades' = trades'
  BY <1>2, StoreIsLedger, NextStoreIsLedger DEF CashWritten
<1>4. CASE InsertAccount(Only) /\ ~opened
  BY <1>3, <1>4 DEF InsertAccount, Ledger!Open
<1>5. CASE InsertAccount(Only) /\ opened
  BY <1>3, <1>5 DEF InsertAccount, Ledger!ledger
<1>6. CASE Reset(Only)
  <2>1. pc[Only] = "started"
    BY <1>6 DEF Reset
  <2>2. opened
    BY <1>1, <2>1 DEF Posting
  <2> QED  BY <1>3, <1>6, <2>2, LedgerMoney DEF Reset, Ledger!Reset
<1> QED  BY <1>4, <1>5, <1>6

LEMMA LedgerPostings ==
    ASSUME OneRequest, Requests # {}, BooksInv, [Next]_vars,
           \A r \in Requests : ~Crash(r)
    PROVE  LET l == req[Only].leg IN
           \/ UNCHANGED Ledger!ledger
           \/ Ledger!Open
           \/ Ledger!Reset
           \/ /\ l.symbol \in Symbols /\ l.price \in Prices
              /\ \/ Ledger!Settle(l.symbol, l.price)
                 \/ /\ l.quantity \in Quantities
                    /\ \/ SavingBuy(Only) /\ Ledger!Buy(l.symbol, l.quantity, l.price)
                       \/ Ledger!Sell(l.symbol, l.quantity, l.price)
<1>1. Only \in Requests /\ \A r \in Requests : r = Only
  BY DEF OneRequest, Only
<1>2. Posting(Only) /\ req[Only].leg.symbol \in Symbols
  BY <1>1, BooksTypes
<1> DEFINE l == req[Only].leg
<1>3. ASSUME pc[Only] = "save" \/ pc[Only] = "trade"
      PROVE  l.price \in Prices /\ (l.side \in {"buy", "sell"} => l.quantity \in Quantities)
  BY <1>2, <1>3 DEF Posting, LegFilled, Filled
<1>4. CASE SaveOrder(Only)
  <2>1. pc[Only] = "save" /\ l.side \in {"buy", "sell"}
    BY <1>2, <1>4 DEF SaveOrder, Posting, LegFilled
  <2>2. l.price \in Prices /\ l.quantity \in Quantities
    BY <1>3, <2>1
  <2>3. \/ SavingBuy(Only) /\ Ledger!Buy(l.symbol, l.quantity, l.price)
        \/ Ledger!Sell(l.symbol, l.quantity, l.price)
    BY <1>1, <1>4, <2>1, SaveBuyIsBuy, SaveSellIsSell DEF SavingBuy
  <2> QED  BY <1>2, <2>2, <2>3
<1>5. CASE RecordTrade(Only)
  <2>1. pc[Only] = "trade" /\ l.side \in {"sell", "expiry"}
    BY <1>2, <1>5 DEF RecordTrade, Posting, LegFilled
  <2>2. l.price \in Prices
    BY <1>3, <2>1
  <2>3. Ledger!Settle(l.symbol, l.price) \/ UNCHANGED Ledger!ledger
    BY <1>1, <1>5, <2>1, SettlementIsSettle, SellRecordIsHidden
  <2> QED  BY <1>2, <2>2, <2>3
<1>6. CASE InsertAccount(Only) \/ Reset(Only)
  BY <1>1, <1>6, OpeningOrResetting
<1>7. ASSUME pc' = pc, req' = req, UNCHANGED store
      PROVE  UNCHANGED Ledger!ledger
  <2>1. LegPnl(Only)' = LegPnl(Only)
    BY <1>7 DEF LegPnl
  <2> QED  BY <1>7, <2>1 DEF store, Ledger!ledger, LedgerCash, LedgerPositions, LedgerTrades
<1>8. CASE Start(Only) \/ Step(Only)
  BY <1>1, <1>4, <1>5, <1>6, <1>8, ReadingStepsAreQuiet, WritingStepsAreHidden DEF Step
<1>9. ~Crash(Only)
  BY <1>1
<1>10. ASSUME NEW s \in Symbols, Expire(s) \/ Delist(s)
       PROVE  UNCHANGED Ledger!ledger
  BY <1>7, <1>10 DEF Expire, Delist
<1>11. CASE UNCHANGED vars
  BY <1>7, <1>11 DEF vars, store
<1> QED  BY <1>1, <1>8, <1>9, <1>10, <1>11 DEF Next

LEMMA LedgerStep ==
    ASSUME OneRequest, Requests # {}, BooksInv, [Next]_vars,
           \A r \in Requests : ~Crash(r)
    PROVE  [Ledger!Next]_(Ledger!ledger)
BY LedgerPostings, LedgerMoney DEF Ledger!Next

LEMMA LedgerStart ==
    ASSUME Requests # {}, Init
    PROVE  Ledger!Init
<1>1. Only \in Requests /\ pc[Only] = "idle"
  BY DEF Only, Init
<1>2. LedgerCash = cash /\ LedgerPositions = positions /\ LedgerTrades = trades
  BY <1>1, StoreIsLedger DEF CashWritten
<1> QED  BY <1>2, LedgerMoney DEF Init, Ledger!Init

\* One request at a time, none of them dying: the store, written commit by
\* commit, shows nothing but whole postings of the account, for any symbols,
\* prices, sizes, fees and any sequence of orders, settlements and resets.
THEOREM BrokerImplementsLedger ==
    ASSUME SerialRequests
    PROVE  Spec => RefinesLedger
<1>1. Init => Ledger!Init
  BY LedgerStart DEF SerialRequests
<1>2. BooksInv /\ [Next]_vars => BooksInv'
  BY BooksStep DEF SerialRequests
<1>3. BooksInv => \A r \in Requests : ~Crash(r)
  BY BooksTypes DEF Crash, TypeOK, SerialRequests
<1>4. BooksInv /\ [Next]_vars => [Ledger!Next]_(Ledger!ledger)
  BY <1>3, LedgerStep DEF SerialRequests
<1> QED  BY BooksStart, <1>1, <1>2, <1>4, PTL DEF Spec, RefinesLedger, Ledger!Spec

-----------------------------------------------------------------------------
(* Sums over finite sets. The library's induction theorems take an operator *)
(* as parameter, so the induction is a set of subsets that holds the empty  *)
(* one and is closed under adding the element that the sum picks.           *)

Pick(S) == CHOOSE x \in S : TRUE

LEMMA SmallestSubset ==
    ASSUME NEW S, IsFiniteSet(S), NEW B \in SUBSET (SUBSET S), B # {}
    PROVE  \E T \in B : \A U \in B : U \subseteq T => U = T
<1> DEFINE R == StrictSubsetOrdering(S)
<1>1. IsWellFoundedOn(R, FiniteSubsetsOf(S))
  BY FS_StrictSubsetOrderingWellFounded
<1>2. FiniteSubsetsOf(S) = SUBSET S
  BY FS_FiniteSubsetsOfFinite
<1>3. \A s, t \in SUBSET S : <<t, s>> \in R <=> t \subseteq s /\ t # s
  BY DEF StrictSubsetOrdering
<1> HIDE DEF R
<1>4. PICK T \in B : \A U \in B : ~(<<U, T>> \in R)
  BY <1>1, <1>2, WFMin
<1>5. ASSUME NEW U \in B, U \subseteq T PROVE U = T
  <2>1. U \in SUBSET S /\ T \in SUBSET S /\ ~(<<U, T>> \in R)
    BY <1>4
  <2> QED  BY <1>3, <1>5, <2>1
<1> QED  BY <1>5

LEMMA PickIn == \A S : S # {} => Pick(S) \in S
BY DEF Pick

LEMMA SubsetInduction ==
    ASSUME NEW S, IsFiniteSet(S), NEW A \in SUBSET (SUBSET S), {} \in A,
           \A T \in SUBSET S : T # {} /\ T \ {Pick(T)} \in A => T \in A
    PROVE  S \in A
<1> DEFINE B == (SUBSET S) \ A
<1>1. SUFFICES ASSUME B # {} PROVE FALSE
  OBVIOUS
<1>2. B \in SUBSET (SUBSET S)
  OBVIOUS
<1>3. PICK T \in B : \A U \in B : U \subseteq T => U = T
  <2> HIDE DEF B
  <2> QED  BY <1>1, <1>2, SmallestSubset
<1>4. T \in SUBSET S /\ T \notin A
  BY <1>3
<1>5. T # {}
  BY <1>4
<1>6. Pick(T) \in T
  BY <1>5, PickIn
<1>7. T \ {Pick(T)} \in SUBSET S /\ T \ {Pick(T)} # T /\ T \ {Pick(T)} \subseteq T
  BY <1>4, <1>6
<1>8. T \ {Pick(T)} \notin B
  BY <1>3, <1>7
<1>9. T \ {Pick(T)} \in A
  BY <1>7, <1>8
<1> QED  BY <1>4, <1>5, <1>9

\* The function behind SumFunctionOnSet, on the subsets of S.
Folding(g, f, S) ==
    g = [s \in SUBSET S |-> IF s = {} THEN 0 ELSE f[Pick(s)] + g[s \ {Pick(s)}]]

\* Two such functions agree where both are defined.
LEMMA FoldingUnique ==
    ASSUME NEW f, NEW S, NEW T, NEW g, NEW h, NEW s, IsFiniteSet(s),
           s \subseteq S, s \subseteq T, Folding(g, f, S), Folding(h, f, T)
    PROVE  g[s] = h[s]
<1> DEFINE A == {t \in SUBSET s : g[t] = h[t]}
<1>1. ASSUME NEW t \in SUBSET s, t # {}
      PROVE  /\ g[t] = f[Pick(t)] + g[t \ {Pick(t)}]
             /\ h[t] = f[Pick(t)] + h[t \ {Pick(t)}]
  <2>1. t \in SUBSET S /\ t \in SUBSET T
    OBVIOUS
  <2> QED  BY <1>1, <2>1, Zenon DEF Folding
<1>2. g[{}] = 0 /\ h[{}] = 0
  <2>1. {} \in SUBSET S /\ {} \in SUBSET T
    OBVIOUS
  <2> QED  BY <2>1, Zenon DEF Folding
<1>3. {} \in A
  BY <1>2
<1>4. ASSUME NEW t \in SUBSET s, t # {}, t \ {Pick(t)} \in A
      PROVE  t \in A
  <2>1. g[t \ {Pick(t)}] = h[t \ {Pick(t)}]
    BY <1>4
  <2>2. g[t] = h[t]
    BY <1>1, <1>4, <2>1
  <2> QED  BY <2>2
<1>5. s \in A
  <2>1. A \in SUBSET (SUBSET s)
    OBVIOUS
  <2> HIDE DEF A
  <2> QED  BY <1>3, <1>4, <2>1, SubsetInduction
<1> QED  BY <1>5

LEMMA FoldingExists ==
    ASSUME NEW f, NEW S, IsFiniteSet(S)
    PROVE  \E g : Folding(g, f, S)
<1> DEFINE B == {T \in SUBSET S : \A g : ~Folding(g, f, T)}
<1>1. SUFFICES ASSUME B # {} PROVE FALSE
  OBVIOUS
<1>2. B \in SUBSET (SUBSET S)
  OBVIOUS
<1>3. PICK T \in B : \A U \in B : U \subseteq T => U = T
  <2> HIDE DEF B
  <2> QED  BY <1>1, <1>2, SmallestSubset
<1>4. T \in SUBSET S
  OBVIOUS
<1>5. \A g : ~Folding(g, f, T)
  OBVIOUS
<1> DEFINE part(s) == CHOOSE g : Folding(g, f, s)
<1>6. ASSUME NEW s \in SUBSET T, s # T
      PROVE  Folding(part(s), f, s)
  <2>1. s \in SUBSET S
    BY <1>4
  <2>2. s \notin B
    BY <1>3, <1>6
  <2>3. \E g : Folding(g, f, s)
    BY <2>1, <2>2
  <2> QED  BY <2>3, Zenon
<1> DEFINE whole == [s \in SUBSET T |->
                       IF s = {} THEN 0
                       ELSE f[Pick(s)] + part(s \ {Pick(s)})[s \ {Pick(s)}]]
<1>7. ASSUME NEW s \in SUBSET T, s # T
      PROVE  whole[s] = part(s)[s]
  <2>0. Folding(part(s), f, s) /\ s \in SUBSET s
    BY <1>6, <1>7
  <2> HIDE DEF part
  <2>1. CASE s = {}
    <3>1. part(s)[s] = 0
      BY <2>0, <2>1, Zenon DEF Folding
    <3> QED  BY <2>1, <3>1
  <2>2. CASE s # {}
    <3> DEFINE u == s \ {Pick(s)}
    <3>1. Pick(s) \in s /\ u \in SUBSET s /\ u \in SUBSET T /\ u # T
      BY <1>7, <2>2 DEF Pick
    <3>2. part(s)[s] = f[Pick(s)] + part(s)[u]
      BY <2>0, <2>2, Zenon DEF Folding
    <3>3. Folding(part(u), f, u)
      BY <1>6, <3>1
    <3>4. IsFiniteSet(u)
      BY <1>4, <3>1, FS_Subset
    <3> HIDE DEF u
    <3>5. part(s)[u] = part(u)[u]
      BY <2>0, <3>1, <3>3, <3>4, FoldingUnique
    <3>6. whole[s] = f[Pick(s)] + part(u)[u]
      BY <2>2 DEF u
    <3> QED  BY <3>2, <3>5, <3>6
  <2> QED  BY <2>1, <2>2
<1>8. Folding(whole, f, T)
  <2>1. ASSUME NEW s \in SUBSET T, s # {}
        PROVE  part(s \ {Pick(s)})[s \ {Pick(s)}] = whole[s \ {Pick(s)}]
    <3>1. s \ {Pick(s)} \in SUBSET T /\ s \ {Pick(s)} # T
      BY <2>1 DEF Pick
    <3> HIDE DEF whole, part
    <3> QED  BY <1>7, <3>1
  <2>2. whole = [s \in SUBSET T |-> IF s = {} THEN 0 ELSE f[Pick(s)] + whole[s \ {Pick(s)}]]
    <3> DEFINE again == [s \in SUBSET T |-> IF s = {} THEN 0 ELSE f[Pick(s)] + whole[s \ {Pick(s)}]]
    <3>1. \A s \in SUBSET T : whole[s] = again[s]
      <4> SUFFICES ASSUME NEW s \in SUBSET T PROVE whole[s] = again[s]
        OBVIOUS
      <4>1. again[s] = IF s = {} THEN 0 ELSE f[Pick(s)] + whole[s \ {Pick(s)}]
        <5> HIDE DEF whole
        <5> QED  OBVIOUS
      <4>2. whole[s] = IF s = {} THEN 0 ELSE f[Pick(s)] + part(s \ {Pick(s)})[s \ {Pick(s)}]
        <5> HIDE DEF part
        <5> QED  OBVIOUS
      <4> HIDE DEF whole, part, again
      <4> QED  BY <2>1, <4>1, <4>2
    <3>2. whole = [s \in SUBSET T |-> whole[s]]
      <4> HIDE DEF part
      <4> QED  OBVIOUS
    <3>3. again = [s \in SUBSET T |-> again[s]]
      <4> HIDE DEF whole
      <4> QED  OBVIOUS
    <3> HIDE DEF whole, again
    <3>4. whole = again
      BY <3>1, <3>2, <3>3, Zenon
    <3> QED  BY <3>4 DEF again
  <2> HIDE DEF whole
  <2> QED  BY <2>2 DEF Folding
<1> QED  BY <1>5, <1>8

LEMMA SumIsFold ==
    ASSUME NEW f, NEW S, IsFiniteSet(S)
    PROVE  \E g : Folding(g, f, S) /\ SumFunctionOnSet(f, S) = g[S]
<1> DEFINE fold == CHOOSE g : Folding(g, f, S)
<1>1. SumFunctionOnSet(f, S) = fold[S]
  BY DEF SumFunctionOnSet, FoldFunctionOnSet, MapThenFoldSet, Folding, Pick
<1>2. Folding(fold, f, S)
  BY FoldingExists
<1> QED  BY <1>1, <1>2

\* A sum is what the picked element adds to the sum over the others.
LEMMA SumPicks ==
    ASSUME NEW f, NEW S, IsFiniteSet(S)
    PROVE  /\ S = {} => SumFunctionOnSet(f, S) = 0
           /\ S # {} => SumFunctionOnSet(f, S) = f[Pick(S)] + SumFunctionOnSet(f, S \ {Pick(S)})
<1>1. PICK g : Folding(g, f, S) /\ SumFunctionOnSet(f, S) = g[S]
  BY SumIsFold
<1>2. S \in SUBSET S
  OBVIOUS
<1>3. CASE S = {}
  BY <1>1, <1>2, <1>3, Zenon DEF Folding
<1>4. CASE S # {}
  <2> DEFINE U == S \ {Pick(S)}
  <2>1. IsFiniteSet(U) /\ U \subseteq S /\ U \subseteq U
    BY FS_Subset
  <2>2. g[S] = f[Pick(S)] + g[U]
    BY <1>1, <1>2, <1>4, Zenon DEF Folding
  <2> HIDE DEF U
  <2>3. PICK h : Folding(h, f, U) /\ SumFunctionOnSet(f, U) = h[U]
    BY <2>1, SumIsFold
  <2>4. g[U] = h[U]
    BY <1>1, <2>1, <2>3, FoldingUnique
  <2>5. SumFunctionOnSet(f, S) = f[Pick(S)] + SumFunctionOnSet(f, U)
    BY <1>1, <2>2, <2>3, <2>4
  <2> QED  BY <1>4, <2>5 DEF U
<1> QED  BY <1>3, <1>4

LEMMA SumSame ==
    ASSUME NEW f, NEW g, NEW S, IsFiniteSet(S), \A t \in S : f[t] = g[t]
    PROVE  SumFunctionOnSet(f, S) = SumFunctionOnSet(g, S)
<1> DEFINE A == {T \in SUBSET S : SumFunctionOnSet(f, T) = SumFunctionOnSet(g, T)}
<1>1. {} \in A
  <2>1. IsFiniteSet({})
    BY FS_EmptySet
  <2>2. SumFunctionOnSet(f, {}) = 0 /\ SumFunctionOnSet(g, {}) = 0
    BY <2>1, SumPicks
  <2> QED  BY <2>2
<1>2. ASSUME NEW T \in SUBSET S, T # {}, T \ {Pick(T)} \in A
      PROVE  T \in A
  <2>1. IsFiniteSet(T) /\ Pick(T) \in S
    BY <1>2, FS_Subset, PickIn
  <2>2. /\ SumFunctionOnSet(f, T) = f[Pick(T)] + SumFunctionOnSet(f, T \ {Pick(T)})
        /\ SumFunctionOnSet(g, T) = g[Pick(T)] + SumFunctionOnSet(g, T \ {Pick(T)})
    BY <1>2, <2>1, SumPicks
  <2>3. SumFunctionOnSet(f, T \ {Pick(T)}) = SumFunctionOnSet(g, T \ {Pick(T)}) /\ f[Pick(T)] = g[Pick(T)]
    BY <1>2, <2>1
  <2>4. SumFunctionOnSet(f, T) = SumFunctionOnSet(g, T)
    BY <2>2, <2>3
  <2> QED  BY <2>4
<1>3. A \in SUBSET (SUBSET S)
  OBVIOUS
<1>4. S \in A
  <2> HIDE DEF A
  <2> QED  BY <1>1, <1>2, <1>3, SubsetInduction
<1> QED  BY <1>4

LEMMA SumIsInt ==
    ASSUME NEW f, NEW S, IsFiniteSet(S), \A t \in S : f[t] \in Int
    PROVE  SumFunctionOnSet(f, S) \in Int
<1> DEFINE A == {T \in SUBSET S : SumFunctionOnSet(f, T) \in Int}
<1>1. {} \in A
  <2>1. IsFiniteSet({})
    BY FS_EmptySet
  <2>2. SumFunctionOnSet(f, {}) = 0
    BY <2>1, SumPicks
  <2> QED  BY <2>2
<1>2. ASSUME NEW T \in SUBSET S, T # {}, T \ {Pick(T)} \in A
      PROVE  T \in A
  <2>1. IsFiniteSet(T) /\ Pick(T) \in S
    BY <1>2, FS_Subset, PickIn
  <2>2. SumFunctionOnSet(f, T) = f[Pick(T)] + SumFunctionOnSet(f, T \ {Pick(T)})
    BY <1>2, <2>1, SumPicks
  <2>3. SumFunctionOnSet(f, T \ {Pick(T)}) \in Int /\ f[Pick(T)] \in Int
    BY <1>2, <2>1
  <2>4. SumFunctionOnSet(f, T) \in Int
    BY <2>2, <2>3
  <2> QED  BY <2>4
<1>3. A \in SUBSET (SUBSET S)
  OBVIOUS
<1>4. S \in A
  <2> HIDE DEF A
  <2> QED  BY <1>1, <1>2, <1>3, SubsetInduction
<1> QED  BY <1>4

LEMMA SumIsNat ==
    ASSUME NEW f, NEW S, IsFiniteSet(S), \A t \in S : f[t] \in Nat
    PROVE  SumFunctionOnSet(f, S) \in Nat
<1> DEFINE A == {T \in SUBSET S : SumFunctionOnSet(f, T) \in Nat}
<1>1. {} \in A
  <2>1. IsFiniteSet({})
    BY FS_EmptySet
  <2>2. SumFunctionOnSet(f, {}) = 0
    BY <2>1, SumPicks
  <2> QED  BY <2>2
<1>2. ASSUME NEW T \in SUBSET S, T # {}, T \ {Pick(T)} \in A
      PROVE  T \in A
  <2>1. IsFiniteSet(T) /\ Pick(T) \in S
    BY <1>2, FS_Subset, PickIn
  <2>2. SumFunctionOnSet(f, T) = f[Pick(T)] + SumFunctionOnSet(f, T \ {Pick(T)})
    BY <1>2, <2>1, SumPicks
  <2>3. SumFunctionOnSet(f, T \ {Pick(T)}) \in Nat /\ f[Pick(T)] \in Nat
    BY <1>2, <2>1
  <2>4. SumFunctionOnSet(f, T) \in Nat
    BY <2>2, <2>3
  <2> QED  BY <2>4
<1>3. A \in SUBSET (SUBSET S)
  OBVIOUS
<1>4. S \in A
  <2> HIDE DEF A
  <2> QED  BY <1>1, <1>2, <1>3, SubsetInduction
<1> QED  BY <1>4

\* A change of one summand is a change of the sum.
LEMMA SumChange ==
    ASSUME NEW f, NEW g, NEW S, IsFiniteSet(S), NEW s \in S,
           \A t \in S : f[t] \in Int /\ g[t] \in Int,
           \A t \in S \ {s} : g[t] = f[t]
    PROVE  SumFunctionOnSet(g, S) = SumFunctionOnSet(f, S) - f[s] + g[s]
<1> DEFINE A == {T \in SUBSET S :
                   s \in T => SumFunctionOnSet(g, T) = SumFunctionOnSet(f, T) - f[s] + g[s]}
<1>1. {} \in A
  OBVIOUS
<1>2. ASSUME NEW T \in SUBSET S, T # {}, T \ {Pick(T)} \in A
      PROVE  T \in A
  <2> DEFINE x == Pick(T)
             U == T \ {Pick(T)}
  <2>1. IsFiniteSet(T) /\ IsFiniteSet(U) /\ x \in S /\ x \in T
    BY <1>2, FS_Subset, PickIn
  <2>2. /\ SumFunctionOnSet(f, T) = f[x] + SumFunctionOnSet(f, U)
        /\ SumFunctionOnSet(g, T) = g[x] + SumFunctionOnSet(g, U)
    BY <1>2, <2>1, SumPicks
  <2>3. SumFunctionOnSet(f, U) \in Int /\ SumFunctionOnSet(g, U) \in Int
    BY <2>1, SumIsInt
  <2>4. f[x] \in Int /\ g[x] \in Int /\ f[s] \in Int /\ g[s] \in Int
    BY <2>1
  <2>5. CASE s = x
    <3>1. \A t \in U : g[t] = f[t]
      BY <2>5
    <3> HIDE DEF U, x
    <3>2. SumFunctionOnSet(g, U) = SumFunctionOnSet(f, U)
      BY <2>1, <3>1, SumSame
    <3>3. SumFunctionOnSet(g, T) = SumFunctionOnSet(f, T) - f[s] + g[s]
      BY <2>2, <2>3, <2>4, <2>5, <3>2
    <3> QED  BY <3>3
  <2>6. CASE s # x /\ s \in T
    <3>1. s \in U /\ U \in A
      BY <1>2, <2>6
    <3>2. SumFunctionOnSet(g, U) = SumFunctionOnSet(f, U) - f[s] + g[s]
      BY <3>1
    <3>3. g[x] = f[x]
      BY <2>1, <2>6
    <3> HIDE DEF U, x
    <3>4. SumFunctionOnSet(g, T) = SumFunctionOnSet(f, T) - f[s] + g[s]
      BY <2>2, <2>3, <2>4, <3>2, <3>3
    <3> QED  BY <3>4
  <2>7. CASE s \notin T
    BY <2>7
  <2> QED  BY <2>5, <2>6, <2>7
<1>3. A \in SUBSET (SUBSET S)
  OBVIOUS
<1>4. S \in A
  <2> HIDE DEF A
  <2> QED  BY <1>1, <1>2, <1>3, SubsetInduction
<1> QED  BY <1>4

LEMMA SumOfZeros ==
    ASSUME NEW f, NEW S, IsFiniteSet(S), \A t \in S : f[t] = 0
    PROVE  SumFunctionOnSet(f, S) = 0
<1> DEFINE A == {T \in SUBSET S : SumFunctionOnSet(f, T) = 0}
<1>1. {} \in A
  <2>1. IsFiniteSet({})
    BY FS_EmptySet
  <2>2. SumFunctionOnSet(f, {}) = 0
    BY <2>1, SumPicks
  <2> QED  BY <2>2
<1>2. ASSUME NEW T \in SUBSET S, T # {}, T \ {Pick(T)} \in A
      PROVE  T \in A
  <2>1. IsFiniteSet(T) /\ Pick(T) \in S
    BY <1>2, FS_Subset, PickIn
  <2>2. SumFunctionOnSet(f, T) = f[Pick(T)] + SumFunctionOnSet(f, T \ {Pick(T)})
    BY <1>2, <2>1, SumPicks
  <2>3. SumFunctionOnSet(f, T \ {Pick(T)}) = 0 /\ f[Pick(T)] = 0
    BY <1>2, <2>1
  <2>4. SumFunctionOnSet(f, T) = 0
    BY <2>2, <2>3
  <2> QED  BY <2>4
<1>3. A \in SUBSET (SUBSET S)
  OBVIOUS
<1>4. S \in A
  <2> HIDE DEF A
  <2> QED  BY <1>1, <1>2, <1>3, SubsetInduction
<1> QED  BY <1>4

-----------------------------------------------------------------------------
(* The books balance.                                                      *)

\* Integer division stands for the code's float division: whenever a buy
\* averages two prices, the mean is a whole number of money units.
MeansAreExact ==
    \A r \in Requests : (SavingBuy(r) /\ IsOpen(req[r].row)) =>
        (req[r].row.quantity * req[r].row.average_price
           + req[r].leg.quantity * req[r].leg.price)
          % (req[r].row.quantity + req[r].leg.quantity) = 0

Cost(row, s) == Notional(row.average_price, row.quantity, ContractSize[s])
Costs == [s \in Symbols |-> Cost(LedgerPositions[s], s)]
Gains == [s \in Symbols |-> LedgerTrades[s].pnl - orders[s].entryFees]

\* The strengthening: the ledger balances at every step of a posting, and
\* there is nothing in the tables before the account row is there.
Balanced ==
    crashes = 0 =>
      IF opened
      THEN LedgerCash + SumFunctionOnSet(Costs, Symbols)
             = InitialBalance + SumFunctionOnSet(Gains, Symbols)
      ELSE /\ LedgerPositions = [s \in Symbols |-> NoPosition]
           /\ LedgerTrades = [s \in Symbols |-> EmptyTrades]
           /\ orders = [s \in Symbols |-> EmptyOrders]

LEMMA ExactDivision ==
    ASSUME NEW c \in Nat, NEW n \in Nat \ {0}, c % n = 0
    PROVE  n * (c \div n) = c
OBVIOUS

LEMMA CostTypes ==
    /\ \A s \in Symbols : Cost(NoPosition, s) = 0
    /\ \A row \in Rows, s \in Symbols : Cost(row, s) \in Int
<1>1. ASSUME NEW s \in Symbols PROVE Cost(NoPosition, s) = 0
  <2>1. Cost(NoPosition, s) = RateScale * (0 * 0 * ContractSize[s])
    BY DEF Cost, Notional, Worth, NoPosition
  <2>2. ContractSize[s] \in Nat /\ RateScale \in Nat
    BY MoneyAssumption
  <2> QED  BY <2>1, <2>2
<1>2. ASSUME NEW row \in Rows, NEW s \in Symbols PROVE Cost(row, s) \in Int
  <2>1. row.average_price \in Nat /\ row.quantity \in Nat /\ ContractSize[s] \in Nat
    BY MoneyAssumption DEF Rows
  <2>2. Notional(row.average_price, row.quantity, ContractSize[s]) \in Nat
    BY <2>1, MoneyTypes
  <2> QED  BY <2>2 DEF Cost
<1> QED  BY <1>1, <1>2

\* An account without rows is the initial balance.
LEMMA NothingOpen ==
    ASSUME IsFiniteSet(Symbols)
    PROVE  /\ SumFunctionOnSet([s \in Symbols |-> Cost(NoPosition, s)], Symbols) = 0
           /\ SumFunctionOnSet([s \in Symbols |-> EmptyTrades.pnl - EmptyOrders.entryFees], Symbols) = 0
<1>1. \A t \in Symbols : [s \in Symbols |-> Cost(NoPosition, s)][t] = 0
  BY CostTypes
<1>2. \A t \in Symbols : [s \in Symbols |-> EmptyTrades.pnl - EmptyOrders.entryFees][t] = 0
  <2>1. EmptyTrades.pnl - EmptyOrders.entryFees = 0
    BY DEF EmptyTrades, EmptyOrders
  <2> QED  BY <2>1
<1>3. SumFunctionOnSet([s \in Symbols |-> Cost(NoPosition, s)], Symbols) = 0
  BY <1>1, SumOfZeros
<1>4. SumFunctionOnSet([s \in Symbols |-> EmptyTrades.pnl - EmptyOrders.entryFees], Symbols) = 0
  BY <1>2, SumOfZeros
<1> QED  BY <1>3, <1>4

LEMMA LedgerTypes ==
    ASSUME BooksInv, Only \in Requests
    PROVE  /\ LedgerCash \in Int /\ LedgerPositions \in [Symbols -> Rows]
           /\ LedgerTrades \in [Symbols -> [closed : Int, pnl : Int]]
           /\ orders \in [Symbols -> [bought : Nat, sold : Nat, entryFees : Nat]]
           /\ Costs \in [Symbols -> Int] /\ Gains \in [Symbols -> Int]
<1> DEFINE sym == req[Only].leg.symbol
<1>1. /\ cash \in Int /\ req[Only].seen \in Int /\ req[Only].row \in Rows
      /\ positions \in [Symbols -> Rows] /\ sym \in Symbols
      /\ req[Only].leg.quantity \in Int /\ LegPnl(Only) \in Int
      /\ trades \in [Symbols -> [closed : Nat, pnl : Int]]
      /\ orders \in [Symbols -> [bought : Nat, sold : Nat, entryFees : Nat]]
  BY BooksTypes DEF TypeOK
<1>2. LedgerCash \in Int
  BY <1>1 DEF LedgerCash
<1>3. LedgerPositions \in [Symbols -> Rows]
  BY <1>1 DEF LedgerPositions
<1>4. LedgerTrades \in [Symbols -> [closed : Int, pnl : Int]]
  <2>1. \A t \in [closed : Nat, pnl : Int], q, m \in Int :
           AddTrade(t, -q, -m) \in [closed : Int, pnl : Int]
    BY DEF AddTrade
  <2>2. trades \in [Symbols -> [closed : Int, pnl : Int]]
    BY <1>1
  <2>3. AddTrade(trades[sym], -req[Only].leg.quantity, -LegPnl(Only)) \in [closed : Int, pnl : Int]
    BY <1>1, <2>1
  <2> QED  BY <1>1, <2>2, <2>3 DEF LedgerTrades
<1>5. \A s \in Symbols : Cost(LedgerPositions[s], s) \in Int
  BY <1>3, CostTypes
<1>6. \A s \in Symbols : LedgerTrades[s].pnl - orders[s].entryFees \in Int
  BY <1>1, <1>4
<1> QED  BY <1>1, <1>2, <1>3, <1>4, <1>5, <1>6 DEF Costs, Gains

\* A buy moves what it costs from the cash to the position, and its fee out.
LEMMA BuyMoves ==
    ASSUME NEW w \in Rows, NEW q \in Nat \ {0}, NEW p \in Nat, NEW s \in Symbols,
           IsOpen(w) => (w.quantity * w.average_price + q * p) % (w.quantity + q) = 0
    PROVE  Cost(AfterBuy(w, q, p), s) = Cost(w, s) + RateScale * Worth(p, q, ContractSize[s])
<1> DEFINE m == w.quantity
           a == w.average_price
           z == ContractSize[s]
           v == AfterBuy(w, q, p)
<1>1. m \in Nat /\ a \in Nat /\ z \in Nat /\ RateScale \in Nat
  BY MoneyAssumption DEF Rows
<1>2. v.average_price * v.quantity = a * m + p * q
  <2>1. CASE IsOpen(w)
    <3> DEFINE n == m + q
               c == m * a + q * p
    <3>1. n \in Nat \ {0} /\ c \in Nat /\ c % n = 0
      <4>1. n \in Nat \ {0}
        BY <1>1, <2>1 DEF IsOpen
      <4>2. m * a \in Nat /\ q * p \in Nat
        BY <1>1
      <4>3. c \in Nat
        BY <4>2
      <4>4. c % n = 0
        BY <2>1, Zenon
      <4> QED  BY <4>1, <4>3, <4>4
    <3>2. v.average_price = c \div n /\ v.quantity = n
      BY <2>1 DEF AfterBuy
    <3> HIDE DEF n, c, v, m, a
    <3>3. n * (c \div n) = c /\ c \div n \in Int
      BY <3>1, ExactDivision
    <3>4. (c \div n) * n = n * (c \div n)
      <4> DEFINE k == c \div n
      <4>1. k \in Int /\ n \in Int
        BY <3>1, <3>3
      <4> HIDE DEF k
      <4>2. k * n = n * k
        BY <4>1
      <4> QED  BY <4>2 DEF k
    <3>5. c = a * m + p * q
      BY <1>1 DEF c
    <3> QED  BY <3>2, <3>3, <3>4, <3>5
  <2>2. CASE ~IsOpen(w)
    <3>1. m = 0 /\ v.average_price = p /\ v.quantity = q
      BY <1>1, <2>2 DEF AfterBuy, IsOpen
    <3> QED  BY <1>1, <3>1
  <2> QED  BY <2>1, <2>2
<1>3. /\ Cost(v, s) = RateScale * (v.average_price * v.quantity * z)
      /\ Cost(w, s) = RateScale * (a * m * z)
      /\ RateScale * Worth(p, q, z) = RateScale * (p * q * z)
  BY DEF Cost, Notional, Worth
<1> HIDE DEF v, m, a, z
<1>4. v.average_price * v.quantity * z = (a * m + p * q) * z
  BY <1>2
<1>5. (a * m + p * q) * z = a * m * z + p * q * z
  BY <1>1
<1>6. RateScale * (a * m * z + p * q * z) = RateScale * (a * m * z) + RateScale * (p * q * z)
  BY <1>1
<1>7. Cost(v, s) = Cost(w, s) + RateScale * Worth(p, q, z)
  BY <1>3, <1>4, <1>5, <1>6
<1> QED  BY <1>7 DEF v, z

\* A sell moves the cost of what it closes out of the position: what comes in
\* is that cost plus the profit of the trade.
LEMMA SellMoves ==
    ASSUME NEW w \in Rows, NEW q \in Nat, q <= w.quantity, NEW p \in Nat, NEW s \in Symbols
    PROVE  Cost(AfterSell(w, q), s)
             = Cost(w, s) + TradePnl(w, q, p, ContractSize[s])
                 + ExitCost(Worth(p, q, ContractSize[s]))
                 - RateScale * Worth(p, q, ContractSize[s])
<1> DEFINE m == w.quantity
           a == w.average_price
           z == ContractSize[s]
           v == AfterSell(w, q)
           fee == ExitCost(Worth(p, q, z))
<1>1. m \in Nat /\ a \in Nat /\ z \in Nat /\ RateScale \in Nat /\ q <= m
  BY MoneyAssumption DEF Rows
<1>2. fee \in Nat
  BY <1>1, MoneyTypes
<1>3. v.average_price * v.quantity = a * m - a * q
  <2>1. CASE m - q <= 0
    <3>1. m = q /\ v.average_price = 0 /\ v.quantity = 0
      BY <1>1, <2>1 DEF AfterSell, NoPosition
    <3> QED  BY <1>1, <3>1
  <2>2. CASE ~(m - q <= 0)
    <3>1. v.average_price = a /\ v.quantity = m - q
      BY <2>2 DEF AfterSell, Rows
    <3>2. a * (m - q) = a * m - a * q
      BY <1>1
    <3> HIDE DEF v, m, a
    <3> QED  BY <3>1, <3>2
  <2> QED  BY <2>1, <2>2
<1>4. /\ Cost(v, s) = RateScale * (v.average_price * v.quantity * z)
      /\ Cost(w, s) = RateScale * (a * m * z)
      /\ RateScale * Worth(p, q, z) = RateScale * (p * q * z)
      /\ TradePnl(w, q, p, z) = RateScale * (p - a) * q * z - fee
  BY DEF Cost, Notional, Worth, TradePnl
<1> HIDE DEF v, m, a, z, fee
<1>5. v.average_price * v.quantity * z = (a * m - a * q) * z
  BY <1>3
<1>6. (a * m - a * q) * z = a * m * z - a * q * z
  BY <1>1
<1>7. RateScale * (a * m * z - a * q * z) = RateScale * (a * m * z) - RateScale * (a * q * z)
  BY <1>1
<1>8. RateScale * (p - a) * q * z = RateScale * (p * q * z) - RateScale * (a * q * z)
  <2>1. RateScale * (p - a) = RateScale * p - RateScale * a
    BY <1>1
  <2>2. (RateScale * p - RateScale * a) * q = RateScale * p * q - RateScale * a * q
    BY <1>1
  <2>3. (RateScale * p * q - RateScale * a * q) * z = RateScale * p * q * z - RateScale * a * q * z
    BY <1>1
  <2>4. RateScale * p * q * z = RateScale * (p * q * z) /\ RateScale * a * q * z = RateScale * (a * q * z)
    BY <1>1
  <2> QED  BY <2>1, <2>2, <2>3, <2>4
<1>9. /\ RateScale * (a * m * z) \in Int /\ RateScale * (a * q * z) \in Int
      /\ RateScale * (p * q * z) \in Int
  BY <1>1
<1>10. Cost(v, s) = Cost(w, s) + TradePnl(w, q, p, z) + fee - RateScale * Worth(p, q, z)
  BY <1>2, <1>4, <1>5, <1>6, <1>7, <1>8, <1>9
<1> QED  BY <1>10 DEF v, z, fee

BooksEqual == LedgerCash + SumFunctionOnSet(Costs, Symbols)
                = InitialBalance + SumFunctionOnSet(Gains, Symbols)

\* A posting on one symbol that moves as much cash as it moves cost and gain.
LEMMA PostingBalances ==
    ASSUME BooksInv, Only \in Requests, IsFiniteSet(Symbols), BooksEqual,
           LedgerCash' \in Int, LedgerPositions' \in [Symbols -> Rows],
           LedgerTrades' \in [Symbols -> [closed : Int, pnl : Int]],
           orders' \in [Symbols -> [bought : Nat, sold : Nat, entryFees : Nat]],
           NEW s \in Symbols,
           \A t \in Symbols \ {s} : /\ LedgerPositions'[t] = LedgerPositions[t]
                                    /\ LedgerTrades'[t] = LedgerTrades[t]
                                    /\ orders'[t] = orders[t],
           LedgerCash' - LedgerCash
             = (LedgerTrades'[s].pnl - LedgerTrades[s].pnl)
                 - (orders'[s].entryFees - orders[s].entryFees)
                 - (Cost(LedgerPositions'[s], s) - Cost(LedgerPositions[s], s))
    PROVE  BooksEqual'
<1>1. /\ LedgerCash \in Int /\ LedgerPositions \in [Symbols -> Rows]
      /\ LedgerTrades \in [Symbols -> [closed : Int, pnl : Int]]
      /\ orders \in [Symbols -> [bought : Nat, sold : Nat, entryFees : Nat]]
      /\ Costs \in [Symbols -> Int] /\ Gains \in [Symbols -> Int]
  BY LedgerTypes
<1> DEFINE w == [t \in Symbols |-> Cost(LedgerPositions'[t], t)]
           h == [t \in Symbols |-> LedgerTrades'[t].pnl - orders'[t].entryFees]
<1>2. \A t \in Symbols : w[t] = Cost(LedgerPositions'[t], t) /\ Cost(LedgerPositions'[t], t) \in Int
  BY CostTypes
<1>3. \A t \in Symbols : /\ h[t] = LedgerTrades'[t].pnl - orders'[t].entryFees
                         /\ LedgerTrades'[t].pnl \in Int /\ orders'[t].entryFees \in Int
  OBVIOUS
<1>4. \A t \in Symbols : /\ Costs[t] = Cost(LedgerPositions[t], t)
                         /\ Gains[t] = LedgerTrades[t].pnl - orders[t].entryFees
                         /\ LedgerTrades[t].pnl \in Int /\ orders[t].entryFees \in Int
                         /\ Costs[t] \in Int /\ Gains[t] \in Int
  BY <1>1 DEF Costs, Gains
<1>5. Costs' = w /\ Gains' = h
  BY DEF Costs, Gains
<1> HIDE DEF w, h
<1>6. \A t \in Symbols : w[t] \in Int /\ h[t] \in Int
  BY <1>2, <1>3
<1>7. SumFunctionOnSet(w, Symbols) = SumFunctionOnSet(Costs, Symbols) - Costs[s] + w[s]
  <2>1. \A t \in Symbols \ {s} : w[t] = Costs[t]
    BY <1>2, <1>4
  <2> QED  BY <1>4, <1>6, <2>1, SumChange
<1>8. SumFunctionOnSet(h, Symbols) = SumFunctionOnSet(Gains, Symbols) - Gains[s] + h[s]
  <2>1. \A t \in Symbols \ {s} : h[t] = Gains[t]
    BY <1>3, <1>4
  <2> QED  BY <1>4, <1>6, <2>1, SumChange
<1>9. SumFunctionOnSet(Costs, Symbols) \in Int /\ SumFunctionOnSet(Gains, Symbols) \in Int
  BY <1>4, SumIsInt
<1>10. LedgerCash' - LedgerCash = (h[s] - Gains[s]) - (w[s] - Costs[s])
  BY <1>1, <1>2, <1>3, <1>4
<1>11. LedgerCash + SumFunctionOnSet(Costs, Symbols) = InitialBalance + SumFunctionOnSet(Gains, Symbols)
  BY DEF BooksEqual
<1>12. w[s] \in Int /\ h[s] \in Int /\ Costs[s] \in Int /\ Gains[s] \in Int /\ InitialBalance \in Int
  BY <1>4, <1>6, MoneyAssumption
<1>13. LedgerCash' + SumFunctionOnSet(w, Symbols) = InitialBalance + SumFunctionOnSet(h, Symbols)
  <2> DEFINE c == LedgerCash
             d == LedgerCash'
             v == SumFunctionOnSet(Costs, Symbols)
             g == SumFunctionOnSet(Gains, Symbols)
  <2>1. c \in Int /\ d \in Int /\ v \in Int /\ g \in Int
    BY <1>1, <1>9
  <2>2. d - c = (h[s] - Gains[s]) - (w[s] - Costs[s]) /\ c + v = InitialBalance + g
    BY <1>10, <1>11
  <2>3. SumFunctionOnSet(w, Symbols) = v - Costs[s] + w[s]
    BY <1>7
  <2>4. SumFunctionOnSet(h, Symbols) = g - Gains[s] + h[s]
    BY <1>8
  <2> HIDE DEF c, d, v, g
  <2>5. d + (v - Costs[s] + w[s]) = InitialBalance + (g - Gains[s] + h[s])
    <3>1. PICK i \in Int, j \in Int, k \in Int, m \in Int, b \in Int :
             i = h[s] /\ j = Gains[s] /\ k = w[s] /\ m = Costs[s] /\ b = InitialBalance
      BY <1>12
    <3>2. d - c = (i - j) - (k - m) /\ c + v = b + g
      BY <2>2, <3>1
    <3>3. d + (v - m + k) = b + (g - j + i)
      <4>1. d = c + ((i - j) - (k - m))
        BY <2>1, <3>2
      <4>2. d + (v - m + k) = (c + v) + (i - j)
        BY <2>1, <4>1
      <4> QED  BY <2>1, <3>2, <4>2
    <3> QED  BY <3>1, <3>3
  <2>6. d + SumFunctionOnSet(w, Symbols) = InitialBalance + SumFunctionOnSet(h, Symbols)
    BY <2>3, <2>4, <2>5
  <2> QED  BY <2>6 DEF d
<1> QED  BY <1>5, <1>13 DEF BooksEqual

LEMMA BuyBalances ==
    ASSUME BooksInv, Only \in Requests, IsFiniteSet(Symbols), BooksEqual,
           NEW s \in Symbols, NEW q \in Nat \ {0}, NEW p \in Nat, Ledger!Buy(s, q, p),
           IsOpen(LedgerPositions[s]) =>
             (LedgerPositions[s].quantity * LedgerPositions[s].average_price + q * p)
               % (LedgerPositions[s].quantity + q) = 0
    PROVE  BooksEqual'
<1> DEFINE row == LedgerPositions[s]
           worth == Worth(p, q, ContractSize[s])
           new == AfterBuy(row, q, p)
           order == AddBuyOrder(orders[s], q, EntryCost(worth))
<1>1. /\ LedgerCash \in Int /\ LedgerPositions \in [Symbols -> Rows] /\ row \in Rows
      /\ LedgerTrades \in [Symbols -> [closed : Int, pnl : Int]]
      /\ orders \in [Symbols -> [bought : Nat, sold : Nat, entryFees : Nat]]
  BY LedgerTypes
<1>2. worth \in Nat /\ EntryCost(worth) \in Nat /\ RateScale * worth \in Int
  <2>1. ContractSize[s] \in Nat /\ RateScale \in Nat
    BY MoneyAssumption
  <2>2. worth \in Nat
    BY <2>1, MoneyTypes
  <2> HIDE DEF worth
  <2>3. EntryCost(worth) \in Nat
    BY <2>2, MoneyTypes
  <2>4. RateScale * worth \in Int
    BY <2>1, <2>2
  <2> QED  BY <2>2, <2>3, <2>4
<1>3. new \in Rows
  BY <1>1, RowsClosed
<1>4. Cost(new, s) = Cost(row, s) + RateScale * worth
  BY <1>1, BuyMoves
<1>5. Cost(new, s) \in Int /\ Cost(row, s) \in Int
  BY <1>1, <1>3, CostTypes
<1>6. /\ Ledger!Worth(p, q, ContractSize[s]) = worth /\ Ledger!EntryCost(worth) = EntryCost(worth)
      /\ Ledger!AfterBuy(row, q, p) = new
      /\ Ledger!AddBuyOrder(orders[s], q, EntryCost(worth)) = order
  BY LedgerMoney, LedgerRows
<1> HIDE DEF worth, new, order
<1>7. /\ LedgerCash' = LedgerCash - RateScale * worth - EntryCost(worth)
      /\ LedgerPositions' = [LedgerPositions EXCEPT ![s] = new]
      /\ orders' = [orders EXCEPT ![s] = order]
      /\ LedgerTrades' = LedgerTrades
  BY <1>6 DEF Ledger!Buy
<1>8. order \in [bought : Nat, sold : Nat, entryFees : Nat]
      /\ order.entryFees = orders[s].entryFees + EntryCost(worth)
  BY <1>1, <1>2, TablesClosed DEF order, AddBuyOrder
<1>9. LedgerPositions'[s] = new /\ orders'[s] = order /\ LedgerTrades'[s] = LedgerTrades[s]
  BY <1>1, <1>7
<1>10. LedgerPositions' \in [Symbols -> Rows]
       /\ orders' \in [Symbols -> [bought : Nat, sold : Nat, entryFees : Nat]]
  BY <1>1, <1>3, <1>7, <1>8
<1>11. \A t \in Symbols \ {s} : /\ LedgerPositions'[t] = LedgerPositions[t]
                                /\ LedgerTrades'[t] = LedgerTrades[t]
                                /\ orders'[t] = orders[t]
  BY <1>1, <1>7
<1>12. LedgerCash' \in Int /\ orders[s].entryFees \in Int /\ LedgerTrades[s].pnl \in Int
  BY <1>1, <1>2, <1>7
<1>13. LedgerCash' - LedgerCash
         = (LedgerTrades'[s].pnl - LedgerTrades[s].pnl)
             - (orders'[s].entryFees - orders[s].entryFees)
             - (Cost(LedgerPositions'[s], s) - Cost(LedgerPositions[s], s))
  BY <1>1, <1>2, <1>4, <1>5, <1>7, <1>8, <1>9, <1>12
<1> HIDE DEF row
<1> QED  BY <1>1, <1>7, <1>10, <1>11, <1>12, <1>13, PostingBalances

LEMMA CloseBalances ==
    ASSUME BooksInv, Only \in Requests, IsFiniteSet(Symbols), BooksEqual,
           NEW s \in Symbols, NEW q \in Nat, NEW p \in Nat, Ledger!Close(s, q, p),
           NEW order \in [bought : Nat, sold : Nat, entryFees : Nat],
           order.entryFees = orders[s].entryFees, orders' = [orders EXCEPT ![s] = order]
    PROVE  BooksEqual'
<1> DEFINE row == LedgerPositions[s]
           worth == Worth(p, q, ContractSize[s])
           new == AfterSell(row, q)
           pnl == TradePnl(row, q, p, ContractSize[s])
           trade == AddTrade(LedgerTrades[s], q, pnl)
<1>1. /\ LedgerCash \in Int /\ LedgerPositions \in [Symbols -> Rows] /\ row \in Rows
      /\ LedgerTrades \in [Symbols -> [closed : Int, pnl : Int]]
      /\ orders \in [Symbols -> [bought : Nat, sold : Nat, entryFees : Nat]]
  BY LedgerTypes
<1>2. worth \in Nat /\ ExitCost(worth) \in Nat /\ RateScale * worth \in Int /\ pnl \in Int
  <2>1. ContractSize[s] \in Nat /\ RateScale \in Nat
    BY MoneyAssumption
  <2>2. worth \in Nat
    BY <1>1, <2>1, MoneyTypes
  <2>3. pnl \in Int
    BY <1>1, <2>1, MoneyTypes
  <2> HIDE DEF worth, pnl
  <2>4. ExitCost(worth) \in Nat
    BY <2>2, MoneyTypes
  <2>5. RateScale * worth \in Int
    BY <2>1, <2>2
  <2> QED  BY <2>2, <2>3, <2>4, <2>5
<1>3. new \in Rows
  BY <1>1, RowsClosed
<1>4. q <= row.quantity
  BY <1>1 DEF Ledger!Close, Rows
<1>5. Cost(new, s) = Cost(row, s) + pnl + ExitCost(worth) - RateScale * worth
  BY <1>1, <1>4, SellMoves
<1>6. Cost(new, s) \in Int /\ Cost(row, s) \in Int
  BY <1>1, <1>3, CostTypes
<1>7. /\ Ledger!Worth(p, q, ContractSize[s]) = worth /\ Ledger!ExitCost(worth) = ExitCost(worth)
      /\ Ledger!AfterSell(row, q) = new /\ Ledger!TradePnl(row, q, p, ContractSize[s]) = pnl
      /\ Ledger!AddTrade(LedgerTrades[s], q, pnl) = trade
  BY LedgerMoney, LedgerRows
<1> HIDE DEF worth, new, pnl, trade
<1>8. /\ LedgerCash' = LedgerCash + RateScale * worth - ExitCost(worth)
      /\ LedgerPositions' = [LedgerPositions EXCEPT ![s] = new]
      /\ LedgerTrades' = [LedgerTrades EXCEPT ![s] = trade]
  BY <1>7 DEF Ledger!Close
<1>9. trade \in [closed : Int, pnl : Int] /\ trade.pnl = LedgerTrades[s].pnl + pnl
  BY <1>1, <1>2 DEF trade, AddTrade
<1>10. /\ LedgerPositions'[s] = new /\ orders'[s].entryFees = orders[s].entryFees
       /\ LedgerTrades'[s] = trade
  BY <1>1, <1>8
<1>11. LedgerPositions' \in [Symbols -> Rows] /\ LedgerTrades' \in [Symbols -> [closed : Int, pnl : Int]]
  BY <1>1, <1>3, <1>8, <1>9
<1>12. \A t \in Symbols \ {s} : /\ LedgerPositions'[t] = LedgerPositions[t]
                                /\ LedgerTrades'[t] = LedgerTrades[t]
                                /\ orders'[t] = orders[t]
  BY <1>1, <1>8
<1>13. LedgerCash' \in Int /\ orders[s].entryFees \in Int /\ LedgerTrades[s].pnl \in Int
  BY <1>1, <1>2, <1>8
<1>14. LedgerCash' - LedgerCash
         = (LedgerTrades'[s].pnl - LedgerTrades[s].pnl)
             - (orders'[s].entryFees - orders[s].entryFees)
             - (Cost(LedgerPositions'[s], s) - Cost(LedgerPositions[s], s))
  BY <1>1, <1>2, <1>5, <1>6, <1>8, <1>9, <1>10, <1>13
<1> HIDE DEF row
<1> QED  BY <1>1, <1>11, <1>12, <1>13, <1>14, PostingBalances

\* A request that dies is counted, and nothing else changes the count.
LEMMA CrashCount ==
    ASSUME BooksInv, [Next]_vars, crashes' = 0
    PROVE  crashes = 0 /\ \A r \in Requests : ~Crash(r)
<1>1. crashes \in Nat
  BY DEF BooksInv, PaidInv, TypeOK
<1>2. ASSUME NEW r \in Requests PROVE ~Crash(r)
  BY <1>1 DEF Crash
<1>3. ASSUME NEW r \in Requests, Start(r) \/ Step(r)
      PROVE  crashes' = crashes
  BY <1>3 DEF Start, Step, InsertAccount, Reset, ListPositions, EndSettlement, LeaveOpen,
     BeginSettlement, RejectOrder, FillOrder, BuyReadCash, BuyDebit, BuyReadRow, BuyWriteRow,
     SellReadRow, SellReadCash, Credit, CloseRow, RecordTrade, SaveOrder
<1>4. ASSUME NEW s \in Symbols, Expire(s) \/ Delist(s)
      PROVE  crashes' = crashes
  BY <1>4 DEF Expire, Delist
<1>5. ASSUME UNCHANGED vars PROVE crashes' = crashes
  BY <1>5 DEF vars
<1>6. crashes' = crashes
  BY <1>2, <1>3, <1>4, <1>5 DEF Next
<1> QED  BY <1>2, <1>6

LEMMA BalancedStep ==
    ASSUME OneRequest, Requests # {}, IsFiniteSet(Symbols), BooksInv, MeansAreExact,
           Balanced, [Next]_vars
    PROVE  Balanced'
<1> DEFINE l == req[Only].leg
<1>1. SUFFICES ASSUME crashes' = 0
               PROVE  IF opened'
                      THEN BooksEqual'
                      ELSE /\ LedgerPositions' = [s \in Symbols |-> NoPosition]
                           /\ LedgerTrades' = [s \in Symbols |-> EmptyTrades]
                           /\ orders' = [s \in Symbols |-> EmptyOrders]
  BY DEF Balanced, BooksEqual
<1>2. Only \in Requests /\ crashes = 0
  BY <1>1, CrashCount DEF Only
<1>3. opened => BooksEqual
  BY <1>2 DEF Balanced, BooksEqual
<1>4. ~opened => /\ LedgerPositions = [s \in Symbols |-> NoPosition]
                 /\ LedgerTrades = [s \in Symbols |-> EmptyTrades]
                 /\ orders = [s \in Symbols |-> EmptyOrders]
  BY <1>2 DEF Balanced
<1>5. CASE UNCHANGED Ledger!ledger
  <2>1. /\ opened' = opened /\ LedgerCash' = LedgerCash /\ LedgerPositions' = LedgerPositions
        /\ LedgerTrades' = LedgerTrades /\ orders' = orders
    BY <1>5 DEF Ledger!ledger
  <2>2. Costs' = Costs /\ Gains' = Gains
    BY <2>1 DEF Costs, Gains
  <2>3. BooksEqual => BooksEqual'
    BY <2>1, <2>2 DEF BooksEqual
  <2> QED  BY <1>3, <1>4, <2>1, <2>3
<1>6. ASSUME LedgerCash' = InitialBalance, opened',
             LedgerPositions' = [s \in Symbols |-> NoPosition],
             LedgerTrades' = [s \in Symbols |-> EmptyTrades],
             orders' = [s \in Symbols |-> EmptyOrders]
      PROVE  BooksEqual'
  <2>1. Costs' = [s \in Symbols |-> Cost(NoPosition, s)]
    BY <1>6 DEF Costs
  <2>2. Gains' = [s \in Symbols |-> EmptyTrades.pnl - EmptyOrders.entryFees]
    BY <1>6 DEF Gains
  <2>3. SumFunctionOnSet(Costs', Symbols) = 0 /\ SumFunctionOnSet(Gains', Symbols) = 0
    BY <2>1, <2>2, NothingOpen
  <2> QED  BY <1>6, <2>3, MoneyAssumption DEF BooksEqual
<1>7. CASE Ledger!Open \/ Ledger!Reset
  <2>1. opened' /\ LedgerCash' = InitialBalance
    BY <1>7 DEF Ledger!Open, Ledger!Reset
  <2>2. /\ LedgerPositions' = [s \in Symbols |-> NoPosition]
        /\ LedgerTrades' = [s \in Symbols |-> EmptyTrades]
        /\ orders' = [s \in Symbols |-> EmptyOrders]
    BY <1>4, <1>7, LedgerMoney DEF Ledger!Open, Ledger!Reset
  <2> QED  BY <1>6, <2>1, <2>2
<1>8. /\ LedgerPositions \in [Symbols -> Rows]
      /\ orders \in [Symbols -> [bought : Nat, sold : Nat, entryFees : Nat]]
      /\ l.quantity \in Nat /\ l.price \in Nat /\ req[Only].row \in Rows
  BY <1>2, LedgerTypes, BooksTypes
<1>9. ASSUME l.symbol \in Symbols, l.quantity \in Quantities, SavingBuy(Only),
             Ledger!Buy(l.symbol, l.quantity, l.price)
      PROVE  opened' /\ BooksEqual'
  <2>1. LedgerPositions[l.symbol] = req[Only].row
    <3>1. positions \in [Symbols -> Rows]
      BY <1>2, BooksTypes
    <3>2. LedgerPositions = [positions EXCEPT ![l.symbol] = req[Only].row]
      BY <1>9 DEF LedgerPositions, SavingBuy, RowWritten
    <3> QED  BY <1>9, <3>1, <3>2
  <2>2. l.quantity \in Nat \ {0}
    BY <1>9, MoneyAssumption DEF Quantities
  <2>3. IsOpen(LedgerPositions[l.symbol]) =>
          (LedgerPositions[l.symbol].quantity * LedgerPositions[l.symbol].average_price
             + l.quantity * l.price) % (LedgerPositions[l.symbol].quantity + l.quantity) = 0
    BY <1>2, <1>9, <2>1 DEF MeansAreExact
  <2>4. opened /\ opened' = opened
    BY <1>9 DEF Ledger!Buy
  <2> HIDE DEF l
  <2> QED  BY <1>2, <1>3, <1>8, <1>9, <2>2, <2>3, <2>4, BuyBalances
<1>10. ASSUME l.symbol \in Symbols, NEW q \in Nat, Ledger!Close(l.symbol, q, l.price),
              NEW order \in [bought : Nat, sold : Nat, entryFees : Nat],
              order.entryFees = orders[l.symbol].entryFees,
              orders' = [orders EXCEPT ![l.symbol] = order]
       PROVE  opened' /\ BooksEqual'
  <2>1. opened /\ opened' = opened
    BY <1>10 DEF Ledger!Close
  <2> HIDE DEF l
  <2> QED  BY <1>2, <1>3, <1>8, <1>10, <2>1, CloseBalances
<1>11. ASSUME l.symbol \in Symbols, Ledger!Sell(l.symbol, l.quantity, l.price)
       PROVE  opened' /\ BooksEqual'
  <2> DEFINE order == AddSellOrder(orders[l.symbol], l.quantity)
  <2>1. Ledger!AddSellOrder(orders[l.symbol], l.quantity) = order
    BY LedgerRows
  <2>2. order \in [bought : Nat, sold : Nat, entryFees : Nat]
    BY <1>8, <1>11, TablesClosed
  <2>3. order.entryFees = orders[l.symbol].entryFees
    BY DEF AddSellOrder
  <2> HIDE DEF order
  <2>4. Ledger!Close(l.symbol, l.quantity, l.price) /\ orders' = [orders EXCEPT ![l.symbol] = order]
    BY <1>11, <2>1 DEF Ledger!Sell
  <2> HIDE DEF l
  <2> QED  BY <1>8, <1>10, <1>11, <2>2, <2>3, <2>4
<1>12. ASSUME l.symbol \in Symbols, Ledger!Settle(l.symbol, l.price)
       PROVE  opened' /\ BooksEqual'
  <2>1. /\ Ledger!Close(l.symbol, LedgerPositions[l.symbol].quantity, l.price)
        /\ orders' = orders
    BY <1>12 DEF Ledger!Settle
  <2>2. LedgerPositions[l.symbol].quantity \in Nat
    BY <1>8, <1>12 DEF Rows
  <2>3. orders' = [orders EXCEPT ![l.symbol] = orders[l.symbol]]
    BY <1>8, <2>1
  <2>4. orders[l.symbol] \in [bought : Nat, sold : Nat, entryFees : Nat]
    BY <1>8, <1>12
  <2> HIDE DEF l
  <2> QED  BY <1>10, <1>12, <2>1, <2>2, <2>3, <2>4
<1>13. \/ UNCHANGED Ledger!ledger
       \/ Ledger!Open \/ Ledger!Reset
       \/ l.symbol \in Symbols /\ Ledger!Settle(l.symbol, l.price)
       \/ /\ l.symbol \in Symbols /\ l.quantity \in Quantities
          /\ SavingBuy(Only) /\ Ledger!Buy(l.symbol, l.quantity, l.price)
       \/ l.symbol \in Symbols /\ Ledger!Sell(l.symbol, l.quantity, l.price)
  BY <1>1, CrashCount, LedgerPostings
<1> HIDE DEF l
<1> QED  BY <1>5, <1>7, <1>9, <1>11, <1>12, <1>13

LEMMA BalancedStart ==
    ASSUME Requests # {}, Init
    PROVE  Balanced
<1>1. Only \in Requests /\ pc[Only] = "idle"
  BY DEF Only, Init
<1>2. LedgerPositions = positions /\ LedgerTrades = trades
  BY <1>1, StoreIsLedger DEF CashWritten
<1> QED  BY <1>2 DEF Init, Balanced

\* One request at a time: whatever is bought, sold, settled and reset, and in
\* whatever order, the cash plus the cost of the positions is the initial
\* balance plus the profit of the trades minus the entry fees, until a request
\* dies half way. For any finite set of symbols and wherever means are exact.
THEOREM SerialBooksBalance ==
    ASSUME OneRequest, Requests # {}, IsFiniteSet(Symbols), ~ChainExpires
    PROVE  Spec /\ []MeansAreExact => []BooksBalance
<1>1. Init => BooksInv /\ Balanced
  BY BooksStart, BalancedStart
<1>2. BooksInv /\ Balanced /\ MeansAreExact /\ [Next]_vars => BooksInv' /\ Balanced'
  BY BooksStep, BalancedStep
<1>3. BooksInv /\ Balanced => BooksBalance
  <2> SUFFICES ASSUME BooksInv, Balanced, opened, AtRest, crashes = 0
               PROVE  Imbalance = 0
    BY DEF BooksBalance
  <2>1. Only \in Requests /\ pc[Only] = "idle"
    BY DEF Only, AtRest
  <2>2. LedgerCash = cash /\ LedgerPositions = positions /\ LedgerTrades = trades
    BY <2>1, StoreIsLedger DEF CashWritten
  <2>3. Costs = [s \in Symbols |->
                   Notional(positions[s].average_price, positions[s].quantity, ContractSize[s])]
    BY <2>2 DEF Costs, Cost
  <2>4. Gains = [s \in Symbols |-> trades[s].pnl - orders[s].entryFees]
    BY <2>2 DEF Gains
  <2>5. SumFunction(Costs) = SumFunctionOnSet(Costs, Symbols)
    BY DEF SumFunction, Costs
  <2>6. SumFunction(Gains) = SumFunctionOnSet(Gains, Symbols)
    BY DEF SumFunction, Gains
  <2>7. LedgerCash + SumFunctionOnSet(Costs, Symbols) = InitialBalance + SumFunctionOnSet(Gains, Symbols)
    BY DEF Balanced
  <2>8. Imbalance = cash + SumFunctionOnSet(Costs, Symbols) - InitialBalance
                      - SumFunctionOnSet(Gains, Symbols)
    BY <2>3, <2>4, <2>5, <2>6 DEF Imbalance
  <2>9. TypeOK
    BY DEF BooksInv, PaidInv
  <2>10. (\A s \in Symbols : Costs[s] \in Int) /\ \A s \in Symbols : Gains[s] \in Int
    <3>1. \A s \in Symbols : ContractSize[s] \in Nat
      BY MoneyAssumption
    <3>2. \A s \in Symbols : /\ positions[s].average_price \in Nat /\ positions[s].quantity \in Nat
                             /\ trades[s].pnl \in Int /\ orders[s].entryFees \in Nat
      BY <2>9 DEF TypeOK, Rows
    <3>3. ASSUME NEW s \in Symbols PROVE Costs[s] \in Int
      <4>1. Costs[s] = Notional(positions[s].average_price, positions[s].quantity, ContractSize[s])
        BY <2>3
      <4>2. Notional(positions[s].average_price, positions[s].quantity, ContractSize[s]) \in Nat
        BY <3>1, <3>2, MoneyTypes
      <4> QED  BY <4>1, <4>2
    <3>4. ASSUME NEW s \in Symbols PROVE Gains[s] \in Int
      <4>1. Gains[s] = trades[s].pnl - orders[s].entryFees
        BY <2>4
      <4> QED  BY <3>2, <4>1
    <3> QED  BY <3>3, <3>4
  <2>11. SumFunctionOnSet(Costs, Symbols) \in Int /\ SumFunctionOnSet(Gains, Symbols) \in Int
    BY <2>10, SumIsInt
  <2>12. cash \in Int /\ InitialBalance \in Int
    BY <2>9, MoneyAssumption DEF TypeOK
  <2> QED  BY <2>2, <2>7, <2>8, <2>11, <2>12
<1> QED  BY <1>1, <1>2, <1>3, PTL DEF Spec

-----------------------------------------------------------------------------
(* Any number of requests at a time: the order history shows no fill that   *)
(* was not applied.                                                        *)

SellSteps == {"sellReadRow", "sellReadCash", "credit", "closeRow", "trade"}

\* Contracts that request r has debited, or whose trade it has recorded, and
\* whose order row it has not saved yet.
BoughtUnits(r, s) ==
    IF /\ pc[r] \in {"buyReadRow", "buyWriteRow", "save"}
       /\ req[r].leg.side = "buy" /\ req[r].leg.symbol = s
    THEN req[r].leg.quantity ELSE 0

SoldUnits(r, s) ==
    IF pc[r] = "save" /\ req[r].leg.side # "buy" /\ req[r].leg.symbol = s
    THEN req[r].leg.quantity ELSE 0

UnsavedBuys(s) == [r \in Requests |-> BoughtUnits(r, s)]
UnsavedSells(s) == [r \in Requests |-> SoldUnits(r, s)]

SideSound(r) ==
    /\ pc[r] \in Buying => req[r].leg.side = "buy"
    /\ pc[r] \in SellSteps => req[r].leg.side # "buy"
    /\ req[r].ask.kind \in Kinds \union {"none"}

Applied(s) ==
    /\ orders[s].bought + SumFunctionOnSet(UnsavedBuys(s), Requests) <= paid[s]
    /\ orders[s].sold + SumFunctionOnSet(UnsavedSells(s), Requests) <= trades[s].closed

AppliedInv ==
    TypeOK /\ (\A r \in Requests : SideSound(r)) /\ \A s \in Symbols : Applied(s)

\* The units of a leg and of the tables are numbers.
LEMMA UnitTypes ==
    ASSUME TypeOK
    PROVE  /\ \A r \in Requests, s \in Symbols : BoughtUnits(r, s) \in Nat /\ SoldUnits(r, s) \in Nat
           /\ \A s \in Symbols : /\ orders[s].bought \in Nat /\ orders[s].sold \in Nat
                                 /\ paid[s] \in Nat /\ trades[s].closed \in Nat
<1>1. \A r \in Requests : req[r].leg.quantity \in Nat
  BY DEF TypeOK, Locals, Legs
<1>2. \A s \in Symbols : /\ orders[s].bought \in Nat /\ orders[s].sold \in Nat
                         /\ paid[s] \in Nat /\ trades[s].closed \in Nat
  BY DEF TypeOK
<1> QED  BY <1>1, <1>2 DEF BoughtUnits, SoldUnits

\* A step of one request that adds to the orders no more than it takes from
\* the unsaved units and adds to what was debited and closed.
LEMMA OneMove ==
    ASSUME AppliedInv, TypeOK', IsFiniteSet(Requests), NEW r \in Requests, NEW s \in Symbols,
           \A t \in Requests \ {r} : pc'[t] = pc[t] /\ req'[t] = req[t],
           orders'[s].bought + BoughtUnits(r, s)' + paid[s]
             <= orders[s].bought + BoughtUnits(r, s) + paid'[s],
           orders'[s].sold + SoldUnits(r, s)' + trades[s].closed
             <= orders[s].sold + SoldUnits(r, s) + trades'[s].closed
    PROVE  Applied(s)'
<1> DEFINE b == [t \in Requests |-> BoughtUnits(t, s)']
           c == [t \in Requests |-> SoldUnits(t, s)']
<1>1. TypeOK /\ Applied(s)
  BY DEF AppliedInv
<1>2. /\ \A t \in Requests : UnsavedBuys(s)[t] \in Int /\ UnsavedSells(s)[t] \in Int
      /\ orders[s].bought \in Nat /\ orders[s].sold \in Nat
      /\ paid[s] \in Nat /\ trades[s].closed \in Nat
  BY <1>1, UnitTypes DEF UnsavedBuys, UnsavedSells
<1>3. /\ \A t \in Requests : b[t] \in Int /\ c[t] \in Int
      /\ orders'[s].bought \in Nat /\ orders'[s].sold \in Nat
      /\ paid'[s] \in Nat /\ trades'[s].closed \in Nat
  <2>1. \A t \in Requests : req'[t].leg.quantity \in Nat
    BY DEF TypeOK, Locals, Legs
  <2>2. \A t \in Requests : b[t] \in Int /\ c[t] \in Int
    BY <2>1 DEF BoughtUnits, SoldUnits
  <2>3. /\ orders'[s].bought \in Nat /\ orders'[s].sold \in Nat
        /\ paid'[s] \in Nat /\ trades'[s].closed \in Nat
    BY DEF TypeOK
  <2> QED  BY <2>2, <2>3
<1>4. \A t \in Requests \ {r} : b[t] = UnsavedBuys(s)[t] /\ c[t] = UnsavedSells(s)[t]
  BY DEF BoughtUnits, SoldUnits, UnsavedBuys, UnsavedSells
<1>5. /\ b[r] = BoughtUnits(r, s)' /\ UnsavedBuys(s)[r] = BoughtUnits(r, s)
      /\ c[r] = SoldUnits(r, s)' /\ UnsavedSells(s)[r] = SoldUnits(r, s)
  BY DEF UnsavedBuys, UnsavedSells
<1>6. UnsavedBuys(s)' = b /\ UnsavedSells(s)' = c
  BY DEF UnsavedBuys, UnsavedSells
<1> HIDE DEF b, c
<1>7. SumFunctionOnSet(b, Requests)
        = SumFunctionOnSet(UnsavedBuys(s), Requests) - UnsavedBuys(s)[r] + b[r]
  BY <1>2, <1>3, <1>4, SumChange
<1>8. SumFunctionOnSet(c, Requests)
        = SumFunctionOnSet(UnsavedSells(s), Requests) - UnsavedSells(s)[r] + c[r]
  BY <1>2, <1>3, <1>4, SumChange
<1>9. /\ SumFunctionOnSet(UnsavedBuys(s), Requests) \in Int
      /\ SumFunctionOnSet(UnsavedSells(s), Requests) \in Int
  BY <1>2, SumIsInt
<1>10. orders'[s].bought + SumFunctionOnSet(b, Requests) <= paid'[s]
  <2> DEFINE v == SumFunctionOnSet(UnsavedBuys(s), Requests)
             y == UnsavedBuys(s)[r]
             z == b[r]
  <2>1. /\ orders[s].bought + v <= paid[s]
        /\ orders'[s].bought + z + paid[s] <= orders[s].bought + y + paid'[s]
    BY <1>1, <1>5 DEF Applied
  <2>2. v \in Int /\ y \in Int /\ z \in Int
    BY <1>2, <1>3, <1>9
  <2>3. SumFunctionOnSet(b, Requests) = v - y + z
    BY <1>7
  <2> HIDE DEF v, y, z
  <2>4. orders'[s].bought + (v - y + z) <= paid'[s]
    BY <1>2, <1>3, <2>1, <2>2
  <2> QED  BY <2>3, <2>4
<1>11. orders'[s].sold + SumFunctionOnSet(c, Requests) <= trades'[s].closed
  <2> DEFINE v == SumFunctionOnSet(UnsavedSells(s), Requests)
             y == UnsavedSells(s)[r]
             z == c[r]
  <2>1. /\ orders[s].sold + v <= trades[s].closed
        /\ orders'[s].sold + z + trades[s].closed <= orders[s].sold + y + trades'[s].closed
    BY <1>1, <1>5 DEF Applied
  <2>2. v \in Int /\ y \in Int /\ z \in Int
    BY <1>2, <1>3, <1>9
  <2>3. SumFunctionOnSet(c, Requests) = v - y + z
    BY <1>8
  <2> HIDE DEF v, y, z
  <2>4. orders'[s].sold + (v - y + z) <= trades'[s].closed
    BY <1>2, <1>3, <2>1, <2>2
  <2> QED  BY <2>3, <2>4
<1> QED  BY <1>6, <1>10, <1>11 DEF Applied

\* A step of r leaves the other requests where they are.
LEMMA OthersStay ==
    ASSUME TypeOK, NEW r \in Requests, Start(r) \/ Step(r) \/ Crash(r)
    PROVE  \A t \in Requests \ {r} : pc'[t] = pc[t] /\ req'[t] = req[t]
<1> USE DEF Goto, Finish, TypeOK
<1>1. CASE Start(r) \/ InsertAccount(r) \/ Reset(r) \/ ListPositions(r) \/ EndSettlement(r)
  BY <1>1 DEF Start, InsertAccount, Reset, ListPositions, EndSettlement
<1>2. CASE \E s \in Symbols : LeaveOpen(r, s) \/ BeginSettlement(r, s)
  BY <1>2 DEF LeaveOpen, BeginSettlement
<1>3. CASE RejectOrder(r) \/ FillOrder(r) \/ BuyDebit(r) \/ BuyReadRow(r) \/ BuyWriteRow(r)
  BY <1>3 DEF RejectOrder, FillOrder, BuyDebit, BuyReadRow, BuyWriteRow
<1>4. CASE BuyReadCash(r)
  BY <1>4 DEF BuyReadCash
<1>5. CASE SellReadRow(r) \/ SellReadCash(r) \/ Credit(r) \/ CloseRow(r)
  BY <1>5 DEF SellReadRow, SellReadCash, Credit, CloseRow
<1>6. CASE RecordTrade(r) \/ SaveOrder(r) \/ Crash(r)
  BY <1>6 DEF RecordTrade, SaveOrder, Crash
<1> QED  BY <1>1, <1>2, <1>3, <1>4, <1>5, <1>6 DEF Step

\* The steps that save, debit or record nothing.
Plain(r) ==
    \/ Start(r) \/ InsertAccount(r) \/ ListPositions(r) \/ EndSettlement(r)
    \/ \E s \in Symbols : LeaveOpen(r, s) \/ BeginSettlement(r, s)
    \/ RejectOrder(r) \/ FillOrder(r) \/ BuyReadCash(r)
    \/ SellReadRow(r) \/ SellReadCash(r) \/ Credit(r) \/ CloseRow(r) \/ Crash(r)

LEMMA PlainSteps ==
    ASSUME TypeOK, NEW r \in Requests, Plain(r)
    PROVE  /\ pc'[r] \notin {"buyReadRow", "buyWriteRow", "save"}
           /\ orders' = orders /\ paid' = paid /\ trades' = trades
<1> USE DEF Goto, Finish, store
<1>1. /\ orders' = orders /\ paid' = paid /\ trades' = trades
  BY DEF Plain, Start, InsertAccount, ListPositions, EndSettlement, LeaveOpen,
     BeginSettlement, RejectOrder, FillOrder, BuyReadCash, SellReadRow, SellReadCash,
     Credit, CloseRow, Crash
<1>2. pc \in [Requests -> Steps]
  BY DEF TypeOK
<1>3. CASE Start(r) \/ InsertAccount(r) \/ ListPositions(r) \/ EndSettlement(r)
  <2>1. pc'[r] \in {"started", "insert", "idle", "settle", "check"}
    BY <1>2, <1>3 DEF Start, InsertAccount, ListPositions, EndSettlement
  <2> QED  BY <1>1, <2>1
<1>4. CASE \E s \in Symbols : LeaveOpen(r, s) \/ BeginSettlement(r, s)
  <2>1. pc'[r] \in {"settle", "credit"}
    BY <1>2, <1>4 DEF LeaveOpen, BeginSettlement
  <2> QED  BY <1>1, <2>1
<1>5. CASE RejectOrder(r) \/ FillOrder(r) \/ BuyReadCash(r) \/ Crash(r)
  <2>1. pc'[r] \in {"idle", "buyReadCash", "sellReadRow", "buyDebit"}
    BY <1>2, <1>5 DEF RejectOrder, FillOrder, BuyReadCash, Crash
  <2> QED  BY <1>1, <2>1
<1>6. CASE SellReadRow(r) \/ SellReadCash(r) \/ Credit(r) \/ CloseRow(r)
  <2>1. pc'[r] \in {"sellReadCash", "idle", "credit", "closeRow", "trade"}
    BY <1>2, <1>6 DEF SellReadRow, SellReadCash, Credit, CloseRow
  <2> QED  BY <1>1, <2>1
<1> QED  BY <1>3, <1>4, <1>5, <1>6 DEF Plain

LEMMA SideStep ==
    ASSUME TypeOK, NEW r \in Requests, SideSound(r), Start(r) \/ Step(r) \/ Crash(r)
    PROVE  SideSound(r)'
<1> USE DEF Goto, Finish, store
<1>1. pc \in [Requests -> Steps] /\ req \in [Requests -> Locals] /\ req[r] \in Locals
  BY DEF TypeOK
<1>2. ASSUME NEW step, pc' = [pc EXCEPT ![r] = step]
      PROVE  pc'[r] = step
  BY <1>1, <1>2
<1>3. ASSUME pc'[r] \in {"idle", "insert", "started", "settle", "check"},
             req'[r].ask.kind \in Kinds \union {"none"}
      PROVE  SideSound(r)'
  BY <1>3 DEF SideSound, Buying, SellSteps
<1>4. NoLocals.ask.kind = "none"
  BY DEF NoLocals
<1>5. ASSUME pc'[r] = "idle", req' = [req EXCEPT ![r] = NoLocals]
      PROVE  SideSound(r)'
  BY <1>1, <1>3, <1>4, <1>5
<1>6. CASE Start(r)
  <2>1. PICK a \in Asks : req' = [req EXCEPT ![r].ask = a]
    BY <1>6 DEF Start
  <2>2. a.kind \in Kinds
    BY DEF Asks, OrderAsks
  <2>3. req'[r].ask = a
    BY <1>1, <2>1 DEF Locals
  <2>4. pc'[r] \in {"insert", "started"}
    BY <1>1, <1>6 DEF Start
  <2> QED  BY <1>3, <2>2, <2>3, <2>4
<1>7. CASE Reset(r) \/ RejectOrder(r) \/ SaveOrder(r) \/ Crash(r)
  BY <1>2, <1>5, <1>7 DEF Reset, RejectOrder, SaveOrder, Crash
<1>8. CASE InsertAccount(r)
  <2>1. CASE opened
    BY <1>2, <1>5, <1>8, <2>1 DEF InsertAccount
  <2>2. CASE ~opened
    <3>1. pc'[r] = "started" /\ req' = req
      BY <1>2, <1>8, <2>2 DEF InsertAccount
    <3> QED  BY <1>3, <3>1 DEF SideSound
  <2> QED  BY <2>1, <2>2
<1>9. CASE ListPositions(r) \/ EndSettlement(r) \/ \E s \in Symbols : LeaveOpen(r, s)
  <2>1. CASE ListPositions(r) \/ \E s \in Symbols : LeaveOpen(r, s)
    <3>1. pc'[r] = "settle" /\ req'[r].ask = req[r].ask
      BY <1>1, <2>1 DEF ListPositions, LeaveOpen, Locals
    <3> QED  BY <1>3, <3>1 DEF SideSound
  <2>2. CASE EndSettlement(r) /\ req[r].ask.kind = "order"
    <3>1. pc'[r] = "check" /\ req' = req
      BY <1>2, <2>2 DEF EndSettlement
    <3> QED  BY <1>3, <3>1 DEF SideSound
  <2>3. CASE EndSettlement(r) /\ req[r].ask.kind # "order"
    BY <1>2, <1>5, <2>3 DEF EndSettlement
  <2> QED  BY <1>9, <2>1, <2>2, <2>3
<1>10. ASSUME NEW s \in Symbols, BeginSettlement(r, s)
       PROVE  SideSound(r)'
  <2> DEFINE m == [symbol |-> s, side |-> "expiry", price |-> req[r].chain[s].last_price,
                   quantity |-> req[r].rows[s].quantity, size |-> ContractSize[s]]
  <2>1. pc'[r] = "credit"
    BY <1>2, <1>10 DEF BeginSettlement
  <2>2. req' = [req EXCEPT ![r].row = req[r].rows[s], ![r].rows[s] = NoPosition,
                           ![r].seen = cash, ![r].leg = m]
    BY <1>10 DEF BeginSettlement
  <2>3. req'[r].leg = m /\ req'[r].ask = req[r].ask
    BY <1>1, <2>2 DEF Locals
  <2>4. m.side # "buy"
    OBVIOUS
  <2> HIDE DEF m
  <2> QED  BY <2>1, <2>3, <2>4 DEF SideSound, Buying, SellSteps
<1>11. CASE FillOrder(r)
  <2> DEFINE a == req[r].ask
  <2>1. PICK price \in Prices, filled \in 1..a.quantity :
           req' = [req EXCEPT ![r] = [NoLocals EXCEPT !.leg =
                     [symbol |-> a.symbol, side |-> a.side, price |-> price,
                      quantity |-> filled, size |-> ContractSize[a.symbol]]]]
    BY <1>11 DEF FillOrder
  <2>2. pc'[r] = IF a.side = "buy" THEN "buyReadCash" ELSE "sellReadRow"
    BY <1>1, <1>11 DEF FillOrder
  <2> HIDE DEF a
  <2>3. req'[r].leg.side = a.side /\ req'[r].ask = NoLocals.ask
    BY <1>1, <2>1 DEF NoLocals
  <2> QED  BY <1>4, <2>2, <2>3 DEF SideSound, Buying, SellSteps
<1>12. ASSUME req'[r].leg.side = req[r].leg.side, req'[r].ask = req[r].ask,
              \/ pc[r] \in Buying /\ pc'[r] \in Buying \union {"save"}
              \/ pc[r] \in SellSteps /\ pc'[r] \in SellSteps \union {"settle", "save"}
       PROVE  SideSound(r)'
  BY <1>12 DEF SideSound, Buying, SellSteps
<1>13. CASE BuyReadCash(r) \/ BuyDebit(r) \/ BuyReadRow(r) \/ BuyWriteRow(r)
  <2>1. req'[r].leg.side = req[r].leg.side /\ req'[r].ask = req[r].ask
    <3>1. CASE BuyReadCash(r)
      <4>1. req[r].leg \in Legs
        BY <1>1 DEF Locals
      <4>2. \/ req' = [req EXCEPT ![r].seen = cash]
            \/ req' = [req EXCEPT ![r].seen = cash, ![r].leg.size = 1]
        BY <3>1 DEF BuyReadCash
      <4>3. ASSUME req' = [req EXCEPT ![r].seen = cash]
            PROVE  req'[r].leg = req[r].leg /\ req'[r].ask = req[r].ask
        BY <1>1, <4>3 DEF Locals
      <4>4. ASSUME req' = [req EXCEPT ![r].seen = cash, ![r].leg.size = 1]
            PROVE  req'[r].leg.side = req[r].leg.side /\ req'[r].ask = req[r].ask
        BY <1>1, <4>1, <4>4 DEF Locals, Legs
      <4> QED  BY <4>2, <4>3, <4>4
    <3>2. CASE BuyDebit(r) \/ BuyWriteRow(r)
      BY <3>2 DEF BuyDebit, BuyWriteRow
    <3>3. CASE BuyReadRow(r)
      BY <1>1, <3>3 DEF BuyReadRow, Locals
    <3> QED  BY <1>13, <3>1, <3>2, <3>3
  <2>2. pc[r] \in Buying /\ pc'[r] \in Buying \union {"save"}
    BY <1>2, <1>13 DEF BuyReadCash, BuyDebit, BuyReadRow, BuyWriteRow, Buying
  <2> QED  BY <1>12, <2>1, <2>2
<1>14. CASE SellReadRow(r)
  <2>1. CASE IsOpen(positions[req[r].leg.symbol])
    <3>1. /\ pc[r] = "sellReadRow" /\ pc'[r] = "sellReadCash"
          /\ req'[r].leg = req[r].leg /\ req'[r].ask = req[r].ask
      BY <1>1, <1>2, <1>14, <2>1 DEF SellReadRow, Locals
    <3> QED  BY <1>12, <3>1 DEF SellSteps
  <2>2. CASE ~IsOpen(positions[req[r].leg.symbol])
    BY <1>2, <1>5, <1>14, <2>2 DEF SellReadRow
  <2> QED  BY <2>1, <2>2
<1>15. CASE SellReadCash(r) \/ Credit(r) \/ CloseRow(r) \/ RecordTrade(r)
  <2>1. req'[r].leg = req[r].leg /\ req'[r].ask = req[r].ask
    BY <1>1, <1>15 DEF SellReadCash, Credit, CloseRow, RecordTrade, Locals
  <2>2. pc[r] \in SellSteps /\ pc'[r] \in SellSteps \union {"settle", "save"}
    BY <1>2, <1>15 DEF SellReadCash, Credit, CloseRow, RecordTrade, SellSteps
  <2> QED  BY <1>12, <2>1, <2>2
<1> QED  BY <1>6, <1>7, <1>8, <1>9, <1>10, <1>11, <1>13, <1>14, <1>15 DEF Step

LEMMA AppliedMove ==
    ASSUME AppliedInv, TypeOK', IsFiniteSet(Requests), NEW r \in Requests, NEW s \in Symbols,
           Start(r) \/ Step(r) \/ Crash(r), ~Reset(r)
    PROVE  Applied(s)'
<1> DEFINE l == req[r].leg
           sym == req[r].leg.symbol
<1> USE DEF Goto, Finish, store
<1>1. TypeOK /\ SideSound(r)
  BY DEF AppliedInv
<1>2. /\ pc \in [Requests -> Steps] /\ req \in [Requests -> Locals] /\ l.quantity \in Nat
      /\ orders \in [Symbols -> [bought : Nat, sold : Nat, entryFees : Nat]]
      /\ paid \in [Symbols -> Nat] /\ trades \in [Symbols -> [closed : Nat, pnl : Int]]
  BY <1>1 DEF TypeOK, Locals, Legs
<1>3. /\ BoughtUnits(r, s) \in Nat /\ SoldUnits(r, s) \in Nat
      /\ orders[s].bought \in Nat /\ orders[s].sold \in Nat
      /\ paid[s] \in Nat /\ trades[s].closed \in Nat
  BY <1>1, UnitTypes
<1>4. SUFFICES /\ orders'[s].bought + BoughtUnits(r, s)' + paid[s]
                    <= orders[s].bought + BoughtUnits(r, s) + paid'[s]
               /\ orders'[s].sold + SoldUnits(r, s)' + trades[s].closed
                    <= orders[s].sold + SoldUnits(r, s) + trades'[s].closed
  BY <1>1, OthersStay, OneMove
<1>5. ASSUME orders' = orders, paid' = paid, trades' = trades,
             BoughtUnits(r, s)' <= BoughtUnits(r, s), SoldUnits(r, s)' <= SoldUnits(r, s),
             BoughtUnits(r, s)' \in Nat, SoldUnits(r, s)' \in Nat
      PROVE  /\ orders'[s].bought + BoughtUnits(r, s)' + paid[s]
                  <= orders[s].bought + BoughtUnits(r, s) + paid'[s]
             /\ orders'[s].sold + SoldUnits(r, s)' + trades[s].closed
                  <= orders[s].sold + SoldUnits(r, s) + trades'[s].closed
  BY <1>3, <1>5
<1>6. CASE Plain(r)
  <2>1. /\ pc'[r] \notin {"buyReadRow", "buyWriteRow", "save"}
        /\ orders' = orders /\ paid' = paid /\ trades' = trades
    BY <1>1, <1>6, PlainSteps
  <2>2. BoughtUnits(r, s)' = 0 /\ SoldUnits(r, s)' = 0
    BY <2>1 DEF BoughtUnits, SoldUnits
  <2> QED  BY <1>3, <1>5, <2>1, <2>2
<1>7. CASE BuyReadRow(r)
  <2>1. /\ pc[r] = "buyReadRow" /\ pc'[r] = "buyWriteRow" /\ req'[r].leg = req[r].leg
        /\ orders' = orders /\ paid' = paid /\ trades' = trades
    BY <1>2, <1>7 DEF BuyReadRow, Locals
  <2>2. BoughtUnits(r, s)' = BoughtUnits(r, s) /\ SoldUnits(r, s)' = 0
    BY <2>1 DEF BoughtUnits, SoldUnits
  <2> QED  BY <1>3, <1>5, <2>1, <2>2
<1>8. CASE BuyWriteRow(r)
  <2>1. /\ pc[r] = "buyWriteRow" /\ pc'[r] = "save" /\ req' = req
        /\ orders' = orders /\ paid' = paid /\ trades' = trades
    BY <1>2, <1>8 DEF BuyWriteRow
  <2>2. l.side = "buy"
    BY <1>1, <2>1 DEF SideSound, Buying
  <2>3. BoughtUnits(r, s)' = BoughtUnits(r, s) /\ SoldUnits(r, s)' = 0
    BY <2>1, <2>2 DEF BoughtUnits, SoldUnits
  <2> QED  BY <1>3, <1>5, <2>1, <2>3
<1>9. CASE BuyDebit(r)
  <2>1. /\ pc[r] = "buyDebit" /\ pc'[r] = "buyReadRow" /\ req' = req
        /\ orders' = orders /\ trades' = trades
        /\ paid' = [paid EXCEPT ![sym] = @ + l.quantity]
    BY <1>2, <1>9 DEF BuyDebit
  <2>2. BoughtUnits(r, s) = 0 /\ SoldUnits(r, s) = 0 /\ SoldUnits(r, s)' = 0
    BY <2>1 DEF BoughtUnits, SoldUnits
  <2>3. CASE s = sym
    <3>1. paid'[s] = paid[s] + l.quantity
      BY <1>2, <2>1, <2>3
    <3>2. BoughtUnits(r, s)' \in {0, l.quantity}
      BY <2>1 DEF BoughtUnits
    <3> QED  BY <1>2, <1>3, <2>1, <2>2, <3>1, <3>2
  <2>4. CASE s # sym
    <3>1. paid'[s] = paid[s]
      BY <1>2, <2>1, <2>4
    <3>2. BoughtUnits(r, s)' = 0
      BY <2>1, <2>4 DEF BoughtUnits
    <3> QED  BY <1>3, <2>1, <2>2, <3>1, <3>2
  <2> QED  BY <2>3, <2>4
<1>10. CASE RecordTrade(r)
  <2>1. /\ pc[r] = "trade" /\ pc'[r] \in {"settle", "save"} /\ req' = req
        /\ orders' = orders /\ paid' = paid
        /\ trades' = [trades EXCEPT ![sym] = AddTrade(@, l.quantity, LegPnl(r))]
    BY <1>2, <1>10 DEF RecordTrade
  <2>2. l.side # "buy"
    BY <1>1, <2>1 DEF SideSound, SellSteps
  <2>3. BoughtUnits(r, s) = 0 /\ SoldUnits(r, s) = 0 /\ BoughtUnits(r, s)' = 0
    BY <2>1, <2>2 DEF BoughtUnits, SoldUnits
  <2>4. CASE s = sym
    <3>1. trades'[s].closed = trades[s].closed + l.quantity
      BY <1>2, <2>1, <2>4 DEF AddTrade
    <3>2. SoldUnits(r, s)' \in {0, l.quantity}
      BY <2>1 DEF SoldUnits
    <3> QED  BY <1>2, <1>3, <2>1, <2>3, <3>1, <3>2
  <2>5. CASE s # sym
    <3>1. trades'[s].closed = trades[s].closed
      BY <1>2, <2>1, <2>5
    <3>2. SoldUnits(r, s)' = 0
      BY <2>1, <2>5 DEF SoldUnits
    <3> QED  BY <1>3, <2>1, <2>3, <3>1, <3>2
  <2> QED  BY <2>4, <2>5
<1>11. CASE SaveOrder(r)
  <2>1. /\ pc[r] = "save" /\ pc'[r] = "idle" /\ paid' = paid /\ trades' = trades
        /\ orders' = [orders EXCEPT ![sym] =
                        IF l.side = "buy" THEN AddBuyOrder(@, l.quantity, EntryCost(LegWorth(r)))
                        ELSE AddSellOrder(@, l.quantity)]
    BY <1>2, <1>11 DEF SaveOrder
  <2>2. BoughtUnits(r, s)' = 0 /\ SoldUnits(r, s)' = 0
    BY <2>1 DEF BoughtUnits, SoldUnits
  <2>3. CASE s = sym /\ l.side = "buy"
    <3>1. orders'[s].bought = orders[s].bought + l.quantity /\ orders'[s].sold = orders[s].sold
      BY <1>2, <2>1, <2>3 DEF AddBuyOrder
    <3>2. BoughtUnits(r, s) = l.quantity
      BY <2>1, <2>3 DEF BoughtUnits
    <3> QED  BY <1>2, <1>3, <2>1, <2>2, <3>1, <3>2
  <2>4. CASE s = sym /\ l.side # "buy"
    <3>1. orders'[s].bought = orders[s].bought /\ orders'[s].sold = orders[s].sold + l.quantity
      BY <1>2, <2>1, <2>4 DEF AddSellOrder
    <3>2. SoldUnits(r, s) = l.quantity
      BY <2>1, <2>4 DEF SoldUnits
    <3> QED  BY <1>2, <1>3, <2>1, <2>2, <3>1, <3>2
  <2>5. CASE s # sym
    <3>1. orders'[s] = orders[s]
      BY <1>2, <2>1, <2>5
    <3> QED  BY <1>3, <2>1, <2>2, <3>1
  <2> QED  BY <2>3, <2>4, <2>5
<1> QED  BY <1>6, <1>7, <1>8, <1>9, <1>10, <1>11 DEF Step, Plain

\* A reset empties the history; what is in flight then is only the reset.
LEMMA AppliedReset ==
    ASSUME AppliedInv, IsFiniteSet(Requests), OneRequest, NEW r \in Requests, NEW s \in Symbols,
           Reset(r)
    PROVE  Applied(s)'
<1> DEFINE b == [t \in Requests |-> BoughtUnits(t, s)']
           c == [t \in Requests |-> SoldUnits(t, s)']
<1>1. \A t \in Requests : pc'[t] = "idle"
  <2>1. pc'[r] = "idle"
    BY DEF AppliedInv, TypeOK, Reset, Finish, Goto
  <2> QED  BY <2>1, OneRequest DEF OneRequest
<1>2. \A t \in Requests : b[t] = 0 /\ c[t] = 0
  BY <1>1 DEF BoughtUnits, SoldUnits
<1>3. UnsavedBuys(s)' = b /\ UnsavedSells(s)' = c
  BY DEF UnsavedBuys, UnsavedSells
<1> HIDE DEF b, c
<1>4. SumFunctionOnSet(b, Requests) = 0 /\ SumFunctionOnSet(c, Requests) = 0
  BY <1>2, SumOfZeros
<1>5. orders'[s].bought = 0 /\ orders'[s].sold = 0 /\ paid'[s] = 0 /\ trades'[s].closed = 0
  BY DEF Reset, EmptyOrders, EmptyTrades
<1> QED  BY <1>3, <1>4, <1>5 DEF Applied

LEMMA AppliedStep ==
    ASSUME IsFiniteSet(Requests), OneRequest \/ "reset" \notin Kinds,
           AppliedInv, [Next]_vars
    PROVE  AppliedInv'
<1>1. TypeOK /\ TypeOK' /\ \A r \in Requests : SideSound(r)
  BY StepType DEF AppliedInv
<1>2. ASSUME pc' = pc, req' = req, orders' = orders, paid' = paid, trades' = trades
      PROVE  (\A r \in Requests : SideSound(r)') /\ \A s \in Symbols : Applied(s)'
  <2>1. \A r \in Requests : SideSound(r)'
    BY <1>1, <1>2 DEF SideSound
  <2>2. ASSUME NEW s \in Symbols
        PROVE  Applied(s)'
    <3>1. UnsavedBuys(s)' = UnsavedBuys(s) /\ UnsavedSells(s)' = UnsavedSells(s)
      BY <1>2 DEF UnsavedBuys, UnsavedSells, BoughtUnits, SoldUnits
    <3>2. Applied(s)
      BY DEF AppliedInv
    <3> QED  BY <1>2, <3>1, <3>2 DEF Applied
  <2> QED  BY <2>1, <2>2
<1>3. ASSUME NEW r \in Requests, Start(r) \/ Step(r) \/ Crash(r)
      PROVE  (\A t \in Requests : SideSound(t)') /\ \A s \in Symbols : Applied(s)'
  <2>1. SideSound(r)'
    BY <1>1, <1>3, SideStep
  <2>2. \A t \in Requests \ {r} : pc'[t] = pc[t] /\ req'[t] = req[t]
    BY <1>1, <1>3, OthersStay
  <2>3. ASSUME NEW t \in Requests, t # r PROVE SideSound(t)'
    <3>1. SideSound(t) /\ pc'[t] = pc[t] /\ req'[t] = req[t]
      BY <1>1, <2>2, <2>3
    <3> QED  BY <3>1 DEF SideSound
  <2>4. ASSUME Reset(r) PROVE OneRequest
    <3>1. "reset" \in Kinds
      BY <1>1, <2>4 DEF Reset, SideSound
    <3> QED  BY <3>1
  <2>5. \A s \in Symbols : Applied(s)'
    BY <1>1, <1>3, <2>4, AppliedMove, AppliedReset
  <2> QED  BY <2>1, <2>3, <2>5
<1>4. ASSUME NEW s \in Symbols, Expire(s) \/ Delist(s)
      PROVE  (\A t \in Requests : SideSound(t)') /\ \A t \in Symbols : Applied(t)'
  <2>1. pc' = pc /\ req' = req /\ orders' = orders /\ paid' = paid /\ trades' = trades
    BY <1>4 DEF Expire, Delist, store
  <2> QED  BY <1>2, <2>1
<1>5. ASSUME UNCHANGED vars
      PROVE  (\A t \in Requests : SideSound(t)') /\ \A s \in Symbols : Applied(s)'
  <2>1. pc' = pc /\ req' = req /\ orders' = orders /\ paid' = paid /\ trades' = trades
    BY <1>5 DEF vars
  <2> QED  BY <1>2, <2>1
<1>6. (\A t \in Requests : SideSound(t)') /\ \A s \in Symbols : Applied(s)'
  BY <1>3, <1>4, <1>5 DEF Next
<1> QED  BY <1>1, <1>6 DEF AppliedInv

LEMMA AppliedStart ==
    ASSUME IsFiniteSet(Requests), Init
    PROVE  AppliedInv
<1>1. \A r \in Requests : pc[r] = "idle" /\ req[r].ask.kind = "none"
  BY DEF Init, NoLocals
<1>2. \A r \in Requests : SideSound(r)
  BY <1>1 DEF SideSound, Buying, SellSteps
<1>3. ASSUME NEW s \in Symbols PROVE Applied(s)
  <2>1. \A r \in Requests : UnsavedBuys(s)[r] = 0 /\ UnsavedSells(s)[r] = 0
    BY <1>1 DEF UnsavedBuys, UnsavedSells, BoughtUnits, SoldUnits
  <2>2. SumFunctionOnSet(UnsavedBuys(s), Requests) = 0 /\ SumFunctionOnSet(UnsavedSells(s), Requests) = 0
    BY <2>1, SumOfZeros
  <2>3. orders[s].bought = 0 /\ orders[s].sold = 0 /\ paid[s] = 0 /\ trades[s].closed = 0
    BY DEF Init, EmptyOrders, EmptyTrades
  <2> QED  BY <2>2, <2>3 DEF Applied
<1> QED  BY <1>2, <1>3, InitType DEF AppliedInv

\* Any number of overlapping requests, dying anywhere, the chain re-fetched
\* under them: what the order history shows as filled was debited, or closed
\* by a recorded trade. A reset is allowed only when requests do not overlap.
THEOREM FilledOrdersHold ==
    ASSUME IsFiniteSet(Requests), OneRequest \/ "reset" \notin Kinds
    PROVE  Spec => []FilledOrdersAreApplied
<1>1. Init => AppliedInv
  BY AppliedStart
<1>2. AppliedInv /\ [Next]_vars => AppliedInv'
  BY AppliedStep
<1>3. AppliedInv => FilledOrdersAreApplied
  <2> SUFFICES ASSUME AppliedInv, NEW s \in Symbols
               PROVE  orders[s].bought <= paid[s] /\ orders[s].sold <= trades[s].closed
    BY DEF FilledOrdersAreApplied
  <2>1. TypeOK /\ Applied(s)
    BY DEF AppliedInv
  <2>2. \A r \in Requests : UnsavedBuys(s)[r] \in Nat /\ UnsavedSells(s)[r] \in Nat
    BY <2>1, UnitTypes DEF UnsavedBuys, UnsavedSells
  <2>3. /\ SumFunctionOnSet(UnsavedBuys(s), Requests) \in Nat
        /\ SumFunctionOnSet(UnsavedSells(s), Requests) \in Nat
    BY <2>2, SumIsNat
  <2>4. /\ orders[s].bought \in Nat /\ orders[s].sold \in Nat
        /\ paid[s] \in Nat /\ trades[s].closed \in Nat
    BY <2>1, UnitTypes
  <2> QED  BY <2>1, <2>3, <2>4 DEF Applied
<1> QED  BY <1>1, <1>2, <1>3, PTL DEF Spec

-----------------------------------------------------------------------------
(* Any number of requests at a time: a position holds nothing that was not  *)
(* debited, at an average of what was debited for it.                       *)

Between(a, prices) == \E low, high \in prices : low <= a /\ a <= high

\* A row of no more than so many contracts, bought at prices of this set.
FairRow(w, units, prices) ==
    /\ w.quantity <= units
    /\ IsOpen(w) => Between(w.average_price, prices)

\* A mean of some of the prices and one more.
LEMMA BetweenMean ==
    ASSUME NEW prices \in SUBSET Nat, NEW m \in Nat, NEW a \in Nat, NEW q \in Nat,
           NEW p \in prices, m > 0, Between(a, prices)
    PROVE  Between((m * a + q * p) \div (m + q), prices)
<1>1. PICK low \in prices, high \in prices : low <= a /\ a <= high
  BY DEF Between
<1>2. low \in Nat /\ high \in Nat /\ p \in Nat
  OBVIOUS
<1>3. PICK lo \in prices : lo <= low /\ lo <= p
  BY <1>2
<1>4. PICK hi \in prices : high <= hi /\ p <= hi
  BY <1>2
<1>5. lo \in Nat /\ hi \in Nat
  OBVIOUS
<1>6. lo <= a /\ a <= hi
  BY <1>1, <1>2, <1>3, <1>4, <1>5
<1> DEFINE mean == (m * a + q * p) \div (m + q)
<1>7. lo <= mean /\ mean <= hi
  BY <1>2, <1>3, <1>4, <1>5, <1>6, MeanBetween
<1> HIDE DEF mean
<1>8. Between(mean, prices)
  BY <1>7 DEF Between
<1> QED  BY <1>8 DEF mean

LEMMA FairAfterBuy ==
    ASSUME NEW w \in Rows, NEW q \in Nat, NEW units \in Int, NEW prices \in SUBSET Nat,
           NEW p \in prices, FairRow(w, units, prices)
    PROVE  FairRow(AfterBuy(w, q, p), units + q, prices)
<1>0. w.quantity \in Nat /\ w.average_price \in Nat /\ p \in Nat
  BY DEF Rows
<1>1. AfterBuy(w, q, p).quantity <= units + q
  <2>1. AfterBuy(w, q, p).quantity = w.quantity + q
    BY <1>0, AfterBuyQuantity
  <2>2. w.quantity <= units
    BY DEF FairRow
  <2> QED  BY <1>0, <2>1, <2>2
<1>2. Between(AfterBuy(w, q, p).average_price, prices)
  <2>1. CASE ~IsOpen(w)
    <3>1. AfterBuy(w, q, p).average_price = p
      BY <2>1 DEF AfterBuy
    <3>2. p <= p
      BY <1>0
    <3> QED  BY <3>1, <3>2 DEF Between
  <2>2. CASE IsOpen(w)
    <3>1. w.quantity > 0 /\ Between(w.average_price, prices)
      BY <2>2 DEF IsOpen, FairRow
    <3>2. AfterBuy(w, q, p).average_price
            = (w.quantity * w.average_price + q * p) \div (w.quantity + q)
      BY <2>2 DEF AfterBuy
    <3>3. Between((w.quantity * w.average_price + q * p) \div (w.quantity + q), prices)
      BY <1>0, <3>1, BetweenMean
    <3> QED  BY <3>2, <3>3
  <2> QED  BY <2>1, <2>2
<1> QED  BY <1>1, <1>2 DEF FairRow

LEMMA FairAfterSell ==
    ASSUME NEW w \in Rows, NEW q \in Nat, NEW units \in Int, NEW prices,
           FairRow(w, units, prices)
    PROVE  FairRow(AfterSell(w, q), units, prices)
<1>1. w.quantity \in Nat /\ w.quantity <= units
  BY DEF Rows, FairRow
<1>2. CASE w.quantity - q <= 0
  BY <1>1, <1>2 DEF AfterSell, FairRow, IsOpen, NoPosition
<1>3. CASE ~(w.quantity - q <= 0)
  <2>1. IsOpen(w) /\ AfterSell(w, q).average_price = w.average_price
    BY <1>1, <1>3 DEF AfterSell, IsOpen
  <2>2. AfterSell(w, q).quantity <= units
    BY <1>1, <1>3 DEF AfterSell
  <2> QED  BY <2>1, <2>2 DEF FairRow
<1> QED  BY <1>2, <1>3

LEMMA FairNothing ==
    ASSUME NEW units \in Int, NEW prices, 0 <= units
    PROVE  FairRow(NoPosition, units, prices)
BY DEF FairRow, NoPosition, IsOpen

\* More debited, at more prices, is fair to every row it was fair to.
LEMMA FairGrows ==
    ASSUME NEW w \in Rows, NEW units \in Int, NEW more \in Int, units <= more,
           NEW prices, NEW others, prices \subseteq others, FairRow(w, units, prices)
    PROVE  FairRow(w, more, others)
<1>1. w.quantity <= more
  BY DEF FairRow, Rows
<1>2. IsOpen(w) => Between(w.average_price, others)
  BY DEF FairRow, Between
<1> QED  BY <1>1, <1>2 DEF FairRow

\* Contracts that request r has debited and not written to a row yet.
UnwrittenUnits(r, s) ==
    IF pc[r] \in {"buyReadRow", "buyWriteRow"} /\ req[r].leg.symbol = s
    THEN req[r].leg.quantity ELSE 0

UnwrittenBuys(s) == [r \in Requests |-> UnwrittenUnits(r, s)]
Free(s) == paid[s] - SumFunctionOnSet(UnwrittenBuys(s), Requests)

FairLocals(r) ==
    /\ \A s \in Symbols :
         /\ s = req[r].leg.symbol => FairRow(req[r].row, Free(s), premiums[s])
         /\ FairRow(req[r].rows[s], Free(s), premiums[s])
    /\ pc[r] \in {"buyReadRow", "buyWriteRow"} =>
         req[r].leg.price \in premiums[req[r].leg.symbol]

\* The strengthening: not only the stored rows but every row a request has
\* read leaves room for all that is debited and not yet written.
FairInv ==
    /\ AppliedInv
    /\ \A s \in Symbols : FairRow(positions[s], Free(s), premiums[s])
    /\ \A r \in Requests : FairLocals(r)

LEMMA FreeTypes ==
    ASSUME TypeOK, IsFiniteSet(Requests), NEW s \in Symbols
    PROVE  /\ \A r \in Requests : UnwrittenUnits(r, s) \in Nat
           /\ SumFunctionOnSet(UnwrittenBuys(s), Requests) \in Nat
           /\ paid[s] \in Nat /\ Free(s) \in Int /\ premiums[s] \in SUBSET Nat
<1>1. \A r \in Requests : req[r].leg.quantity \in Nat
  BY DEF TypeOK, Locals, Legs
<1>2. \A r \in Requests : UnwrittenUnits(r, s) \in Nat
  BY <1>1 DEF UnwrittenUnits
<1>3. \A r \in Requests : UnwrittenBuys(s)[r] \in Nat
  BY <1>2 DEF UnwrittenBuys
<1>4. SumFunctionOnSet(UnwrittenBuys(s), Requests) \in Nat
  BY <1>3, SumIsNat
<1>5. paid[s] \in Nat /\ premiums[s] \in SUBSET Nat
  BY DEF TypeOK
<1> QED  BY <1>2, <1>4, <1>5 DEF Free

\* What one request writes or debits is all that changes.
LEMMA FreeMove ==
    ASSUME TypeOK, TypeOK', IsFiniteSet(Requests), NEW r \in Requests, NEW s \in Symbols,
           \A t \in Requests \ {r} : pc'[t] = pc[t] /\ req'[t] = req[t]
    PROVE  Free(s)' = Free(s) + (paid'[s] - paid[s])
                       + (UnwrittenUnits(r, s) - UnwrittenUnits(r, s)')
<1> DEFINE g == [t \in Requests |-> UnwrittenUnits(t, s)']
<1>1. \A t \in Requests : UnwrittenBuys(s)[t] \in Int
  <2>1. \A t \in Requests : UnwrittenUnits(t, s) \in Nat
    BY FreeTypes
  <2> QED  BY <2>1 DEF UnwrittenBuys
<1>2. \A t \in Requests : g[t] \in Int
  <2>1. \A t \in Requests : req'[t].leg.quantity \in Nat
    BY DEF TypeOK, Locals, Legs
  <2> QED  BY <2>1 DEF UnwrittenUnits
<1>3. \A t \in Requests \ {r} : g[t] = UnwrittenBuys(s)[t]
  BY DEF UnwrittenUnits, UnwrittenBuys
<1>4. g[r] = UnwrittenUnits(r, s)' /\ UnwrittenBuys(s)[r] = UnwrittenUnits(r, s)
  BY DEF UnwrittenBuys
<1>5. UnwrittenBuys(s)' = g
  BY DEF UnwrittenBuys
<1> HIDE DEF g
<1>6. SumFunctionOnSet(g, Requests)
        = SumFunctionOnSet(UnwrittenBuys(s), Requests) - UnwrittenBuys(s)[r] + g[r]
  BY <1>1, <1>2, <1>3, SumChange
<1>7. SumFunctionOnSet(UnwrittenBuys(s), Requests) \in Int /\ paid[s] \in Int /\ paid'[s] \in Int
  BY FreeTypes DEF TypeOK
<1>8. Free(s)' = paid'[s] - SumFunctionOnSet(g, Requests)
  BY <1>5 DEF Free
<1>9. Free(s) = paid[s] - SumFunctionOnSet(UnwrittenBuys(s), Requests)
  BY DEF Free
<1> QED  BY <1>1, <1>2, <1>4, <1>6, <1>7, <1>8, <1>9

\* Until a reset, what is free for the rows never shrinks, and a buy that
\* writes its row frees what it writes.
LEMMA FreeGrows ==
    ASSUME TypeOK, TypeOK', IsFiniteSet(Requests), NEW r \in Requests, NEW s \in Symbols,
           Start(r) \/ Step(r) \/ Crash(r), ~Reset(r)
    PROVE  /\ Free(s) <= Free(s)'
           /\ premiums[s] \subseteq premiums'[s]
           /\ BuyWriteRow(r) /\ s = req[r].leg.symbol
                => Free(s)' = Free(s) + req[r].leg.quantity
<1> DEFINE l == req[r].leg
<1> USE DEF Goto, Finish, store
<1>1. /\ pc \in [Requests -> Steps] /\ req \in [Requests -> Locals] /\ l.quantity \in Nat
      /\ paid \in [Symbols -> Nat] /\ premiums \in [Symbols -> SUBSET Nat]
  BY DEF TypeOK, Locals, Legs
<1>2. UnwrittenUnits(r, s) \in Nat /\ Free(s) \in Int /\ paid[s] \in Nat
  BY FreeTypes
<1>3. Free(s)' = Free(s) + (paid'[s] - paid[s]) + (UnwrittenUnits(r, s) - UnwrittenUnits(r, s)')
  BY OthersStay, FreeMove
<1>4. ASSUME paid' = paid, premiums' = premiums, pc'[r] \notin {"buyReadRow", "buyWriteRow"},
             ~BuyWriteRow(r)
      PROVE  /\ Free(s) <= Free(s)'
             /\ premiums[s] \subseteq premiums'[s]
             /\ BuyWriteRow(r) /\ s = req[r].leg.symbol
                  => Free(s)' = Free(s) + req[r].leg.quantity
  <2>1. UnwrittenUnits(r, s)' = 0
    BY <1>4 DEF UnwrittenUnits
  <2> QED  BY <1>2, <1>3, <1>4, <2>1
<1>5. CASE Plain(r)
  <2>1. pc'[r] \notin {"buyReadRow", "buyWriteRow"} /\ paid' = paid
    BY <1>5, PlainSteps
  <2>2. premiums' = premiums
    BY <1>5 DEF Plain, Start, InsertAccount, ListPositions, EndSettlement, LeaveOpen,
       BeginSettlement, RejectOrder, FillOrder, BuyReadCash, SellReadRow, SellReadCash,
       Credit, CloseRow, Crash
  <2>3. ~BuyWriteRow(r)
    <3>1. ASSUME BuyWriteRow(r) PROVE pc'[r] = "save"
      BY <1>1, <3>1 DEF BuyWriteRow
    <3>2. pc'[r] # "save"
      BY <1>5, PlainSteps
    <3> QED  BY <3>1, <3>2
  <2> QED  BY <1>4, <2>1, <2>2, <2>3
<1>6. CASE RecordTrade(r) \/ SaveOrder(r)
  <2>1. /\ paid' = paid /\ premiums' = premiums
        /\ pc'[r] \notin {"buyReadRow", "buyWriteRow"} /\ pc[r] # "buyWriteRow"
    BY <1>1, <1>6 DEF RecordTrade, SaveOrder
  <2> QED  BY <1>4, <2>1 DEF BuyWriteRow
<1>7. CASE BuyReadRow(r)
  <2>1. /\ pc[r] = "buyReadRow" /\ pc'[r] = "buyWriteRow" /\ req'[r].leg = req[r].leg
        /\ paid' = paid /\ premiums' = premiums
    BY <1>1, <1>7 DEF BuyReadRow, Locals
  <2>2. UnwrittenUnits(r, s)' = UnwrittenUnits(r, s)
    BY <2>1 DEF UnwrittenUnits
  <2>3. ~BuyWriteRow(r)
    BY <2>1 DEF BuyWriteRow
  <2> QED  BY <1>2, <1>3, <2>1, <2>2, <2>3
<1>8. CASE BuyDebit(r)
  <2>1. /\ pc[r] = "buyDebit" /\ pc'[r] = "buyReadRow" /\ req' = req
        /\ paid' = [paid EXCEPT ![l.symbol] = @ + l.quantity]
        /\ premiums' = [premiums EXCEPT ![l.symbol] = @ \union {l.price}]
    BY <1>1, <1>8 DEF BuyDebit
  <2>2. UnwrittenUnits(r, s) = 0 /\ ~BuyWriteRow(r)
    BY <2>1 DEF UnwrittenUnits, BuyWriteRow
  <2>3. premiums[s] \subseteq premiums'[s]
    BY <1>1, <2>1
  <2>4. paid'[s] - paid[s] = UnwrittenUnits(r, s)'
    <3>1. CASE s = l.symbol
      <4>1. paid'[s] = paid[s] + l.quantity
        BY <1>1, <2>1, <3>1
      <4>2. UnwrittenUnits(r, s)' = l.quantity
        BY <2>1, <3>1 DEF UnwrittenUnits
      <4> QED  BY <1>1, <1>2, <4>1, <4>2
    <3>2. CASE s # l.symbol
      <4>1. paid'[s] = paid[s]
        BY <1>1, <2>1, <3>2
      <4>2. UnwrittenUnits(r, s)' = 0
        BY <2>1, <3>2 DEF UnwrittenUnits
      <4> QED  BY <1>2, <4>1, <4>2
    <3> QED  BY <3>1, <3>2
  <2>5. UnwrittenUnits(r, s)' \in Nat /\ paid'[s] \in Nat
    <3>1. UnwrittenUnits(r, s)' \in {0, l.quantity}
      BY <2>1 DEF UnwrittenUnits
    <3>2. paid'[s] \in Nat
      BY DEF TypeOK
    <3> QED  BY <1>1, <3>1, <3>2
  <2> QED  BY <1>2, <1>3, <2>2, <2>3, <2>4, <2>5
<1>9. CASE BuyWriteRow(r)
  <2>1. /\ pc[r] = "buyWriteRow" /\ pc'[r] = "save"
        /\ paid' = paid /\ premiums' = premiums
    BY <1>1, <1>9 DEF BuyWriteRow
  <2>2. UnwrittenUnits(r, s)' = 0
    BY <2>1 DEF UnwrittenUnits
  <2>3. s = l.symbol => UnwrittenUnits(r, s) = l.quantity
    BY <2>1 DEF UnwrittenUnits
  <2> QED  BY <1>1, <1>2, <1>3, <2>1, <2>2, <2>3
<1> QED  BY <1>5, <1>6, <1>7, <1>8, <1>9 DEF Step, Plain

\* Where the rows come from that a request holds after a step of its own.
Sources(r) ==
    /\ req'[r].leg.symbol \in Symbols
    /\ \/ req'[r].row = req[r].row /\ req'[r].leg.symbol = req[r].leg.symbol
       \/ req'[r].row \in {NoPosition, positions[req'[r].leg.symbol],
                           req[r].rows[req'[r].leg.symbol]}
    /\ \A s \in Symbols : req'[r].rows[s] \in {req[r].rows[s], positions[s], NoPosition}

LEMMA RowSources ==
    ASSUME TypeOK, TypeOK', NEW r \in Requests, Start(r) \/ Step(r) \/ Crash(r)
    PROVE  Sources(r)
<1> USE DEF Goto, Finish
<1>1. /\ req \in [Requests -> Locals] /\ req[r] \in Locals /\ req[r].leg \in Legs
      /\ req'[r] \in Locals /\ req'[r].leg.symbol \in Symbols
  BY DEF TypeOK, Locals, Legs
<1>2. ASSUME req'[r].row = req[r].row, req'[r].leg.symbol = req[r].leg.symbol,
             req'[r].rows = req[r].rows
      PROVE  Sources(r)
  BY <1>1, <1>2 DEF Sources
<1>3. ASSUME req'[r].row = NoPosition, \A s \in Symbols : req'[r].rows[s] = NoPosition
      PROVE  Sources(r)
  BY <1>1, <1>3 DEF Sources
<1>4. ASSUME req' = [req EXCEPT ![r] = NoLocals]
      PROVE  Sources(r)
  <2>1. req'[r] = NoLocals
    BY <1>1, <1>4
  <2>2. req'[r].row = NoPosition /\ \A s \in Symbols : req'[r].rows[s] = NoPosition
    BY <2>1 DEF NoLocals
  <2> QED  BY <1>3, <2>2
<1>5. ASSUME req' = req
      PROVE  Sources(r)
  BY <1>2, <1>5
<1>6. ASSUME req'[r].row = positions[req[r].leg.symbol],
             req'[r].leg.symbol = req[r].leg.symbol, req'[r].rows = req[r].rows
      PROVE  Sources(r)
  BY <1>1, <1>6 DEF Sources
<1>7. CASE Start(r)
  <2>1. PICK a \in Asks : req' = [req EXCEPT ![r].ask = a]
    BY <1>7 DEF Start
  <2>2. req'[r].row = req[r].row /\ req'[r].leg = req[r].leg /\ req'[r].rows = req[r].rows
    BY <1>1, <2>1 DEF Locals
  <2> QED  BY <1>2, <2>2
<1>8. CASE Reset(r) \/ RejectOrder(r) \/ SaveOrder(r) \/ Crash(r)
  BY <1>4, <1>8 DEF Reset, RejectOrder, SaveOrder, Crash
<1>9. CASE InsertAccount(r) \/ EndSettlement(r) \/ BuyDebit(r) \/ BuyWriteRow(r)
         \/ Credit(r) \/ CloseRow(r) \/ RecordTrade(r)
  BY <1>4, <1>5, <1>9 DEF InsertAccount, EndSettlement, BuyDebit, BuyWriteRow, Credit, CloseRow,
     RecordTrade
<1>10. CASE ListPositions(r)
  <2>1. /\ req'[r].row = req[r].row /\ req'[r].leg = req[r].leg /\ req'[r].rows = positions
    BY <1>1, <1>10 DEF ListPositions, Locals
  <2> QED  BY <1>1, <2>1 DEF Sources
<1>11. ASSUME NEW s \in Symbols, LeaveOpen(r, s)
       PROVE  Sources(r)
  <2>1. /\ req'[r].row = req[r].row /\ req'[r].leg = req[r].leg
        /\ req'[r].rows = [req[r].rows EXCEPT ![s] = NoPosition]
    BY <1>1, <1>11 DEF LeaveOpen, Locals
  <2>2. req[r].rows \in [Symbols -> Rows]
    BY <1>1 DEF Locals
  <2>3. \A t \in Symbols : req'[r].rows[t] \in {req[r].rows[t], NoPosition}
    BY <2>1, <2>2
  <2> QED  BY <1>1, <2>1, <2>3 DEF Sources
<1>12. ASSUME NEW s \in Symbols, BeginSettlement(r, s)
       PROVE  Sources(r)
  <2> DEFINE m == [symbol |-> s, side |-> "expiry", price |-> req[r].chain[s].last_price,
                   quantity |-> req[r].rows[s].quantity, size |-> ContractSize[s]]
  <2>1. req' = [req EXCEPT ![r].row = req[r].rows[s], ![r].rows[s] = NoPosition,
                           ![r].seen = cash, ![r].leg = m]
    BY <1>12 DEF BeginSettlement
  <2>2. m.symbol = s
    OBVIOUS
  <2> HIDE DEF m
  <2>3. /\ req'[r].leg = m /\ req'[r].row = req[r].rows[s]
        /\ req'[r].rows = [req[r].rows EXCEPT ![s] = NoPosition]
    BY <1>1, <2>1 DEF Locals
  <2>4. req[r].rows \in [Symbols -> Rows]
    BY <1>1 DEF Locals
  <2>5. \A t \in Symbols : req'[r].rows[t] \in {req[r].rows[t], NoPosition}
    BY <2>3, <2>4
  <2> QED  BY <1>1, <2>2, <2>3, <2>5 DEF Sources
<1>13. CASE FillOrder(r)
  <2> DEFINE a == req[r].ask
  <2>1. PICK price \in Prices, filled \in 1..a.quantity :
           req' = [req EXCEPT ![r] = [NoLocals EXCEPT !.leg =
                     [symbol |-> a.symbol, side |-> a.side, price |-> price,
                      quantity |-> filled, size |-> ContractSize[a.symbol]]]]
    BY <1>13 DEF FillOrder
  <2> HIDE DEF a
  <2>2. req'[r].row = NoPosition /\ \A s \in Symbols : req'[r].rows[s] = NoPosition
    BY <1>1, <2>1 DEF NoLocals
  <2> QED  BY <1>3, <2>2
<1>14. CASE BuyReadCash(r) \/ SellReadCash(r)
  <2>1. \/ req' = [req EXCEPT ![r].seen = cash]
        \/ req' = [req EXCEPT ![r].seen = cash, ![r].leg.size = 1]
    BY <1>14 DEF BuyReadCash, SellReadCash
  <2>2. ASSUME req' = [req EXCEPT ![r].seen = cash]
        PROVE  req'[r].row = req[r].row /\ req'[r].leg = req[r].leg /\ req'[r].rows = req[r].rows
    BY <1>1, <2>2 DEF Locals
  <2>3. ASSUME req' = [req EXCEPT ![r].seen = cash, ![r].leg.size = 1]
        PROVE  /\ req'[r].row = req[r].row /\ req'[r].leg.symbol = req[r].leg.symbol
               /\ req'[r].rows = req[r].rows
    BY <1>1, <2>3 DEF Locals, Legs
  <2> QED  BY <1>2, <2>1, <2>2, <2>3
<1>15. CASE BuyReadRow(r)
  <2>1. /\ req'[r].row = positions[req[r].leg.symbol] /\ req'[r].leg = req[r].leg
        /\ req'[r].rows = req[r].rows
    BY <1>1, <1>15 DEF BuyReadRow, Locals
  <2> QED  BY <1>6, <2>1
<1>16. CASE SellReadRow(r)
  <2>1. CASE IsOpen(positions[req[r].leg.symbol])
    <3>1. /\ req'[r].row = positions[req[r].leg.symbol] /\ req'[r].leg = req[r].leg
          /\ req'[r].rows = req[r].rows
      BY <1>1, <1>16, <2>1 DEF SellReadRow, Locals
    <3> QED  BY <1>6, <3>1
  <2>2. CASE ~IsOpen(positions[req[r].leg.symbol])
    BY <1>4, <1>16, <2>2 DEF SellReadRow
  <2> QED  BY <2>1, <2>2
<1> QED
  BY <1>7, <1>8, <1>9, <1>10, <1>11, <1>12, <1>13, <1>14, <1>15, <1>16 DEF Step

\* A buy reads and writes its row with its premium debited.
LEMMA DebitedPremium ==
    ASSUME TypeOK, NEW r \in Requests, Start(r) \/ Step(r) \/ Crash(r), FairLocals(r),
           pc'[r] \in {"buyReadRow", "buyWriteRow"}
    PROVE  req'[r].leg.price \in premiums'[req'[r].leg.symbol]
<1> USE DEF Goto, Finish, store
<1>1. /\ pc \in [Requests -> Steps] /\ req \in [Requests -> Locals]
      /\ req[r] \in Locals /\ req[r].leg \in Legs /\ req[r].leg.symbol \in Symbols
      /\ premiums \in [Symbols -> SUBSET Nat]
  BY DEF TypeOK, Locals, Legs
<1>2. BuyDebit(r) \/ BuyReadRow(r)
  <2>1. ~Plain(r)
    BY PlainSteps
  <2>2. ASSUME Reset(r) \/ BuyWriteRow(r) \/ RecordTrade(r) \/ SaveOrder(r) PROVE FALSE
    BY <1>1, <2>2 DEF Reset, BuyWriteRow, RecordTrade, SaveOrder
  <2> QED  BY <2>1, <2>2 DEF Step, Plain
<1>3. CASE BuyDebit(r)
  <2>1. /\ req' = req
        /\ premiums' = [premiums EXCEPT ![req[r].leg.symbol] = @ \union {req[r].leg.price}]
    BY <1>3 DEF BuyDebit
  <2> QED  BY <1>1, <2>1
<1>4. CASE BuyReadRow(r)
  <2>1. req'[r].leg = req[r].leg /\ premiums' = premiums /\ pc[r] = "buyReadRow"
    BY <1>1, <1>4 DEF BuyReadRow, Locals
  <2> QED  BY <2>1 DEF FairLocals
<1> QED  BY <1>2, <1>3, <1>4

\* Only two steps write a position, a reset aside.
LEMMA WritesOfPositions ==
    ASSUME NEW r \in Requests, Start(r) \/ Step(r) \/ Crash(r), ~Reset(r),
           ~BuyWriteRow(r), ~CloseRow(r)
    PROVE  positions' = positions
BY DEF Step, Start, InsertAccount, ListPositions, EndSettlement, LeaveOpen, BeginSettlement,
   RejectOrder, FillOrder, BuyReadCash, BuyDebit, BuyReadRow, SellReadRow, SellReadCash,
   Credit, RecordTrade, SaveOrder, Crash, store

LEMMA FairMove ==
    ASSUME FairInv, TypeOK', IsFiniteSet(Requests), NEW r \in Requests,
           Start(r) \/ Step(r) \/ Crash(r), ~Reset(r)
    PROVE  /\ \A s \in Symbols : FairRow(positions[s], Free(s), premiums[s])'
           /\ \A t \in Requests : FairLocals(t)'
<1>1. TypeOK /\ FairLocals(r)
  BY DEF FairInv, AppliedInv
<1>2. /\ positions \in [Symbols -> Rows] /\ positions' \in [Symbols -> Rows]
      /\ req[r].row \in Rows /\ req[r].leg.symbol \in Symbols
      /\ req[r].leg.quantity \in Nat /\ req[r].leg.price \in Nat
      /\ \A t \in Requests : /\ req[t].row \in Rows /\ req[t].leg.symbol \in Symbols
                              /\ \A s \in Symbols : req[t].rows[s] \in Rows
  BY <1>1 DEF TypeOK, Locals, Legs
<1>3. ASSUME NEW s \in Symbols
      PROVE  /\ Free(s) \in Int /\ Free(s)' \in Int /\ Free(s) <= Free(s)'
             /\ premiums[s] \subseteq premiums'[s]
             /\ premiums'[s] \in SUBSET Nat
  <2>1. Free(s) \in Int /\ UnwrittenUnits(r, s) \in Nat /\ paid[s] \in Nat
    BY <1>1, FreeTypes
  <2>2. Free(s) <= Free(s)' /\ premiums[s] \subseteq premiums'[s]
    BY <1>1, FreeGrows
  <2>3. paid'[s] \in Nat /\ premiums'[s] \in SUBSET Nat
    BY DEF TypeOK
  <2>4. UnwrittenUnits(r, s)' \in Nat
    <3>1. req'[r].leg.quantity \in Nat
      BY DEF TypeOK, Locals, Legs
    <3> QED  BY <3>1 DEF UnwrittenUnits
  <2>5. Free(s)' = Free(s) + (paid'[s] - paid[s]) + (UnwrittenUnits(r, s) - UnwrittenUnits(r, s)')
    BY <1>1, OthersStay, FreeMove
  <2>6. Free(s)' \in Int
    BY <2>1, <2>3, <2>4, <2>5
  <2> QED  BY <2>1, <2>2, <2>3, <2>6
<1>4. ASSUME NEW s \in Symbols, NEW w \in Rows, FairRow(w, Free(s), premiums[s])
      PROVE  FairRow(w, Free(s)', premiums'[s])
  BY <1>3, <1>4, FairGrows
<1>5. ASSUME NEW s \in Symbols
      PROVE  /\ FairRow(positions[s], Free(s)', premiums'[s])
             /\ FairRow(NoPosition, Free(s)', premiums'[s])
  <2>1. FairRow(positions[s], Free(s), premiums[s]) /\ positions[s] \in Rows
    BY <1>2 DEF FairInv
  <2>2. 0 <= Free(s)
    BY <1>3, <2>1 DEF FairRow, Rows
  <2>3. FairRow(NoPosition, Free(s), premiums[s])
    BY <1>3, <2>2, FairNothing
  <2> QED  BY <1>4, <2>1, <2>3, RowsClosed
<1>6. ASSUME NEW s \in Symbols
      PROVE  FairRow(positions'[s], Free(s)', premiums'[s])
  <2> DEFINE l == req[r].leg
  <2>1. CASE BuyWriteRow(r) /\ s = l.symbol
    <3>1. /\ positions' = [positions EXCEPT ![l.symbol] = AfterBuy(req[r].row, l.quantity, l.price)]
          /\ pc[r] = "buyWriteRow" /\ premiums' = premiums
      BY <2>1 DEF BuyWriteRow
    <3>2. FairRow(req[r].row, Free(s), premiums[s]) /\ l.price \in premiums[s]
      BY <1>1, <2>1, <3>1 DEF FairLocals
    <3>3. Free(s)' = Free(s) + l.quantity
      BY <1>1, <2>1, FreeGrows
    <3>4. positions'[s] = AfterBuy(req[r].row, l.quantity, l.price)
      BY <1>2, <2>1, <3>1
    <3>5. FairRow(AfterBuy(req[r].row, l.quantity, l.price), Free(s) + l.quantity, premiums[s])
      <4>1. Free(s) \in Int /\ premiums[s] \in SUBSET Nat
        BY <1>3, <3>1
      <4>2. l.quantity \in Nat /\ req[r].row \in Rows
        BY <1>2
      <4> HIDE DEF l
      <4> QED  BY <3>2, <4>1, <4>2, FairAfterBuy
    <3> QED  BY <3>1, <3>3, <3>4, <3>5
  <2>2. CASE CloseRow(r) /\ s = l.symbol
    <3>1. positions'[s] = IF l.side = "expiry" THEN NoPosition ELSE AfterSell(req[r].row, l.quantity)
      BY <1>2, <2>2 DEF CloseRow
    <3>2. FairRow(req[r].row, Free(s)', premiums'[s])
      BY <1>1, <1>2, <1>4, <2>2 DEF FairLocals
    <3>3. FairRow(AfterSell(req[r].row, l.quantity), Free(s)', premiums'[s])
      BY <1>2, <1>3, <3>2, FairAfterSell
    <3> QED  BY <1>5, <3>1, <3>3
  <2>3. CASE (BuyWriteRow(r) \/ CloseRow(r)) /\ s # l.symbol
    <3>1. positions'[s] = positions[s]
      BY <1>2, <2>3 DEF BuyWriteRow, CloseRow
    <3> QED  BY <1>5, <3>1
  <2>4. CASE ~BuyWriteRow(r) /\ ~CloseRow(r)
    <3>1. positions' = positions
      BY <2>4, WritesOfPositions
    <3> QED  BY <1>5, <3>1
  <2> QED  BY <2>1, <2>2, <2>3, <2>4
<1>7. FairLocals(r)'
  <2>1. Sources(r)
    BY <1>1, RowSources
  <2>2. ASSUME NEW s \in Symbols, s = req'[r].leg.symbol
        PROVE  FairRow(req'[r].row, Free(s)', premiums'[s])
    <3>1. CASE req'[r].row = req[r].row /\ s = req[r].leg.symbol
      <4>1. FairRow(req[r].row, Free(s), premiums[s])
        BY <1>1, <3>1 DEF FairLocals
      <4> QED  BY <1>2, <1>4, <3>1, <4>1
    <3>2. CASE req'[r].row = NoPosition \/ req'[r].row = positions[s]
      BY <1>5, <3>2
    <3>3. CASE req'[r].row = req[r].rows[s]
      <4>1. FairRow(req[r].rows[s], Free(s), premiums[s])
        BY <1>1 DEF FairLocals
      <4> QED  BY <1>2, <1>4, <3>3, <4>1
    <3> QED  BY <2>1, <2>2, <3>1, <3>2, <3>3 DEF Sources
  <2>3. ASSUME NEW s \in Symbols
        PROVE  FairRow(req'[r].rows[s], Free(s)', premiums'[s])
    <3>1. req'[r].rows[s] \in {req[r].rows[s], positions[s], NoPosition}
      BY <2>1 DEF Sources
    <3>2. FairRow(req[r].rows[s], Free(s), premiums[s])
      BY <1>1 DEF FairLocals
    <3>3. FairRow(req[r].rows[s], Free(s)', premiums'[s])
      BY <1>2, <1>4, <3>2
    <3> QED  BY <1>5, <3>1, <3>3
  <2>4. pc'[r] \in {"buyReadRow", "buyWriteRow"}
          => req'[r].leg.price \in premiums'[req'[r].leg.symbol]
    BY <1>1, DebitedPremium
  <2> QED  BY <2>2, <2>3, <2>4 DEF FairLocals
<1>8. ASSUME NEW t \in Requests, t # r
      PROVE  FairLocals(t)'
  <2>1. FairLocals(t) /\ pc'[t] = pc[t] /\ req'[t] = req[t]
    BY <1>1, <1>8, OthersStay DEF FairInv
  <2>2. ASSUME NEW s \in Symbols, s = req[t].leg.symbol
        PROVE  FairRow(req[t].row, Free(s)', premiums'[s])
    <3>1. FairRow(req[t].row, Free(s), premiums[s])
      BY <2>1, <2>2 DEF FairLocals
    <3> QED  BY <1>2, <1>4, <3>1
  <2>3. ASSUME NEW s \in Symbols
        PROVE  FairRow(req[t].rows[s], Free(s)', premiums'[s])
    <3>1. FairRow(req[t].rows[s], Free(s), premiums[s])
      BY <2>1 DEF FairLocals
    <3> QED  BY <1>2, <1>4, <3>1
  <2>4. pc[t] \in {"buyReadRow", "buyWriteRow"}
          => req[t].leg.price \in premiums'[req[t].leg.symbol]
    BY <1>2, <1>3, <2>1 DEF FairLocals
  <2> QED  BY <2>1, <2>2, <2>3, <2>4 DEF FairLocals
<1> QED  BY <1>6, <1>7, <1>8

\* Where no request is in the middle of a buy, all that was debited is free.
LEMMA FreeAtRest ==
    ASSUME IsFiniteSet(Requests), \A r \in Requests : pc[r] = "idle", NEW s \in Symbols,
           paid[s] = 0
    PROVE  Free(s) = 0
<1>1. \A r \in Requests : UnwrittenBuys(s)[r] = 0
  BY DEF UnwrittenBuys, UnwrittenUnits
<1>2. SumFunctionOnSet(UnwrittenBuys(s), Requests) = 0
  BY <1>1, SumOfZeros
<1> QED  BY <1>2 DEF Free

\* Requests that have read nothing hold nothing unfair.
Emptied ==
    /\ \A r \in Requests : pc[r] = "idle" /\ req[r] = NoLocals
    /\ \A s \in Symbols : positions[s] = NoPosition /\ paid[s] = 0

RowsAreFair ==
    /\ \A s \in Symbols : FairRow(positions[s], Free(s), premiums[s])
    /\ \A r \in Requests : FairLocals(r)

LEMMA FairAtRest == IsFiniteSet(Requests) /\ Emptied => RowsAreFair
<1> SUFFICES ASSUME IsFiniteSet(Requests), Emptied PROVE RowsAreFair
  OBVIOUS
<1>1. ASSUME NEW s \in Symbols PROVE FairRow(NoPosition, Free(s), premiums[s])
  <2>1. Free(s) = 0
    BY FreeAtRest DEF Emptied
  <2>2. FairRow(NoPosition, 0, premiums[s])
    BY FairNothing
  <2> QED  BY <2>1, <2>2
<1>2. ASSUME NEW r \in Requests
      PROVE  FairLocals(r)
  <2>1. /\ req[r].row = NoPosition /\ pc[r] = "idle"
        /\ \A s \in Symbols : req[r].rows[s] = NoPosition
    BY DEF Emptied, NoLocals
  <2> QED  BY <1>1, <2>1 DEF FairLocals
<1> QED  BY <1>1, <1>2 DEF RowsAreFair, Emptied

\* A reset takes everything back; with one request, none is left with a row.
LEMMA ResetEmpties ==
    ASSUME TypeOK, OneRequest, NEW r \in Requests, Reset(r)
    PROVE  Emptied'
<1>1. \A t \in Requests : pc'[t] = "idle" /\ req'[t] = NoLocals
  <2>1. pc'[r] = "idle" /\ req'[r] = NoLocals
    BY DEF TypeOK, Reset, Finish, Goto
  <2> QED  BY <2>1, OneRequest DEF OneRequest
<1>2. \A s \in Symbols : positions'[s] = NoPosition /\ paid'[s] = 0
  BY DEF Reset
<1> QED  BY <1>1, <1>2 DEF Emptied

LEMMA FairStep ==
    ASSUME IsFiniteSet(Requests), OneRequest \/ "reset" \notin Kinds,
           FairInv, [Next]_vars
    PROVE  FairInv'
<1>1. /\ TypeOK /\ TypeOK' /\ AppliedInv' /\ RowsAreFair
      /\ \A r \in Requests : SideSound(r)
  BY StepType, AppliedStep DEF FairInv, AppliedInv, RowsAreFair
<1>2. ASSUME UNCHANGED <<positions, paid, premiums, pc, req>>
      PROVE  RowsAreFair'
  <2>1. \A s \in Symbols : Free(s)' = Free(s)
    BY <1>2 DEF Free, UnwrittenBuys, UnwrittenUnits
  <2>2. \A s \in Symbols : FairRow(positions[s], Free(s), premiums[s])'
    BY <1>1, <1>2, <2>1 DEF RowsAreFair
  <2>3. \A r \in Requests : FairLocals(r)'
    BY <1>1, <1>2, <2>1 DEF RowsAreFair, FairLocals
  <2> QED  BY <2>2, <2>3 DEF RowsAreFair
<1>3. ASSUME NEW r \in Requests, Start(r) \/ Step(r) \/ Crash(r)
      PROVE  RowsAreFair'
  <2>1. CASE Reset(r)
    <3>1. "reset" \in Kinds
      BY <1>1, <2>1 DEF Reset, SideSound
    <3>2. Emptied'
      BY <1>1, <2>1, <3>1, ResetEmpties
    <3>3. IsFiniteSet(Requests) /\ Emptied' => RowsAreFair'
      BY FairAtRest, PTL
    <3> QED  BY <3>2, <3>3
  <2>2. CASE ~Reset(r)
    BY <1>1, <1>3, <2>2, FairMove DEF RowsAreFair
  <2> QED  BY <2>1, <2>2
<1>4. ASSUME NEW s \in Symbols, Expire(s) \/ Delist(s)
      PROVE  RowsAreFair'
  BY <1>2, <1>4 DEF Expire, Delist, store
<1>5. ASSUME UNCHANGED vars
      PROVE  RowsAreFair'
  BY <1>2, <1>5 DEF vars
<1>6. RowsAreFair'
  BY <1>3, <1>4, <1>5 DEF Next
<1> QED  BY <1>1, <1>6 DEF FairInv, RowsAreFair

LEMMA FairStart ==
    ASSUME IsFiniteSet(Requests), Init
    PROVE  FairInv
<1>1. Emptied
  BY DEF Init, Emptied
<1>2. RowsAreFair /\ AppliedInv
  BY <1>1, FairAtRest, AppliedStart
<1> QED  BY <1>2 DEF FairInv, RowsAreFair

\* Any number of overlapping requests, dying anywhere: whatever stale or
\* vanished row a buy averages with, a position holds no more contracts than
\* were debited, at an average of the premiums they were debited at. A reset is
\* allowed only when requests do not overlap.
THEOREM AveragesAreFair ==
    ASSUME IsFiniteSet(Requests), OneRequest \/ "reset" \notin Kinds
    PROVE  Spec => []RowsCameFromFills
<1>1. Init => FairInv
  BY FairStart
<1>2. FairInv /\ [Next]_vars => FairInv'
  BY FairStep
<1>3. FairInv => RowsCameFromFills
  <2> SUFFICES ASSUME FairInv, NEW s \in Symbols, IsOpen(positions[s])
               PROVE  positions[s].quantity <= paid[s]
                      /\ Between(positions[s].average_price, premiums[s])
    BY DEF RowsCameFromFills, Between
  <2>1. TypeOK /\ FairRow(positions[s], Free(s), premiums[s])
    BY DEF FairInv, AppliedInv
  <2>2. /\ positions[s].quantity <= Free(s)
        /\ Between(positions[s].average_price, premiums[s])
    BY <2>1 DEF FairRow
  <2>3. SumFunctionOnSet(UnwrittenBuys(s), Requests) \in Nat /\ paid[s] \in Nat
    BY <2>1, FreeTypes
  <2>4. positions[s].quantity \in Nat
    BY <2>1 DEF TypeOK, Rows
  <2>5. positions[s].quantity <= paid[s]
    BY <2>2, <2>3, <2>4 DEF Free
  <2> QED  BY <2>2, <2>5
<1> QED  BY <1>1, <1>2, <1>3, PTL DEF Spec
=============================================================================
