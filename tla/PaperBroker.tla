---------------------------- MODULE PaperBroker -----------------------------
(***************************************************************************)
(* The paper broker as it runs: execution/paper_broker.py over             *)
(* storage/paper_trading_store.py, called by the paper-trading endpoints   *)
(* of web/api.py. Every endpoint builds its own store connection and runs  *)
(* in a thread of its own, no lock is taken, and every write of the store  *)
(* is committed by itself. One action is one SELECT, or one write with its *)
(* commit, together with the local computation that follows it.            *)
(***************************************************************************)
EXTENDS PaperMoney

CONSTANTS
    Requests,       \* HTTP requests that can be in flight at once
    Kinds,          \* which endpoints are used: "order", "view", "reset"
    ChainExpires,   \* may the chain be re-fetched within one request?
    MaxBought,      \* bound: contracts of one symbol bought between resets
    MaxCrashes      \* bound: requests that die half way

ASSUME BrokerAssumption ==
    /\ Kinds \subseteq {"order", "view", "reset"}
    /\ ChainExpires \in BOOLEAN
    /\ MaxBought \in Nat
    /\ MaxCrashes \in Nat

VARIABLES
    opened, cash, positions, trades, orders,    \* the store (PaperLedger)
    contract,   \* [Symbols -> what the option chain says of the contract]
    pc,         \* [Requests -> next step of the request]
    req,        \* [Requests -> local variables of the request]
    paid,       \* history: contracts whose price was debited since a reset
    premiums,   \* history: what they were debited at
    crashes     \* history: requests that died

store == <<opened, cash, positions, trades, orders>>
vars == <<opened, cash, positions, trades, orders, contract, pc, req, paid, premiums, crashes>>

NoPrice == 0
Contracts == [listed : BOOLEAN, expired : BOOLEAN, last_price : Prices \union {NoPrice}]
NewContract == [listed |-> TRUE, expired |-> FALSE, last_price |-> NoPrice]

OrderAsks == [kind : {"order"}, symbol : Symbols, side : {"buy", "sell"}, quantity : Quantities]
Asks == {a \in OrderAsks : "order" \in Kinds} \union [kind : Kinds \ {"order"}]
NoLeg == [symbol |-> CHOOSE s \in Symbols : TRUE, side |-> "none",
          price |-> 0, quantity |-> 0, size |-> 0]

NoLocals == [ask |-> [kind |-> "none"], leg |-> NoLeg, seen |-> 0, row |-> NoPosition,
             rows |-> [s \in Symbols |-> NoPosition],
             chain |-> [s \in Symbols |-> NewContract]]

Goto(r, step) == pc' = [pc EXCEPT ![r] = step]

\* The request answers, or dies: its local variables are gone.
Finish(r) == Goto(r, "idle") /\ req' = [req EXCEPT ![r] = NoLocals]

LegWorth(r) == Worth(req[r].leg.price, req[r].leg.quantity, ContractSize[req[r].leg.symbol])
LegPnl(r) == TradePnl(req[r].row, req[r].leg.quantity, req[r].leg.price, ContractSize[req[r].leg.symbol])

Init ==
    /\ opened = FALSE
    /\ cash = 0
    /\ positions = [s \in Symbols |-> NoPosition]
    /\ trades = [s \in Symbols |-> EmptyTrades]
    /\ orders = [s \in Symbols |-> EmptyOrders]
    /\ contract = [s \in Symbols |-> NewContract]
    /\ pc = [r \in Requests |-> "idle"]
    /\ req = [r \in Requests |-> NoLocals]
    /\ paid = [s \in Symbols |-> 0]
    /\ premiums = [s \in Symbols |-> {}]
    /\ crashes = 0

-----------------------------------------------------------------------------
(* A request arrives: the endpoint builds a broker, whose constructor reads *)
(* the account row and inserts it when it is missing.                      *)

Start(r) ==
    /\ pc[r] = "idle"
    /\ \E a \in Asks : req' = [req EXCEPT ![r].ask = a]
    /\ Goto(r, IF opened THEN "started" ELSE "insert")
    /\ UNCHANGED <<store, contract, paid, premiums, crashes>>

\* The insert of a second request that also saw no row fails on the primary
\* key, and its request ends with an error.
InsertAccount(r) ==
    /\ pc[r] = "insert"
    /\ IF opened
       THEN Finish(r) /\ UNCHANGED <<opened, cash>>
       ELSE /\ opened' = TRUE
            /\ cash' = InitialBalance
            /\ Goto(r, "started")
            /\ UNCHANGED req
    /\ UNCHANGED <<positions, trades, orders, contract, paid, premiums, crashes>>

Reset(r) ==
    /\ pc[r] = "started"
    /\ req[r].ask.kind = "reset"
    /\ cash' = InitialBalance
    /\ positions' = [s \in Symbols |-> NoPosition]
    /\ trades' = [s \in Symbols |-> EmptyTrades]
    /\ orders' = [s \in Symbols |-> EmptyOrders]
    /\ paid' = [s \in Symbols |-> 0]
    /\ premiums' = [s \in Symbols |-> {}]
    /\ Finish(r)
    /\ UNCHANGED <<opened, contract, crashes>>

-----------------------------------------------------------------------------
(* settle_expired_positions, run by an order and by a positions page.      *)

ListPositions(r) ==
    /\ pc[r] = "started"
    /\ req[r].ask.kind \in {"order", "view"}
    /\ req' = [req EXCEPT ![r].rows = positions, ![r].chain = contract]
    /\ Goto(r, "settle")
    /\ UNCHANGED <<store, contract, paid, premiums, crashes>>

Due(c) == c.listed /\ c.expired /\ c.last_price # NoPrice

\* A row whose contract is unknown, not due or without a last price is left.
LeaveOpen(r, s) ==
    /\ pc[r] = "settle"
    /\ IsOpen(req[r].rows[s])
    /\ ~Due(req[r].chain[s])
    /\ req' = [req EXCEPT ![r].rows[s] = NoPosition]
    /\ UNCHANGED <<store, contract, pc, paid, premiums, crashes>>

\* The whole of the row that was listed is closed at the last price.
BeginSettlement(r, s) ==
    /\ pc[r] = "settle"
    /\ IsOpen(req[r].rows[s])
    /\ Due(req[r].chain[s])
    /\ req' = [req EXCEPT
                 ![r].row = req[r].rows[s],
                 ![r].rows[s] = NoPosition,
                 ![r].seen = cash,
                 ![r].leg = [symbol |-> s, side |-> "expiry",
                             price |-> req[r].chain[s].last_price,
                             quantity |-> req[r].rows[s].quantity,
                             size |-> ContractSize[s]]]
    /\ Goto(r, "credit")
    /\ UNCHANGED <<store, contract, paid, premiums, crashes>>

\* Mutant: the loop stops at the first row that is not due.
EndSettlementEarly(r) ==
    /\ pc[r] = "settle"
    /\ IF req[r].ask.kind = "order" THEN Goto(r, "check") /\ UNCHANGED req ELSE Finish(r)
    /\ UNCHANGED <<store, contract, paid, premiums, crashes>>

\* Mutant: a positions page falls through to the order.
EndSettlementFallsThrough(r) ==
    /\ pc[r] = "settle"
    /\ \A s \in Symbols : ~IsOpen(req[r].rows[s])
    /\ Goto(r, "check")
    /\ UNCHANGED <<store, req, contract, paid, premiums, crashes>>

EndSettlement(r) ==
    /\ pc[r] = "settle"
    /\ \A s \in Symbols : ~IsOpen(req[r].rows[s])
    /\ IF req[r].ask.kind = "order" THEN Goto(r, "check") /\ UNCHANGED req ELSE Finish(r)
    /\ UNCHANGED <<store, contract, paid, premiums, crashes>>

-----------------------------------------------------------------------------
(* place_order up to the fill. The held quantity is read here, and again   *)
(* by _apply_sell after the network calls for the contract and the book.   *)

Held(s) == positions[s].quantity

\* Too little held, contract unknown, no order book, or no depth: the
\* rejected order row is saved and nothing else changes.
RejectOrder(r) ==
    /\ pc[r] = "check"
    /\ Finish(r)
    /\ UNCHANGED <<store, contract, paid, premiums, crashes>>

\* Mutant: the order row is saved before the fill is applied.
FillOrderSavesFirst(r) ==
    /\ pc[r] = "check"
    /\ LET a == req[r].ask IN
       /\ a.side = "buy"
       /\ req[r].chain[a.symbol].listed
       /\ \E price \in Prices :
            /\ paid[a.symbol] + a.quantity <= MaxBought
            /\ orders' = [orders EXCEPT ![a.symbol] = AddBuyOrder(@, a.quantity, 0)]
            /\ req' = [req EXCEPT ![r] = [NoLocals EXCEPT !.leg =
                         [symbol |-> a.symbol, side |-> a.side, price |-> price,
                          quantity |-> a.quantity, size |-> ContractSize[a.symbol]]]]
       /\ Goto(r, "buyReadCash")
    /\ UNCHANGED <<opened, cash, positions, trades, contract, paid, premiums, crashes>>

FillOrder(r) ==
    /\ pc[r] = "check"
    /\ LET a == req[r].ask IN
       /\ a.side = "sell" => Held(a.symbol) >= a.quantity
       /\ req[r].chain[a.symbol].listed
       /\ \E price \in Prices, filled \in 1..a.quantity :
            /\ a.side = "buy" => paid[a.symbol] + filled <= MaxBought
            /\ req' = [req EXCEPT ![r] = [NoLocals EXCEPT !.leg =
                         [symbol |-> a.symbol, side |-> a.side, price |-> price,
                          quantity |-> filled, size |-> ContractSize[a.symbol]]]]
       /\ Goto(r, IF a.side = "buy" THEN "buyReadCash" ELSE "sellReadRow")
    /\ UNCHANGED <<store, contract, paid, premiums, crashes>>

-----------------------------------------------------------------------------
(* _apply_buy: cash first, then the position row.                          *)

\* The contract is resolved a second time for its size; when the chain was
\* re-fetched meanwhile and no longer lists it, the size falls back to 1.
BuyReadCash(r) ==
    /\ pc[r] = "buyReadCash"
    /\ \/ req' = [req EXCEPT ![r].seen = cash]
       \/ /\ ChainExpires
          /\ ~contract[req[r].leg.symbol].listed
          /\ req' = [req EXCEPT ![r].seen = cash, ![r].leg.size = 1]
    /\ Goto(r, "buyDebit")
    /\ UNCHANGED <<store, contract, paid, premiums, crashes>>

\* Mutant: the entry fee is not debited.
BuyDebitWithoutFee(r) ==
    /\ pc[r] = "buyDebit"
    /\ cash' = req[r].seen - Notional(req[r].leg.price, req[r].leg.quantity, req[r].leg.size)
    /\ paid' = [paid EXCEPT ![req[r].leg.symbol] = @ + req[r].leg.quantity]
    /\ premiums' = [premiums EXCEPT ![req[r].leg.symbol] = @ \union {req[r].leg.price}]
    /\ Goto(r, "buyReadRow")
    /\ UNCHANGED <<opened, positions, trades, orders, contract, req, crashes>>

BuyDebit(r) ==
    /\ pc[r] = "buyDebit"
    /\ cash' = req[r].seen - Notional(req[r].leg.price, req[r].leg.quantity, req[r].leg.size)
                 - EntryCost(LegWorth(r))
    /\ paid' = [paid EXCEPT ![req[r].leg.symbol] = @ + req[r].leg.quantity]
    /\ premiums' = [premiums EXCEPT ![req[r].leg.symbol] = @ \union {req[r].leg.price}]
    /\ Goto(r, "buyReadRow")
    /\ UNCHANGED <<opened, positions, trades, orders, contract, req, crashes>>

BuyReadRow(r) ==
    /\ pc[r] = "buyReadRow"
    /\ req' = [req EXCEPT ![r].row = positions[req[r].leg.symbol]]
    /\ Goto(r, "buyWriteRow")
    /\ UNCHANGED <<store, contract, paid, premiums, crashes>>

BuyWriteRow(r) ==
    /\ pc[r] = "buyWriteRow"
    /\ positions' = [positions EXCEPT ![req[r].leg.symbol] =
                       AfterBuy(req[r].row, req[r].leg.quantity, req[r].leg.price)]
    /\ Goto(r, "save")
    /\ UNCHANGED <<opened, cash, trades, orders, contract, req, paid, premiums, crashes>>

-----------------------------------------------------------------------------
(* _apply_sell and the posting of a settlement: cash, row, then the trade. *)

\* Mutant: a row that is gone is taken for a sell already applied.
SellReadRowReturns(r) ==
    /\ pc[r] = "sellReadRow"
    /\ LET current == positions[req[r].leg.symbol] IN
       IF IsOpen(current)
       THEN Goto(r, "sellReadCash") /\ req' = [req EXCEPT ![r].row = current]
       ELSE Goto(r, "save") /\ UNCHANGED req
    /\ UNCHANGED <<store, contract, paid, premiums, crashes>>

\* The row may be gone by now; indexing None then ends the request.
SellReadRow(r) ==
    /\ pc[r] = "sellReadRow"
    /\ LET current == positions[req[r].leg.symbol] IN
       IF IsOpen(current)
       THEN Goto(r, "sellReadCash") /\ req' = [req EXCEPT ![r].row = current]
       ELSE Finish(r)
    /\ UNCHANGED <<store, contract, paid, premiums, crashes>>

SellReadCash(r) ==
    /\ pc[r] = "sellReadCash"
    /\ req' = [req EXCEPT ![r].seen = cash]
    /\ Goto(r, "credit")
    /\ UNCHANGED <<store, contract, paid, premiums, crashes>>

Credit(r) ==
    /\ pc[r] = "credit"
    /\ cash' = req[r].seen + Notional(req[r].leg.price, req[r].leg.quantity, req[r].leg.size)
                 - ExitCost(LegWorth(r))
    /\ Goto(r, "closeRow")
    /\ UNCHANGED <<opened, positions, trades, orders, contract, req, paid, premiums, crashes>>

\* Mutant: a settlement leaves its row in the table.
CloseRowKeepsSettled(r) ==
    /\ pc[r] = "closeRow"
    /\ positions' = [positions EXCEPT ![req[r].leg.symbol] =
                       IF req[r].leg.side = "expiry" THEN @
                       ELSE AfterSell(req[r].row, req[r].leg.quantity)]
    /\ Goto(r, "trade")
    /\ UNCHANGED <<opened, cash, trades, orders, contract, req, paid, premiums, crashes>>

\* A settlement deletes the row outright; a sell writes what remains of the
\* row it read.
CloseRow(r) ==
    /\ pc[r] = "closeRow"
    /\ positions' = [positions EXCEPT ![req[r].leg.symbol] =
                       IF req[r].leg.side = "expiry" THEN NoPosition
                       ELSE AfterSell(req[r].row, req[r].leg.quantity)]
    /\ Goto(r, "trade")
    /\ UNCHANGED <<opened, cash, trades, orders, contract, req, paid, premiums, crashes>>

RecordTrade(r) ==
    /\ pc[r] = "trade"
    /\ trades' = [trades EXCEPT ![req[r].leg.symbol] =
                    AddTrade(@, req[r].leg.quantity, LegPnl(r))]
    /\ Goto(r, IF req[r].leg.side = "expiry" THEN "settle" ELSE "save")
    /\ UNCHANGED <<opened, cash, positions, orders, contract, req, paid, premiums, crashes>>

\* The order row is written last.
SaveOrder(r) ==
    /\ pc[r] = "save"
    /\ orders' = [orders EXCEPT ![req[r].leg.symbol] =
                    IF req[r].leg.side = "buy"
                    THEN AddBuyOrder(@, req[r].leg.quantity, EntryCost(LegWorth(r)))
                    ELSE AddSellOrder(@, req[r].leg.quantity)]
    /\ Finish(r)
    /\ UNCHANGED <<opened, cash, positions, trades, contract, paid, premiums, crashes>>

-----------------------------------------------------------------------------
(* What the broker does not control.                                       *)

\* An exception (a failed fetch, a locked database) or a killed process ends
\* a request between two commits; what was committed stays.
Crash(r) ==
    /\ pc[r] # "idle"
    /\ crashes < MaxCrashes
    /\ crashes' = crashes + 1
    /\ Finish(r)
    /\ UNCHANGED <<store, contract, paid, premiums>>

\* The expiry day comes; the last trade of the contract may have a price.
Expire(s) ==
    /\ ~contract[s].expired
    /\ \E p \in Prices \union {NoPrice} :
         contract' = [contract EXCEPT ![s] = [@ EXCEPT !.expired = TRUE, !.last_price = p]]
    /\ UNCHANGED <<store, pc, req, paid, premiums, crashes>>

\* The chain stops listing an expired contract.
Delist(s) ==
    /\ contract[s].expired
    /\ contract[s].listed
    /\ contract' = [contract EXCEPT ![s].listed = FALSE]
    /\ UNCHANGED <<store, pc, req, paid, premiums, crashes>>

-----------------------------------------------------------------------------
Step(r) ==
    \/ InsertAccount(r) \/ Reset(r)
    \/ ListPositions(r) \/ EndSettlement(r)
    \/ \E s \in Symbols : LeaveOpen(r, s) \/ BeginSettlement(r, s)
    \/ RejectOrder(r) \/ FillOrder(r)
    \/ BuyReadCash(r) \/ BuyDebit(r) \/ BuyReadRow(r) \/ BuyWriteRow(r)
    \/ SellReadRow(r) \/ SellReadCash(r) \/ Credit(r) \/ CloseRow(r)
    \/ RecordTrade(r) \/ SaveOrder(r)

Next ==
    \/ \E r \in Requests : Start(r) \/ Step(r) \/ Crash(r)
    \/ \E s \in Symbols : Expire(s) \/ Delist(s)

Spec == Init /\ [][Next]_vars
=============================================================================
