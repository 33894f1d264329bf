-------------------------- MODULE PaperBrokerProps --------------------------
(***************************************************************************)
(* What the paper broker should keep true, and the refinement mapping from *)
(* its commit-by-commit store to the atomic account of PaperLedger.        *)
(***************************************************************************)
EXTENDS PaperBroker, Functions

Rows == [quantity : Nat, average_price : Nat]
Sides == {"buy", "sell", "expiry", "none"}
Legs == [symbol : Symbols, side : Sides, price : Nat, quantity : Nat, size : Nat]
Steps == {"idle", "insert", "started", "settle", "check", "buyReadCash", "buyDebit",
          "buyReadRow", "buyWriteRow", "sellReadRow", "sellReadCash", "credit",
          "closeRow", "trade", "save"}
Locals == [ask : OrderAsks \union [kind : {"none", "view", "reset"}],
           leg : Legs, seen : Int, row : Rows,
           rows : [Symbols -> Rows], chain : [Symbols -> Contracts]]

\* Type invariant: the tables of paper_trading_store.py hold well-formed rows
\* and every local variable of a request in flight is of its declared kind.
TypeOK ==
    /\ opened \in BOOLEAN
    /\ cash \in Int
    /\ positions \in [Symbols -> Rows]
    /\ trades \in [Symbols -> [closed : Nat, pnl : Int]]
    /\ orders \in [Symbols -> [bought : Nat, sold : Nat, entryFees : Nat]]
    /\ contract \in [Symbols -> Contracts]
    /\ pc \in [Requests -> Steps]
    /\ req \in [Requests -> Locals]
    /\ \A r \in Requests : pc[r] = "check" => req[r].ask \in OrderAsks
    /\ paid \in [Symbols -> Nat]
    /\ premiums \in [Symbols -> SUBSET Nat]
    /\ crashes \in Nat

-----------------------------------------------------------------------------
(* One request at a time.                                                  *)

AtRest == \A r \in Requests : pc[r] = "idle"

\* Every contract held now and every contract closed by a recorded trade was
\* debited once by a buy (_apply_buy, _apply_sell, settle_expired_positions): the
\* trade is recorded after the row is written, so a request that dies half way
\* never leaves a contract both in a trade and in a row. What dying does to the
\* cash is the matter of DeathCostsOnePosting.
UnitsArePaidFor ==
    \A s \in Symbols : positions[s].quantity + trades[s].closed <= paid[s]

\* What the books are wrong by: cash plus the cost of the open positions, less
\* the initial balance, the profit of the recorded trades and the entry fees of
\* the recorded buys (lines 146-151 and 193-204, 217-243, 334-357).
Imbalance ==
    cash
    + SumFunction([s \in Symbols |->
          Notional(positions[s].average_price, positions[s].quantity, ContractSize[s])])
    - InitialBalance
    - SumFunction([s \in Symbols |-> trades[s].pnl - orders[s].entryFees])

\* Double entry: between requests the books balance, as long as no request has
\* died half way.
BooksBalance == opened /\ AtRest /\ crashes = 0 => Imbalance = 0

\* The most one posting moves: all that may be held of a symbol, at a premium.
LargestPosting(s, price) ==
    LET worth == Worth(price, MaxBought, ContractSize[s])
    IN  RateScale * worth + EntryCost(worth)

\* A request that dies between two commits leaves the books wrong by its own
\* posting and no more. A settlement that dies after its credit and before its
\* row is deleted (lines 337-338) is credited again by the next request: once
\* for each death, never because a request that lived settled it.
DeathCostsOnePosting ==
    opened /\ AtRest =>
        \E s \in Symbols, price \in Prices :
            LET most == crashes * LargestPosting(s, price)
            IN  Imbalance <= most /\ -Imbalance <= most

\* A position whose contract has expired, is still listed and has a last
\* price is closed by the next request that settles (web/api.py:1033, 1066),
\* as long as requests keep coming.
ExpiredIsSettled ==
    \A s \in Symbols :
        (IsOpen(positions[s]) /\ Due(contract[s]))
            ~> (~IsOpen(positions[s]) \/ ~Due(contract[s]))

FairSpec == Spec /\ \A r \in Requests : WF_vars(Start(r) \/ Step(r))

-----------------------------------------------------------------------------
(* Any number of requests at a time.                                       *)

\* Whatever stale or vanished row a buy averaged with (lines 197-204), a
\* position holds no more contracts than were debited since the last reset, and
\* its average price lies between two premiums they were debited at.
RowsCameFromFills ==
    \A s \in Symbols : IsOpen(positions[s]) =>
        /\ positions[s].quantity <= paid[s]
        /\ \E low, high \in premiums[s] :
              low <= positions[s].average_price /\ positions[s].average_price <= high

\* place_order saves the order row last (line 150): what the order history
\* shows as filled was debited, or closed by a recorded trade, before.
FilledOrdersAreApplied ==
    \A s \in Symbols :
        /\ orders[s].bought <= paid[s]
        /\ orders[s].sold <= trades[s].closed

-----------------------------------------------------------------------------
(* What the documentation says, and concurrent requests break.             *)

\* "This broker does not support short selling" (execution/paper_broker.py:104,
\* and the module docstring, lines 8-12): sell orders fill no more than was bought.
NoShortSelling == \A s \in Symbols : orders[s].sold <= paid[s]

-----------------------------------------------------------------------------
(* Refinement. The account is seen as it was before the posting in flight  *)
(* until the posting's last commit: RecordTrade for a settlement and       *)
(* SaveOrder for an order.                                                 *)

Only == CHOOSE r \in Requests : TRUE

CashWritten == {"buyReadRow", "buyWriteRow", "closeRow", "trade", "save"}
RowWritten == {"trade", "save"}

LedgerCash == IF pc[Only] \in CashWritten THEN req[Only].seen ELSE cash

LedgerPositions ==
    IF pc[Only] \in RowWritten
    THEN [positions EXCEPT ![req[Only].leg.symbol] = req[Only].row]
    ELSE positions

LedgerTrades ==
    IF pc[Only] = "save" /\ req[Only].leg.side = "sell"
    THEN [trades EXCEPT ![req[Only].leg.symbol] =
            AddTrade(@, -req[Only].leg.quantity, -LegPnl(Only))]
    ELSE trades

Ledger == INSTANCE PaperLedger WITH
    cash <- LedgerCash, positions <- LedgerPositions, trades <- LedgerTrades

\* With one request at a time and none dying, every order, settlement and
\* reset is one atomic posting of the ledger, and every other step leaves
\* the account as it was.
RefinesLedger == Ledger!Spec
=============================================================================
