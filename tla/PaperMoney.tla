----------------------------- MODULE PaperMoney -----------------------------
(***************************************************************************)
(* The arithmetic of the paper account (risk/fees.py and the fill and      *)
(* position formulas of execution/paper_broker.py), shared by the abstract *)
(* ledger and by the broker that works on the store commit by commit.      *)
(*                                                                         *)
(* Money is counted in 1/RateScale of a rial, so that a fee, which is a    *)
(* rate times a worth, is an exact integer: a rate is given as an integer  *)
(* number of 1/RateScale.                                                  *)
(***************************************************************************)
EXTENDS Integers

CONSTANTS
    Symbols,          \* option symbols that may be traded
    Prices,           \* premiums a fill or a last trade may have
    ContractSize,     \* [Symbols -> shares per contract]
    RateScale,        \* denominator of the fee rates
    BuyRate,          \* buy_rate
    SellRate,         \* sell_rate + sell_tax_rate
    PerOrder,         \* per_order
    InitialBalance,   \* paper_trading.initial_balance
    MaxQuantity       \* bound: the largest order

ASSUME MoneyAssumption ==
    /\ Symbols # {}
    /\ Prices \subseteq Nat \ {0}
    /\ ContractSize \in [Symbols -> Nat \ {0}]
    /\ RateScale \in Nat \ {0}
    /\ BuyRate \in Nat /\ SellRate \in Nat /\ PerOrder \in Nat
    /\ InitialBalance \in Int
    /\ MaxQuantity \in Nat

Quantities == 1..MaxQuantity

Worth(price, quantity, size) == price * quantity * size
Notional(price, quantity, size) == RateScale * Worth(price, quantity, size)

EntryCost(worth) == worth * BuyRate + PerOrder
ExitCost(worth) == worth * SellRate + PerOrder

\* A missing row of paper_positions.
NoPosition == [quantity |-> 0, average_price |-> 0]
IsOpen(row) == row.quantity > 0

\* Mutant: the mean is taken over the old quantity only.
AfterBuyOldDivisor(row, quantity, price) ==
    IF IsOpen(row)
    THEN [quantity      |-> row.quantity + quantity,
          average_price |-> (row.quantity * row.average_price + quantity * price)
                              \div row.quantity]
    ELSE [quantity |-> quantity, average_price |-> price]

\* Mutant: the last price replaces the mean.
AfterBuyLastPrice(row, quantity, price) ==
    [quantity |-> row.quantity + quantity, average_price |-> price]

\* The row written by a buy: quantities add up and the price is the weighted
\* mean. Integer division stands for the code's float division; it is exact
\* for every run (prices are multiples of every quantity a run can reach).
AfterBuy(row, quantity, price) ==
    IF IsOpen(row)
    THEN [quantity      |-> row.quantity + quantity,
          average_price |-> (row.quantity * row.average_price + quantity * price)
                              \div (row.quantity + quantity)]
    ELSE [quantity |-> quantity, average_price |-> price]

\* The row written by a sell: a quantity of zero or less deletes the row.
AfterSell(row, quantity) ==
    IF row.quantity - quantity <= 0
    THEN NoPosition
    ELSE [row EXCEPT !.quantity = @ - quantity]

\* pnl_absolute of a closed trade: the exit fee is in it, the entry fee is not.
TradePnl(row, quantity, price, size) ==
    RateScale * (price - row.average_price) * quantity * size
      - ExitCost(Worth(price, quantity, size))

\* The tables paper_trades and paper_orders, kept per symbol as totals: no
\* reader of them tells two rows of one symbol apart except by display.
EmptyTrades == [closed |-> 0, pnl |-> 0]
EmptyOrders == [bought |-> 0, sold |-> 0, entryFees |-> 0]

AddTrade(total, quantity, pnl) ==
    [closed |-> total.closed + quantity, pnl |-> total.pnl + pnl]

AddBuyOrder(total, quantity, fee) ==
    [bought |-> total.bought + quantity, sold |-> total.sold,
     entryFees |-> total.entryFees + fee]

AddSellOrder(total, quantity) ==
    [bought |-> total.bought, sold |-> total.sold + quantity,
     entryFees |-> total.entryFees]
=============================================================================
