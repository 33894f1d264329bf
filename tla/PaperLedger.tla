---------------------------- MODULE PaperLedger -----------------------------
(***************************************************************************)
(* What the paper broker promises: one account on which every order and    *)
(* every expiry settlement is a single atomic posting. Cash, the position  *)
(* row, the trade row and the order row of one operation change together.  *)
(* This is the abstract specification that PaperBroker implements when its *)
(* requests do not overlap and none of them dies half way.                 *)
(***************************************************************************)
EXTENDS PaperMoney

VARIABLES
    opened,     \* the account row exists
    cash,
    positions,  \* [Symbols -> row of paper_positions, NoPosition when absent]
    trades,     \* [Symbols -> totals of paper_trades]
    orders      \* [Symbols -> totals of paper_orders]

ledger == <<opened, cash, positions, trades, orders>>

Init ==
    /\ opened = FALSE
    /\ cash = 0
    /\ positions = [s \in Symbols |-> NoPosition]
    /\ trades = [s \in Symbols |-> EmptyTrades]
    /\ orders = [s \in Symbols |-> EmptyOrders]

Open ==
    /\ ~opened
    /\ opened' = TRUE
    /\ cash' = InitialBalance
    /\ UNCHANGED <<positions, trades, orders>>

Buy(s, quantity, price) ==
    LET worth == Worth(price, quantity, ContractSize[s]) IN
    /\ opened
    /\ cash' = cash - RateScale * worth - EntryCost(worth)
    /\ positions' = [positions EXCEPT ![s] = AfterBuy(@, quantity, price)]
    /\ orders' = [orders EXCEPT ![s] = AddBuyOrder(@, quantity, EntryCost(worth))]
    /\ UNCHANGED <<opened, trades>>

\* Money in, position down and trade recorded: common to a sell and to an
\* expiry settlement.
Close(s, quantity, price) ==
    LET worth == Worth(price, quantity, ContractSize[s]) IN
    /\ opened
    /\ quantity \in 1..positions[s].quantity
    /\ cash' = cash + RateScale * worth - ExitCost(worth)
    /\ positions' = [positions EXCEPT ![s] = AfterSell(@, quantity)]
    /\ trades' = [trades EXCEPT ![s] =
                    AddTrade(@, quantity,
                             TradePnl(positions[s], quantity, price, ContractSize[s]))]
    /\ UNCHANGED opened

Sell(s, quantity, price) ==
    /\ Close(s, quantity, price)
    /\ orders' = [orders EXCEPT ![s] = AddSellOrder(@, quantity)]

Settle(s, price) ==
    /\ Close(s, positions[s].quantity, price)
    /\ UNCHANGED orders

Reset ==
    /\ opened
    /\ cash' = InitialBalance
    /\ positions' = [s \in Symbols |-> NoPosition]
    /\ trades' = [s \in Symbols |-> EmptyTrades]
    /\ orders' = [s \in Symbols |-> EmptyOrders]
    /\ UNCHANGED opened

Next ==
    \/ Open
    \/ Reset
    \/ \E s \in Symbols, price \in Prices :
         \/ Settle(s, price)
         \/ \E quantity \in Quantities : Buy(s, quantity, price) \/ Sell(s, quantity, price)

Spec == Init /\ [][Next]_ledger
=============================================================================
