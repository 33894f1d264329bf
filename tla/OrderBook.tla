----------------------------- MODULE OrderBook ------------------------------
(***************************************************************************)
(* The multi-level book of data/order_book.py: what an order of a given    *)
(* size would really be filled at. A row of the source quotes one level of *)
(* both sides; a side is a sequence of levels, best first. An average fill *)
(* price is kept as cost and quantity, so that it is exact.                *)
(***************************************************************************)
EXTENDS Ordering, Sequences, SequencesExt

Sides == {"buy", "sell"}
IsReal(level) == level.price > 0 /\ level.quantity > 0

\* Mutant: the source is trusted to send the levels in order.
SideAsSent(levels, side) ==
    LET order == SortedBy({i \in DOMAIN levels : IsReal(levels[i])}, [i \in DOMAIN levels |-> 0])
    IN  [k \in DOMAIN order |-> levels[order[k]]]

\* from_depth: levels without price or volume are holes; bids fall, asks rise.
Side(levels, side) ==
    LET key == [i \in DOMAIN levels |-> IF side = "bid" THEN -levels[i].price ELSE levels[i].price]
        order == SortedBy({i \in DOMAIN levels : IsReal(levels[i])}, key)
    IN  [k \in DOMAIN order |-> levels[order[k]]]

Bids(rows) == Side([i \in DOMAIN rows |-> [price |-> rows[i].bid, quantity |-> rows[i].bidSize]], "bid")
Asks(rows) == Side([i \in DOMAIN rows |-> [price |-> rows[i].ask, quantity |-> rows[i].askSize]], "ask")

\* A buy is filled from the asks and a sell from the bids.
LevelsFor(rows, side) == IF side = "buy" THEN Asks(rows) ELSE Bids(rows)

Take(fill, level) ==
    LET n == IF fill.left < level.quantity THEN fill.left ELSE level.quantity
    IN  [left |-> fill.left - n, cost |-> fill.cost + n * level.price]

\* fill_price: eat the levels until the order is filled or the book is empty.
Fill(rows, side, quantity) ==
    LET end == FoldLeft(Take, [left |-> quantity, cost |-> 0], LevelsFor(rows, side))
    IN  [filled |-> quantity - end.left, cost |-> end.cost]

CanFill(rows, side, quantity) == Fill(rows, side, quantity).filled >= quantity

\* slippage is Excess / (best price * quantity); no slippage of a partial fill.
Excess(rows, side, quantity) ==
    LET worst == Fill(rows, side, quantity).cost
        best == LevelsFor(rows, side)[1].price * quantity
    IN  IF worst > best THEN worst - best ELSE best - worst
=============================================================================
