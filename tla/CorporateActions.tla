------------------------- MODULE CorporateActions --------------------------
(***************************************************************************)
(* Capital increases and dividends applied to contracts and to history     *)
(* (market/corporate_actions.py). A ratio is a pair of share counts, old   *)
(* over new; prices count a unit fine enough for every quotient to be      *)
(* exact. A row of the source is [day, old, new]; a log is a sequence of   *)
(* actions in the order of their days.                                     *)
(***************************************************************************)
EXTENDS Ordering, Sequences, SequencesExt, FiniteSetsExt

\* Python's round of a fraction: halves go to the even neighbour.
Rounded(a, b) ==
    LET q == a \div b
        twice == 2 * (a % b)
    IN  CASE twice < b -> q
          [] twice > b -> q + 1
          [] OTHER -> q + (q % 2)

\* from_share_change refuses a row whose ratio cannot be told.
IsReadable(row) == row.old > 0 /\ row.new > 0 /\ row.old # row.new

Increase(row) == [kind |-> "capital_increase", day |-> row.day, old |-> row.old, new |-> row.new]
Dividend(day, amount) == [kind |-> "cash_dividend", day |-> day, amount |-> amount]

\* The actions of the rows at some positions, in the order of their days.
Increases(rows, positions) ==
    LET order == SortedBy(positions, [i \in DOMAIN rows |-> rows[i].day])
    IN  [k \in DOMAIN order |-> Increase(rows[order[k]])]

ByDay(actions) ==
    LET order == SortedBy(DOMAIN actions, [i \in DOMAIN actions |-> actions[i].day])
    IN  [k \in DOMAIN order |-> actions[order[k]]]

\* Mutant: a transition is told apart by its day.
FetchedByDay(rows) ==
    LET readable == {i \in DOMAIN rows : IsReadable(rows[i])}
    IN  Increases(rows, {i \in readable : \A j \in readable : j < i => rows[j].day # rows[i].day})

\* fetch_corporate_actions: the source repeats a transition of shares on the
\* next day, so only the first of each counts.
Fetched(rows) ==
    LET readable == {i \in DOMAIN rows : IsReadable(rows[i])}
    IN  Increases(rows, {i \in readable : \A j \in readable :
                            j < i => <<rows[j].old, rows[j].new>> # <<rows[i].old, rows[i].new>>})

\* add.
Added(log, action) == ByDay(Append(log, action))

\* since: after the reference day, up to and on the last one.
Since(log, reference, until) == SelectSeq(log, LAMBDA a : reference < a.day /\ a.day <= until)

\* CorporateAction.apply.
Apply(contract, action) ==
    IF action.kind = "capital_increase"
    THEN [strike |-> (contract.strike * action.old) \div action.new,
          size |-> Max({Rounded(contract.size * action.new, action.old), 1})]
    ELSE [contract EXCEPT !.strike = Max({@ - action.amount, 0})]

\* adjust.
Adjusted(log, contract, issued, today) == FoldLeft(Apply, contract, Since(log, issued, today))

\* net_ratio applied to a price: dividends do not move it.
AtScaleOf(log, price, reference, until) ==
    FoldLeft(LAMBDA p, a : IF a.kind = "capital_increase" THEN (p * a.old) \div a.new ELSE p,
             price, Since(log, reference, until))

\* adjust_history, to the scale after every action of the log.
AdjustedHistory(log, candles) ==
    LET last == Max({0} \union {log[i].day : i \in DOMAIN log})
    IN  [i \in DOMAIN candles |->
            [candles[i] EXCEPT !.price = AtScaleOf(log, @, candles[i].day, last)]]
=============================================================================
