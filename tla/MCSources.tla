----------------------------- MODULE MCSources -----------------------------
(* A small instance of the feeds and the shared files.                     *)
EXTENDS Sources

CONSTANTS c1, c2, r1, r2

\* A pass of the bot, with the price next to the history and next to the
\* chain (the two share no cache), the orders of the dashboard, a backtest;
\* the empty one is a context nobody asks, for the behaviours that follow the
\* files.
MCDuties == {{"quote", "history"}, {"quote", "chain"}, {"contract", "book"}, {"history", "premium"}, {}}

MCTTL == [f \in Feed |-> CASE f = "directory" -> 3 [] OTHER -> 2]

MCSettings == [enabled : BOOLEAN, token : BOOLEAN, session : {"missing", "empty", "cookies"}, enrich : BOOLEAN]

MCKeys == {<<"risk", "equity">>, <<"risk", "contracts">>, <<"market_data", "symbols">>}
MCExample == [k \in MCKeys |-> 0]

=============================================================================
