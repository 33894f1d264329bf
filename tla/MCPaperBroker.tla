--------------------------- MODULE MCPaperBroker ----------------------------
(* Values of the constants for the runs of the paper broker. Premiums are  *)
(* multiples of 12 so that the average of up to three buys is exact.       *)
EXTENDS PaperBrokerProps, TLC

MCContractSize == [s \in Symbols |-> IF s = "call" THEN 2 ELSE 3]
MCPrices == {12, 24}
RequestSymmetry == Permutations(Requests)

(* No guard reads the cash or a profit, so the run whose properties do not *)
(* mention them identifies states that differ in nothing else.             *)
WithoutMoney ==
    <<opened, positions, orders, contract, pc, paid, premiums, crashes,
      [s \in Symbols |-> trades[s].closed],
      [r \in Requests |-> [req[r] EXCEPT !.seen = 0]]>>
=============================================================================
