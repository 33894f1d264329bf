---------------------------- MODULE MCSignalLife ----------------------------
(* One single idea, sold, and a structure of a bought and a sold leg. *)
EXTENDS SignalLifeProps, TLC

MCSingles == {"covered call"}
MCLegs == {"put", "call"}
MCRatio == [l \in MCLegs |-> IF l = "put" THEN 1 ELSE 2]
MCSold == {"covered call", "call"}
MCSizes == {0, 1, 4}

EvaluatorSymmetry == Permutations(Evaluators)

\* No guard reads the size of a single idea or the profit of an outcome, so
\* the run whose properties do not depend on them identifies states that
\* differ in nothing else.
WithoutProfits ==
    <<pc, emitted, out, told, log, todo, life, dropped, failures,
      [i \in Ids |-> IF signals[i].item \in Legs THEN signals[i] ELSE [signals[i] EXCEPT !.qty = 0]],
      [i \in Ids |-> outcomes[i].result]>>

=============================================================================
