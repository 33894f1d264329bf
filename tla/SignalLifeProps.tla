--------------------------- MODULE SignalLifeProps --------------------------
(***************************************************************************)
(* What holds of the signals a user is told of and of their outcomes.      *)
(***************************************************************************)
EXTENDS SignalLife

Results == {"none", "pending", "win", "loss"}
InFlight == UNION {ToSet(out[p]) : p \in Procs}

\* Type invariant: a process dispatches what it generated, in order, and only
\* logged signals have outcomes.
TypeOK ==
    /\ pc \in [Procs -> {"idle", "deliver", "save"}]
    /\ emitted \in [Procs -> [Keys -> {Never} \union 0..Window]]
    /\ \A i \in Ids : signals[i].item \in Items /\ signals[i].qty > 0 /\ signals[i].age \in 0..Window
    /\ \A p \in Procs : /\ ToSet(out[p]) \subseteq Ids \ log
                        /\ pc[p] = "idle" <=> out[p] = <<>>
    /\ told \subseteq Ids /\ log \subseteq Ids /\ dropped \subseteq Ids \ log
    /\ \A i \in Ids : /\ outcomes[i].result \in Results /\ outcomes[i].profit \in BOOLEAN
                      /\ outcomes[i] # NoOutcome => i \in log
    /\ \A e \in Evaluators : todo[e] \subseteq log
    /\ failures \in 0..MaxFailures

\* A structure is all its legs in their ratio or nothing, as the log shows it,
\* however many legs the risk limits rejected and whatever the two processes
\* do (_process_leg_group, signal_generator.py:184-230). Legs that a failure
\* kept out of the log are the exception.
LoggedStructuresAreWhole ==
    \A i \in log : signals[i].item \in Legs =>
        \A l \in Legs : \E j \in log \union InFlight \union dropped :
            /\ signals[j].item = l /\ signals[j].pass = signals[i].pass
            /\ signals[j].qty * Ratio[signals[i].item] = signals[i].qty * Ratio[l]

\* What the user was told of is in the log, or the process is about to log
\* it, or one failure kept it out: each failure costs at most one (dispatch,
\* main.py:52-61, saves each signal before it tells of the next).
ToldIsLogged ==
    /\ told \subseteq log \union dropped \union {out[p][1] : p \in {q \in Procs : pc[q] = "save"}}
    /\ Cardinality(told \intersect dropped) <= failures

KeyOf(i) == IF signals[i].item \in Legs THEN Structure ELSE signals[i].item

\* One generator does not repeat an idea within the window
\* (_is_duplicate_key, signal_generator.py:336-345): when a signal is new,
\* those it repeats have left the window.
NoRepeatInOneLife ==
    \A i, j \in Ids :
        /\ i < j /\ KeyOf(i) = KeyOf(j) /\ signals[i].life = signals[j].life
        /\ signals[i].pass # signals[j].pass /\ signals[j].age = 0
        => signals[i].age = Window

Decided(i) == outcomes[i].result \in {"win", "loss"}
Holders(i) == {e \in Evaluators : i \in todo[e]}

\* A result that is in is final, but for the evaluations that had listed its row
\* before (pending_signals, reporting.py:312-325, and record_outcome, which
\* replaces): no evaluation lists it any more, and each of those that had
\* replaces it at most once.
DecidedIsFinal ==
    [][\A i \in Ids : Decided(i) =>
          /\ Holders(i)' \subseteq Holders(i)
          /\ outcomes'[i] # outcomes[i] => Holders(i)' # Holders(i)]_vars

\* "Measures the result of the signals in waiting with the real price of the
\* market" (api.py:637), and "neither target nor stop hit: the trade is open,
\* not lost" (reporting.py:392-393): an evaluation looks at every logged signal
\* that is not decided.
OpenSignalsAreEvaluated ==
    [][\A e \in Evaluators : todo[e] = {} /\ todo'[e] # {} =>
          {i \in log : outcomes[i].result \notin {"win", "loss"}} \subseteq todo'[e]]_vars

\* "This project only gives buy signals; a profit means the premium went up"
\* (reporting.py:375-376): no signal is a win at a premium where it loses.
WinsAreProfits == \A i \in log : outcomes[i].result = "win" => outcomes[i].profit
=============================================================================
