----------------------------- MODULE SignalLife -----------------------------
(***************************************************************************)
(* A signal from the strategies to its outcome: SignalGenerator sizes the  *)
(* ideas of a pass and leaves out repetitions, dispatch of main.py tells   *)
(* the user and logs, and /api/report/evaluate measures the logged signals *)
(* against the market. Two processes pass over the market: the bot, which  *)
(* keeps one generator for its life, and the dashboard, which builds a new *)
(* one for each scan. They share the database of signals.                  *)
(***************************************************************************)
EXTENDS Integers, FiniteSets, Sequences, SequencesExt, FiniteSetsExt

CONSTANTS
    Singles,        \* ideas of one leg
    Legs,           \* legs of the one multi-leg structure
    Ratio,          \* leg_ratio of each leg
    Sold,           \* the ideas and legs whose side is SELL
    Sizes,          \* what the risk calculator may answer; 0 rejects
    Window,         \* dedupe_window_minutes, in ticks
    Evaluators,     \* requests of /api/report/evaluate that can run at once
    MaxSignals,     \* bound: signals ever generated
    MaxFailures     \* bound: crashes and failed writes

Items == Singles \union Legs
Structure == "structure"
Keys == Singles \union {Structure}
Procs == {"bot", "web"}

ASSUME SignalAssumption ==
    /\ Singles \intersect Legs = {} /\ Structure \notin Singles
    /\ IsFiniteSet(Singles) /\ IsFiniteSet(Legs)
    /\ Ratio \in [Legs -> Nat \ {0}]
    /\ Sold \subseteq Items
    /\ Sizes \subseteq Nat
    /\ Window \in Nat \ {0}
    /\ MaxSignals \in Nat /\ MaxFailures \in Nat

VARIABLES
    pc,         \* step of each process
    emitted,    \* _last_emitted of each process, as ages
    out,        \* ids a process still has to dispatch
    signals,    \* history: every signal generated; its id is its index
    told,       \* ids some channel delivered
    log,        \* ids in table signals
    outcomes,   \* table signal_outcomes, by id
    todo,       \* rows an evaluation has still to measure
    life,       \* history: number of the generator each process uses
    dropped,    \* history: ids a failure kept from being logged
    failures    \* history: crashes and failed writes

vars == <<pc, emitted, out, signals, told, log, outcomes, todo, life, dropped, failures>>

Ids == 1..Len(signals)
Never == -1
NoneEmitted == [k \in Keys |-> Never]
NoOutcome == [result |-> "none", profit |-> FALSE]

Init ==
    /\ pc = [p \in Procs |-> "idle"]
    /\ emitted = [p \in Procs |-> NoneEmitted]
    /\ out = [p \in Procs |-> <<>>]
    /\ signals = <<>> /\ told = {} /\ log = {}
    /\ outcomes = <<>>
    /\ todo = [e \in Evaluators |-> {}]
    /\ life = [p \in Procs |-> 0]
    /\ dropped = {} /\ failures = 0

-----------------------------------------------------------------------------
(* SignalGenerator.                                                        *)

\* Mutant: a repetition is only noticed while nothing has aged.
IsDuplicateShort(ages, k) == ages[k] = 0

IsDuplicate(ages, k) == ages[k] # Never /\ ages[k] < Window

AcceptedSingles(ages, offered, size) ==
    {k \in offered \intersect Singles : size[k] > 0 /\ ~IsDuplicate(ages, k)}

\* Mutant: a rejected leg is left out and the others go on.
SizedLegsSome(size) == {l \in Legs : size[l] > 0}

\* The legs that go on: a rejected leg takes the whole structure with it.
SizedLegs(size) == IF \A l \in Legs : size[l] > 0 THEN Legs ELSE {}

\* The smallest number of structures every leg has room for.
BaseSize(size) == Min({size[l] \div Ratio[l] : l \in SizedLegs(size)})

AcceptedLegs(ages, offered, size) ==
    IF /\ Structure \in offered /\ ~IsDuplicate(ages, Structure)
       /\ SizedLegs(size) # {} /\ BaseSize(size) > 0
    THEN SizedLegs(size) ELSE {}

NewSignal(p, item, quantity) ==
    [item |-> item, qty |-> quantity, pass |-> Len(signals) + 1, life |-> <<p, life'[p]>>, age |-> 0]

\* run_once: the singles, then the structure.
Accepted(p, ages, offered, size) ==
    LET singles == SetToSeq(AcceptedSingles(ages, offered, size))
        legs == SetToSeq(AcceptedLegs(ages, offered, size))
    IN  [i \in 1..Len(singles) |-> NewSignal(p, singles[i], size[singles[i]])]
        \o [i \in 1..Len(legs) |-> NewSignal(p, legs[i], BaseSize(size) * Ratio[legs[i]])]

\* A pass of process p; a scan of the dashboard builds its generator anew.
Generate(p) ==
    /\ pc[p] = "idle" /\ Len(signals) < MaxSignals
    /\ life' = IF p = "web" THEN [life EXCEPT ![p] = Len(signals) + 1] ELSE life
    /\ LET ages == IF p = "web" THEN NoneEmitted ELSE emitted[p] IN
       \E offered \in SUBSET Keys, size \in [Items -> Sizes] :
         LET new == Accepted(p, ages, offered, size)
             keys == AcceptedSingles(ages, offered, size)
                     \union {k \in {Structure} : AcceptedLegs(ages, offered, size) # {}}
         IN  /\ new # <<>> /\ Len(signals) + Len(new) <= MaxSignals
             /\ signals' = signals \o new
             /\ outcomes' = outcomes \o [i \in 1..Len(new) |-> NoOutcome]
             /\ out' = [out EXCEPT ![p] = [i \in 1..Len(new) |-> Len(signals) + i]]
             /\ emitted' = [emitted EXCEPT ![p] = [k \in Keys |-> IF k \in keys THEN 0 ELSE ages[k]]]
    /\ pc' = [pc EXCEPT ![p] = "deliver"]
    /\ UNCHANGED <<told, log, todo, dropped, failures>>

-----------------------------------------------------------------------------
(* dispatch.                                                               *)

\* Every channel is tried; each may refuse, and a muted one does.
Deliver(p) ==
    /\ pc[p] = "deliver"
    /\ told' \in {told, told \union {Head(out[p])}}
    /\ pc' = [pc EXCEPT ![p] = "save"]
    /\ UNCHANGED <<emitted, out, signals, log, outcomes, todo, life, dropped, failures>>

\* Mutant: the table has one row per idea instead of one per signal.
SaveOnce(p) ==
    /\ pc[p] = "save"
    /\ LET id == Head(out[p]) IN
       log' = IF \E i \in log : signals[i].item = signals[id].item THEN log ELSE log \union {id}
    /\ out' = [out EXCEPT ![p] = Tail(@)]
    /\ pc' = [pc EXCEPT ![p] = IF Len(out[p]) = 1 THEN "idle" ELSE "deliver"]
    /\ UNCHANGED <<emitted, signals, told, outcomes, todo, life, dropped, failures>>

Save(p) ==
    /\ pc[p] = "save"
    /\ log' = log \union {Head(out[p])}
    /\ out' = [out EXCEPT ![p] = Tail(@)]
    /\ pc' = [pc EXCEPT ![p] = IF Len(out[p]) = 1 THEN "idle" ELSE "deliver"]
    /\ UNCHANGED <<emitted, signals, told, outcomes, todo, life, dropped, failures>>

\* Mutant: what was left of the pass is not thrown away.
FailsKeepsRest(p) ==
    /\ pc[p] \in {"deliver", "save"}
    /\ failures < MaxFailures
    /\ failures' = failures + 1
    /\ emitted' = [emitted EXCEPT ![p] = NoneEmitted]
    /\ life' = [life EXCEPT ![p] = Len(signals) + 1]
    /\ pc' = [pc EXCEPT ![p] = "idle"]
    /\ UNCHANGED <<out, signals, told, log, outcomes, todo, dropped>>

\* The process dies, or its write raises: that ends the bot, which is started
\* again with a new generator, and the scan of the dashboard.
Fails(p) ==
    /\ pc[p] \in {"deliver", "save"}
    /\ failures < MaxFailures
    /\ failures' = failures + 1
    /\ dropped' = dropped \union ToSet(out[p])
    /\ out' = [out EXCEPT ![p] = <<>>]
    /\ emitted' = [emitted EXCEPT ![p] = NoneEmitted]
    /\ life' = [life EXCEPT ![p] = Len(signals) + 1]
    /\ pc' = [pc EXCEPT ![p] = "idle"]
    /\ UNCHANGED <<signals, told, log, outcomes, todo>>

\* Bound: time stands still while a process passes over the market.
Tick ==
    /\ \A p \in Procs : pc[p] = "idle"
    /\ signals' = [i \in Ids |-> [signals[i] EXCEPT !.age = IF @ = Window THEN @ ELSE @ + 1]]
    /\ emitted' = [p \in Procs |-> [k \in Keys |->
                     IF emitted[p][k] \in {Never, Window} THEN emitted[p][k] ELSE emitted[p][k] + 1]]
    /\ UNCHANGED <<pc, out, told, log, outcomes, todo, life, dropped, failures>>

-----------------------------------------------------------------------------
(* /api/report/evaluate. Premiums are 0 (none known) to 3; every signal    *)
(* was suggested at 2, with its target and its stop one away.              *)

Premiums == 0..3
Entry == 2
Target(item) == IF item \in Sold THEN 1 ELSE 3
Stop(item) == IF item \in Sold THEN 3 ELSE 1

\* evaluate_signal
Evaluated(item, price, expired) ==
    IF price >= Target(item) THEN "win"
    ELSE IF price <= Stop(item) THEN "loss"
    ELSE IF expired THEN (IF price > Entry THEN "win" ELSE "loss")
    ELSE "pending"

\* Does whoever followed the signal gain at this price? (pnl_pct is stored as
\* if every side were BUY.)
Profit(item, price) == IF item \in Sold THEN price < Entry ELSE price > Entry

\* Mutant: what has an outcome is measured again.
PendingRowsAll == log

\* pending_signals
PendingRows == {i \in log : outcomes[i] = NoOutcome}

StartEvaluation(e) ==
    /\ todo[e] = {}
    /\ PendingRows # {}
    /\ todo' = [todo EXCEPT ![e] = PendingRows]
    /\ UNCHANGED <<pc, emitted, out, signals, told, log, outcomes, life, dropped, failures>>

\* One row: without a price it is skipped, otherwise its outcome is stored.
EvaluateRow(e) ==
    /\ \E i \in todo[e], price \in Premiums, expired \in BOOLEAN :
         /\ todo' = [todo EXCEPT ![e] = @ \ {i}]
         /\ outcomes' = IF price = 0 THEN outcomes
                        ELSE [outcomes EXCEPT ![i] =
                                [result |-> Evaluated(signals[i].item, price, expired),
                                 profit |-> Profit(signals[i].item, price)]]
    /\ UNCHANGED <<pc, emitted, out, signals, told, log, life, dropped, failures>>

\* The request ends early; rows it has measured stay.
EvaluationFails(e) ==
    /\ todo[e] # {}
    /\ todo' = [todo EXCEPT ![e] = {}]
    /\ UNCHANGED <<pc, emitted, out, signals, told, log, outcomes, life, dropped, failures>>

Next ==
    \/ \E p \in Procs : Generate(p) \/ Deliver(p) \/ Save(p) \/ Fails(p)
    \/ Tick
    \/ \E e \in Evaluators : StartEvaluation(e) \/ EvaluateRow(e) \/ EvaluationFails(e)

Spec == Init /\ [][Next]_vars
=============================================================================
