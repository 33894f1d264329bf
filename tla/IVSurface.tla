----------------------------- MODULE IVSurface -----------------------------
(***************************************************************************)
(* The implied volatilities of a chain and the history of their level      *)
(* (pricing/iv_surface.py). A chain is a set of contracts [type, strike,   *)
(* expiry, interest, iv], iv being 0 where none can be computed. A mean is *)
(* the pair [sum, count]; a history maps days to means.                    *)
(***************************************************************************)
EXTENDS Integers, FiniteSets, FiniteSetsExt

\* from_chain: contracts without open interest or without a volatility are
\* no points.
Points(chain, spot, minInterest) ==
    {c \in chain : c.interest >= minInterest /\ spot > 0 /\ c.strike > 0 /\ c.iv > 0}

Mean(points) == [sum |-> FoldSet(LAMBDA p, s : p.iv + s, 0, points), count |-> Cardinality(points)]
Below(a, b) == a.sum * b.count < b.sum * a.count

Distance(p, spot) == IF p.strike > spot THEN p.strike - spot ELSE spot - p.strike

\* atm_iv of some points: the mean of all the nearest to the spot.
AtmIv(points, spot) ==
    Mean({p \in points : \A q \in points : Distance(p, spot) <= Distance(q, spot)})

-----------------------------------------------------------------------------
(* IVHistory of one symbol.                                                *)

\* Mutant: points of the past are never dropped.
RecordKeepsAll(history, value, today, maxDays) ==
    [d \in DOMAIN history \union {today} |-> IF d = today THEN value ELSE history[d]]

\* record and _prune: one point per day, none older than maxDays.
Record(history, value, today, maxDays) ==
    [d \in {e \in DOMAIN history \union {today} : e >= today - maxDays} |->
        IF d = today THEN value ELSE history[d]]

\* record_surface.
RecordSurface(history, points, spot, today, maxDays) ==
    IF points = {} THEN history ELSE Record(history, AtmIv(points, spot), today, maxDays)

\* rank: the percentile is below/samples, and unknown of too few samples.
Rank(history, value, minSamples) ==
    [known |-> Cardinality(DOMAIN history) >= minSamples,
     below |-> Cardinality({d \in DOMAIN history : Below(history[d], value)}),
     samples |-> Cardinality(DOMAIN history)]

\* is_rich and is_cheap; both are false of an unknown rank.
IsRich(rank, threshold) == rank.known /\ 100 * rank.below >= threshold * rank.samples
IsCheap(rank, threshold) == rank.known /\ 100 * rank.below <= threshold * rank.samples
=============================================================================
