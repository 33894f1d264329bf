----------------------------- MODULE FeedsProps ----------------------------
(* What the users of a context's data may rely on.                         *)
EXTENDS Feeds

\* The oldest data an operation may answer with: what its cache is trusted
\* for, or, with a stamp taken after the request, that and the attempt which
\* read it; data that was just asked for may have taken an attempt as well.
Trusted(op) ==
    LET f == Source(op)
    IN  IF f \in StampAfter THEN TTL[f] - 1 + AttemptTicks
        ELSE IF TTL[f] - 1 > AttemptTicks THEN TTL[f] - 1 ELSE AttemptTicks

\* A chain also ages while the broker is asked for its sizes.
Asking(op) == IF op = "chain" /\ enriched THEN EnrichLimit * Retries * AttemptTicks ELSE 0

\* However slow the network, however often it is asked again and whatever
\* order the operations come in, no answer rests on market data older than
\* the trust in its cache: a chain or a history is counted from before its
\* request (tsetmc_option_chain_client.py:206, tsetmc_market_data_client.py:80
\* and :152), a premium or an order book from after it, which lets it be one
\* attempt older (option_history.py:180, order_book.py:282).
AnswersAreFresh == answer.ok => answer.age <= Trusted(answer.op) + Asking(answer.op)

\* Once the context has served a contract at the broker's size, every later
\* chain in which it is near enough to be asked for carries that size too,
\* whatever fails in between: a contract never goes back to the size of the
\* exchange and changes the sizing of the same structure
\* (enriched_option_chain.py:146-176).
CorrectedStaysCorrected ==
    answer.ok /\ answer.op = "chain" => told \intersect answer.near \subseteq answer.corrected

\* An operation that has begun returns or raises: the attempts of each
\* request are bounded, a missing directory or a chain without the symbol
\* asks again only once (tsetmc_http.py:36-47, emofid.py:267-307).
EveryCallEnds == (call.op # "none") ~> (call.op = "none")
=============================================================================
