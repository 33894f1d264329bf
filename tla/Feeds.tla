------------------------------- MODULE Feeds -------------------------------
(* The market data of one context: the clients create_app builds, each     *)
(* with its own cache and its own rule for what is still fresh, asked by   *)
(* the one thread that owns the context while time passes and the network  *)
(* answers late, wrongly or not at all.                                    *)
(* Time is counted in ticks.  What the thread computes takes none: only    *)
(* waiting for the network and idling do.                                  *)
EXTENDS Naturals, FiniteSets

CONSTANTS
    Contracts,      \* contracts of the one underlying asked for
    Settings,       \* settings a context may be built from
    Duties,         \* for each use of a context, the operations it calls
    TTL,            \* ticks each cache is trusted for
    Retries,        \* attempts of one request
    AttemptTicks,   \* longest an attempt lasts, its timeout and the pause after it
    EnrichLimit     \* contracts whose size is asked of the broker

Feed == {"chain", "directory", "history", "premium", "book"}
Operation == {"quote", "history", "chain", "contract", "premium", "book"}
Content == {"malformed", "empty", "unlisted", "listed"}

ASSUME FeedsAssumption ==
    /\ IsFiniteSet(Contracts)
    /\ TTL \in [Feed -> Nat \ {0}]
    /\ Retries \in Nat \ {0}
    /\ AttemptTicks \in Nat
    /\ EnrichLimit \in Nat
    /\ Duties \subseteq SUBSET Operation

VARIABLES
    duty,       \* what this context is used for
    enriched,   \* the chain is the one that corrects sizes from the broker
    cache,      \* per feed: what is kept, its stamp's age and the data's own age
    call,       \* the operation in progress and its request
    margin,     \* per contract: what _margin_cache and _failed hold
    told,       \* contracts ever served at the broker's size (history)
    answer      \* what an operation returned in this step

vars == <<duty, enriched, cache, call, margin, told, answer>>

-----------------------------------------------------------------------------
(* Building a context.                                                     *)

\* With neither a token nor a usable session file there is no account, and
\* the context is built without one.
AccountIsBuilt(s) == s.enabled /\ (s.token \/ s.session \in {"token", "cookies"})

\* The broker sits on top of the chain of the provider when it is asked for
\* and there is an account; with a limit of 0 it changes nothing.
Enriches(s) == s.enrich /\ AccountIsBuilt(s) /\ EnrichLimit > 0

NothingKept == [f \in Feed |-> [what |-> "none", at |-> 0, read |-> 0, near |-> {}]]
NoReply == [what |-> "none", age |-> 0, near |-> {}]

\* An operation, the request it waits for and the age of what it holds.
Request(op, fetch, hand) ==
    [op |-> op, fetch |-> fetch, since |-> 0, tries |-> 1, spent |-> 0, hand |-> hand, reply |-> NoReply]

NoCall == Request("none", "none", 0)
NoAnswer == [op |-> "none", ok |-> FALSE, age |-> 0, near |-> {}, corrected |-> {}]

\* create_app: no cache holds anything yet.
Init ==
    /\ duty \in Duties
    /\ enriched \in {Enriches(s) : s \in Settings}
    /\ cache = NothingKept
    /\ call = NoCall
    /\ margin = [c \in Contracts |-> "unknown"]
    /\ told = {}
    /\ answer = NoAnswer

-----------------------------------------------------------------------------
(* What each client trusts.                                                *)

Young(f) == cache[f].at < TTL[f]
ChainIsFresh == cache["chain"].what \in {"unlisted", "listed"} /\ Young("chain")
DirectoryIsFresh == cache["directory"].what \in {"unlisted", "listed"} /\ Young("directory")
HistoryIsCached == cache["history"].what = "listed" /\ Young("history")
PremiumIsCached == cache["premium"].what # "none" /\ Young("premium")
BookIsCached == cache["book"].what # "none" /\ Young("book")

\* The request an operation starts with; a history that is not cached first
\* needs the code of its symbol, out of the directory.
Needs(op) ==
    CASE op = "quote" -> IF DirectoryIsFresh THEN "none" ELSE "directory"
      [] op = "history" -> IF HistoryIsCached THEN "none" ELSE IF DirectoryIsFresh THEN "history" ELSE "directory"
      [] op = "premium" -> IF PremiumIsCached THEN "none" ELSE "premium"
      [] op = "book" -> IF BookIsCached THEN "none" ELSE "book"
      [] OTHER -> IF ChainIsFresh THEN "none" ELSE "chain"

\* The cache an operation reads its answer from.
Source(op) ==
    CASE op = "quote" -> "directory"
      [] op \in {"chain", "contract", "naming"} -> "chain"
      [] OTHER -> op

\* What a client keeps of a well-formed or malformed response; "error" is an
\* exception before anything is kept.
Kept(f, what) ==
    CASE f = "chain" /\ what = "malformed" -> "error"
      [] f = "history" /\ what \in {"malformed", "empty"} -> "error"
      [] f \in {"directory", "premium", "book"} /\ what = "malformed" -> "empty"
      [] OTHER -> what

\* Mutant of Stamp: every client reads the clock once the answer is there.
StampOnceServed(f, since) == 0

\* The age of the stamp a client writes: the clock was read before the
\* request, or, for the premiums and the order book, after it.
StampAfter == {"premium", "book"}
Stamp(f, since) == IF f \in StampAfter THEN 0 ELSE since

\* Past its time to live an entry is only stale, however old it is.
Aged(f, e) == IF e.at < TTL[f] THEN e ELSE [e EXCEPT !.at = TTL[f], !.read = TTL[f] + AttemptTicks]

Entry(f, what, at) == Aged(f, [what |-> what, at |-> at, read |-> call.reply.age, near |-> call.reply.near])

Starting(op, fetch) == Request(op, fetch, IF fetch = "none" THEN cache[Source(op)].read ELSE 0)

\* A directory that is fresh and does not list the symbol ends a history at
\* once.
Unresolvable(op) == op = "history" /\ ~HistoryIsCached /\ DirectoryIsFresh /\ cache["directory"].what # "listed"

Refuse(op) ==
    /\ call.op = "none"
    /\ op \in duty
    /\ Unresolvable(op)
    /\ answer' = [NoAnswer EXCEPT !.op = op]
    /\ UNCHANGED <<duty, enriched, cache, call, margin, told>>

Begin(op) ==
    /\ call.op = "none"
    /\ op \in duty
    /\ ~Unresolvable(op)
    /\ call' = Starting(op, Needs(op))
    /\ answer' = NoAnswer
    /\ UNCHANGED <<duty, enriched, cache, margin, told>>

-----------------------------------------------------------------------------
(* One request of fetch_json or of the broker's _get.                      *)

\* The contracts nearest to the price of the underlying.
NearSets ==
    {S \in SUBSET Contracts : Cardinality(S) = IF EnrichLimit < Cardinality(Contracts)
                                               THEN EnrichLimit ELSE Cardinality(Contracts)}

\* The server reads the market and replies.
Reply(what) ==
    /\ call.fetch \in Feed
    /\ call.reply = NoReply
    /\ \E near \in IF call.fetch = "chain" /\ what = "listed" THEN NearSets ELSE {{}} :
          call' = [call EXCEPT !.reply = [what |-> what, age |-> 0, near |-> near]]
    /\ UNCHANGED <<duty, enriched, cache, margin, told, answer>>

Failing == [NoAnswer EXCEPT !.op = call.op]

\* Mutant of Again below: an attempt that failed is not counted.
AgainUncounted == [call EXCEPT !.spent = 0, !.reply = NoReply]

Again == [call EXCEPT !.tries = @ + 1, !.spent = 0, !.reply = NoReply]

\* A timeout, a refused connection or an unreadable body: the next attempt,
\* as long as there is one.
Retry ==
    /\ call.fetch # "none"
    /\ call.tries < Retries
    /\ call' = Again
    /\ UNCHANGED <<duty, enriched, cache, margin, told, answer>>

\* The last attempt has failed: the operation raises.
GiveUp ==
    /\ call.fetch \in Feed
    /\ call.tries = Retries
    /\ call' = NoCall
    /\ answer' = Failing
    /\ UNCHANGED <<duty, enriched, cache, margin, told>>

\* The response is parsed, kept and stamped; after a directory that was read
\* for a history comes the history itself.
Receive ==
    LET f == call.fetch
        kept == Kept(f, call.reply.what)
        forHistory == f = "directory" /\ call.op = "history"
    IN  /\ f \in Feed
        /\ call.reply # NoReply
        /\ cache' = IF kept = "error" THEN cache
                    ELSE [cache EXCEPT ![f] = Entry(f, kept, Stamp(f, call.since))]
        /\ IF kept = "error" \/ (forHistory /\ kept # "listed")
           THEN call' = NoCall /\ answer' = Failing
           ELSE /\ call' = IF forHistory
                           THEN [Request("history", "history", 0) EXCEPT !.since = call.since]
                           ELSE Request(call.op, "none", call.reply.age)
                /\ UNCHANGED answer
        /\ UNCHANGED <<duty, enriched, margin, told>>

-----------------------------------------------------------------------------
(* Sizes from the broker, for the contracts nearest to the price.          *)

Near == cache["chain"].near
Unasked == {c \in Near : margin[c] = "unknown"}
MustAsk == enriched /\ call.op = "chain" /\ cache["chain"].what = "listed" /\ Unasked # {}

AskBroker ==
    /\ call.fetch = "none"
    /\ MustAsk
    /\ call' = [call EXCEPT !.fetch = "spec"]
    /\ UNCHANGED <<duty, enriched, cache, margin, told, answer>>

\* Mutant of Remembered: a failure clears what is known of the others.
ForgottenOnFailure(c, outcome) ==
    IF outcome = "known" THEN [margin EXCEPT ![c] = outcome]
    ELSE [d \in Contracts |-> IF d = c THEN outcome ELSE "unknown"]

Remembered(c, outcome) == [margin EXCEPT ![c] = outcome]

\* A spec with a positive size is kept for the life of the context; and so is
\* any failure: a refused token, a 4xx or a missing field at once, an
\* unreachable broker after its last attempt.
SpecArrives(c) ==
    /\ call.fetch = "spec"
    /\ c \in Unasked
    /\ margin' = Remembered(c, "known")
    /\ call' = Request("chain", "none", call.hand)
    /\ UNCHANGED <<duty, enriched, cache, told, answer>>

SpecFails(c) ==
    /\ call.fetch = "spec"
    /\ c \in Unasked
    /\ margin' = Remembered(c, "failed")
    /\ call' = Request("chain", "none", call.hand)
    /\ UNCHANGED <<duty, enriched, cache, told, answer>>

-----------------------------------------------------------------------------
(* Answers.                                                                *)

Found(op) == op \in {"contract", "history", "premium", "book"} \/ (op # "naming" /\ cache[Source(op)].what = "listed")

Corrected == IF enriched /\ call.op = "chain" THEN {c \in Near : margin[c] = "known"} ELSE {}

\* The chain of a symbol the market does not list is an error that names the
\* ones it does, which asks for the rows once more.
NameOthers ==
    /\ call.op = "chain"
    /\ call.fetch = "none"
    /\ ~Found("chain")
    /\ call' = Starting("naming", Needs("naming"))
    /\ UNCHANGED <<duty, enriched, cache, margin, told, answer>>

Return ==
    /\ call.op # "none"
    /\ call.fetch = "none"
    /\ ~MustAsk
    /\ call.op = "chain" => Found("chain")
    /\ answer' = IF Found(call.op)
                 THEN [op |-> call.op, ok |-> TRUE, age |-> call.hand,
                       near |-> IF call.op = "chain" THEN Near ELSE {}, corrected |-> Corrected]
                 ELSE Failing
    /\ told' = told \union Corrected
    /\ call' = NoCall
    /\ UNCHANGED <<duty, enriched, cache, margin>>

-----------------------------------------------------------------------------
Older(f, e) == Aged(f, [what |-> e.what, at |-> e.at + 1, read |-> e.read + 1, near |-> e.near])

\* A request has waited for one more tick; while the broker is asked, the
\* chain in hand grows older.
Waited ==
    LET asking == IF call.fetch = "spec" THEN 1 ELSE 0
    IN  [op |-> call.op, fetch |-> call.fetch, since |-> call.since + 1 - asking, tries |-> call.tries,
         spent |-> call.spent + 1, hand |-> call.hand + asking,
         reply |-> IF call.reply = NoReply THEN NoReply ELSE [call.reply EXCEPT !.age = @ + 1]]

\* Time passes: nobody waits, or a request does, at most until its attempt
\* has timed out.
Tick ==
    /\ call.op # "none" => call.fetch # "none" /\ call.spent < AttemptTicks
    /\ cache' = [f \in Feed |-> Older(f, cache[f])]
    /\ call' = IF call.op = "none" THEN call ELSE Waited
    /\ answer' = NoAnswer
    /\ UNCHANGED <<duty, enriched, margin, told>>

\* What the network and the thread do with an operation that has begun.
Proceed ==
    \/ \E what \in Content : Reply(what)
    \/ Retry
    \/ GiveUp
    \/ Receive
    \/ AskBroker
    \/ \E c \in Contracts : SpecArrives(c)
    \/ \E c \in Contracts : SpecFails(c)
    \/ NameOthers
    \/ Return

Next ==
    \/ \E op \in Operation : Refuse(op)
    \/ \E op \in Operation : Begin(op)
    \/ Proceed
    \/ Tick

\* Every request has a timeout, so what has begun goes on.
Spec == Init /\ [][Next]_vars /\ WF_vars(Proceed)
=============================================================================
