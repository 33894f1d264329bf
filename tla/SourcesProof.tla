---------------------------- MODULE SourcesProof ---------------------------
(***************************************************************************)
(* Proofs about the feeds of a context and the two shared files, for any   *)
(* contexts, contracts, symbols, days, times to live, attempts, timeouts,  *)
(* requests and settings; and what is proved of each carried over to the   *)
(* specification they are checked in.                                      *)
(***************************************************************************)
EXTENDS Sources, FiniteSetTheorems, TLAPS

-----------------------------------------------------------------------------
(* The feeds.                                                              *)

\* Contracts the broker may be asked about for one chain.
Nears == {S \in SUBSET Contracts : Cardinality(S) <= EnrichLimit}
Answerable == Operation \union {"none", "naming"}

EntryType == [what : Content \union {"none"}, at : Nat, read : Nat, near : Nears]
ReplyType == [what : Content \union {"none"}, age : Nat, near : Nears]
CallType == [op : Answerable, fetch : Feed \union {"none", "spec"}, since : Nat, tries : 1..Retries,
             spent : 0..AttemptTicks, hand : Nat, reply : ReplyType]
AnswerType == [op : Answerable, ok : BOOLEAN, age : Nat, near : SUBSET Contracts, corrected : SUBSET Contracts]

FeedsType ==
    /\ enriched \in BOOLEAN
    /\ duty \subseteq Operation
    /\ cache \in [Feed -> EntryType]
    /\ call \in CallType
    /\ margin \in [Contracts -> {"unknown", "known", "failed"}]
    /\ told \subseteq Contracts
    /\ answer \in AnswerType

\* An entry that is still trusted is no older than its stamp, or, stamped
\* after its request, no older than that and an attempt.
Slack(f) == IF f \in StampAfter THEN AttemptTicks ELSE 0
FreshCache == \A f \in Feed : cache[f].at < TTL[f] => cache[f].read <= cache[f].at + Slack(f)

\* A reply is as old as the wait since it was sent; between requests nothing
\* is counted, and only a chain that is enriched asks the broker.
Waiting ==
    /\ call.reply.age <= call.spent /\ call.reply.age <= call.since
    /\ call.fetch \notin Feed => call.reply = NoReply
    /\ call.fetch = "none" => call.tries = 1 /\ call.spent = 0
    /\ call.fetch = "spec" => call.op = "chain" /\ enriched

\* Time the broker has taken of the chain in hand: every contract it was
\* asked about at most all attempts, and the attempts of this one.
PerContract == Retries * AttemptTicks
Asked ==
    IF call.op = "chain" /\ enriched
    THEN (EnrichLimit - Cardinality(Unasked)) * PerContract + (call.tries - 1) * AttemptTicks + call.spent
    ELSE 0
InHand == call.op # "none" /\ call.fetch \notin Feed => call.hand <= Trusted(call.op) + Asked

FreshInv == FeedsType /\ FreshCache /\ Waiting /\ InHand /\ AnswersAreFresh

\* What was served at the broker's size is known, and is so for good.
ToldIsKnown == (\A c \in told : margin[c] = "known") /\ (told # {} => enriched)
CorrectedInv == FeedsType /\ ToldIsKnown /\ CorrectedStaysCorrected

-----------------------------------------------------------------------------
(* Facts about the operators.                                              *)

LEMMA EmptyIsNear == {} \in Nears
BY FS_EmptySet, FeedsAssumption DEF Nears

LEMMA NearSetsAreNear == NearSets \subseteq Nears
<1> SUFFICES ASSUME NEW S \in NearSets PROVE S \in Nears
  OBVIOUS
<1>1. Cardinality(Contracts) \in Nat /\ EnrichLimit \in Nat
  BY FS_CardinalityType, FeedsAssumption
<1> QED  BY <1>1 DEF NearSets, Nears

LEMMA NoReplyType == NoReply \in ReplyType /\ NoReply.age = 0
BY EmptyIsNear DEF NoReply, ReplyType

LEMMA NoAnswerType == NoAnswer \in AnswerType /\ NoAnswer.ok = FALSE
BY DEF NoAnswer, AnswerType, Answerable

\* Ageing changes the times of an entry only, and only once it is stale.
LEMMA AgedEntry ==
    ASSUME NEW f \in Feed, NEW e \in EntryType
    PROVE  /\ Aged(f, e) \in EntryType
           /\ Aged(f, e).near = e.near
           /\ Aged(f, e).what = e.what
           /\ Aged(f, e).at < TTL[f] => Aged(f, e) = e
<1>1. TTL[f] \in Nat /\ AttemptTicks \in Nat
  BY FeedsAssumption
<1>2. e = [what |-> e.what, at |-> e.at, read |-> e.read, near |-> e.near]
      /\ e.what \in Content \union {"none"} /\ e.near \in Nears /\ e.at \in Nat
  BY DEF EntryType
<1>3. CASE e.at < TTL[f]
  BY <1>3 DEF Aged
<1>4. CASE ~(e.at < TTL[f])
  <2>1. Aged(f, e) = [what |-> e.what, at |-> TTL[f], read |-> TTL[f] + AttemptTicks, near |-> e.near]
    BY <1>2, <1>4 DEF Aged
  <2> QED  BY <1>1, <1>2, <2>1 DEF EntryType
<1> QED  BY <1>3, <1>4

LEMMA OlderEntry ==
    ASSUME NEW f \in Feed, NEW e \in EntryType
    PROVE  /\ Older(f, e) \in EntryType
           /\ Older(f, e).near = e.near
           /\ Older(f, e).what = e.what
           /\ Older(f, e).at < TTL[f] => Older(f, e).at = e.at + 1 /\ Older(f, e).read = e.read + 1
<1> DEFINE g == [what |-> e.what, at |-> e.at + 1, read |-> e.read + 1, near |-> e.near]
<1>1. g \in EntryType /\ g.near = e.near /\ g.what = e.what /\ g.at = e.at + 1 /\ g.read = e.read + 1
  BY DEF EntryType
<1>2. Older(f, e) = Aged(f, g)
  BY DEF Older
<1> HIDE DEF g
<1> QED  BY <1>1, <1>2, AgedEntry

\* What an operation reads is a feed, trusted for at least one attempt.
LEMMA TrustedTime ==
    ASSUME NEW op \in Answerable \ {"none"}
    PROVE  /\ Source(op) \in Feed
           /\ Trusted(op) \in Nat
           /\ AttemptTicks <= Trusted(op)
           /\ TTL[Source(op)] - 1 + Slack(Source(op)) <= Trusted(op)
<1>1. Source(op) \in Feed
  BY DEF Source, Feed, Answerable, Operation
<1>2. TTL[Source(op)] \in Nat \ {0} /\ AttemptTicks \in Nat
  BY <1>1, FeedsAssumption
<1> QED  BY <1>1, <1>2 DEF Trusted, Slack

\* An operation that needs no request finds its feed young.
LEMMA NeedsAFeed ==
    ASSUME NEW op \in Answerable \ {"none"}
    PROVE  /\ Needs(op) \in Feed \union {"none"}
           /\ Needs(op) = "none" => cache[Source(op)].at < TTL[Source(op)]
BY DEF Needs, Source, Feed, Answerable, Operation, ChainIsFresh, DirectoryIsFresh, HistoryIsCached,
       PremiumIsCached, BookIsCached, Young

LEMMA UnaskedCount ==
    ASSUME FeedsType
    PROVE  /\ IsFiniteSet(Unasked) /\ Unasked \subseteq Contracts
           /\ Cardinality(Unasked) \in 0..EnrichLimit
<1>1. Near \in Nears
  BY DEF FeedsType, Near, EntryType, Feed
<1>2. IsFiniteSet(Near)
  BY <1>1, FS_Subset, FeedsAssumption DEF Nears
<1>3. Unasked \subseteq Near
  BY DEF Unasked
<1>4. IsFiniteSet(Unasked) /\ Cardinality(Unasked) <= Cardinality(Near)
  BY <1>2, <1>3, FS_Subset
<1>5. Cardinality(Unasked) \in Nat /\ Cardinality(Near) \in Nat
  BY <1>2, <1>4, FS_CardinalityType
<1> QED  BY <1>1, <1>3, <1>4, <1>5, FeedsAssumption DEF Nears

-----------------------------------------------------------------------------
(* Types.                                                                  *)

LEMMA RequestType ==
    ASSUME NEW op \in Answerable, NEW fetch \in Feed \union {"none", "spec"}, NEW hand \in Nat
    PROVE  LET r == Request(op, fetch, hand)
           IN  /\ r \in CallType
               /\ r.op = op /\ r.fetch = fetch /\ r.hand = hand
               /\ r.since = 0 /\ r.tries = 1 /\ r.spent = 0 /\ r.reply = NoReply
<1>1. 1 \in 1..Retries /\ 0 \in 0..AttemptTicks
  BY FeedsAssumption
<1> QED  BY <1>1, NoReplyType DEF Request, CallType
\* No operation in progress.
LEMMA NoCallType ==
    /\ NoCall \in CallType
    /\ NoCall.op = "none" /\ NoCall.fetch = "none" /\ NoCall.hand = 0
    /\ NoCall.since = 0 /\ NoCall.tries = 1 /\ NoCall.spent = 0 /\ NoCall.reply = NoReply
BY RequestType DEF NoCall, Answerable


\* Where an operation starts: with nothing in hand, or with what is kept.
LEMMA StartingType ==
    ASSUME FeedsType, NEW op \in Answerable \ {"none"}
    PROVE  LET r == Starting(op, Needs(op))
           IN  /\ r \in CallType
               /\ r.op = op /\ r.fetch = Needs(op)
               /\ r.hand = IF Needs(op) = "none" THEN cache[Source(op)].read ELSE 0
               /\ r.since = 0 /\ r.tries = 1 /\ r.spent = 0 /\ r.reply = NoReply
<1>1. Source(op) \in Feed /\ Needs(op) \in Feed \union {"none"}
  BY TrustedTime, NeedsAFeed
<1>2. cache[Source(op)].read \in Nat
  BY <1>1 DEF FeedsType, EntryType
<1> QED  BY <1>1, <1>2, RequestType DEF Starting

\* Another attempt of the same request.
LEMMA AgainType ==
    ASSUME FeedsType, call.tries < Retries
    PROVE  /\ Again \in CallType
           /\ Again.op = call.op /\ Again.fetch = call.fetch /\ Again.since = call.since
           /\ Again.tries = call.tries + 1 /\ Again.spent = 0 /\ Again.hand = call.hand
           /\ Again.reply = NoReply
<1>1. call \in CallType
  BY DEF FeedsType
<1>2. call.tries + 1 \in 1..Retries /\ 0 \in 0..AttemptTicks
  BY <1>1, FeedsAssumption DEF CallType
<1>3. Again = [op |-> call.op, fetch |-> call.fetch, since |-> call.since, tries |-> call.tries + 1,
               spent |-> 0, hand |-> call.hand, reply |-> NoReply]
  <2> DEFINE a == [call EXCEPT !.tries = @ + 1]
             b == [a EXCEPT !.spent = 0]
  <2>1. a = [op |-> call.op, fetch |-> call.fetch, since |-> call.since, tries |-> call.tries + 1,
             spent |-> call.spent, hand |-> call.hand, reply |-> call.reply]
    BY <1>1 DEF CallType
  <2>2. Again = [b EXCEPT !.reply = NoReply]
    BY DEF Again
  <2> HIDE DEF a
  <2>3. b = [op |-> call.op, fetch |-> call.fetch, since |-> call.since, tries |-> call.tries + 1,
             spent |-> 0, hand |-> call.hand, reply |-> call.reply]
    BY <2>1
  <2> HIDE DEF b
  <2> QED  BY <2>2, <2>3
<1> QED  BY <1>1, <1>2, <1>3, NoReplyType DEF CallType

\* A tick of waiting.
LEMMA WaitedType ==
    ASSUME FeedsType, call.spent < AttemptTicks
    PROVE  /\ Waited \in CallType
           /\ Waited.op = call.op /\ Waited.fetch = call.fetch /\ Waited.tries = call.tries
           /\ Waited.since = (IF call.fetch = "spec" THEN call.since ELSE call.since + 1)
           /\ Waited.spent = call.spent + 1
           /\ Waited.hand = (IF call.fetch = "spec" THEN call.hand + 1 ELSE call.hand)
           /\ call.reply = NoReply => Waited.reply = NoReply
           /\ Waited.reply.age <= call.reply.age + 1
<1>1. call \in CallType
  BY DEF FeedsType
<1>2. call.reply \in ReplyType /\ call.spent + 1 \in 0..AttemptTicks
  BY <1>1, FeedsAssumption DEF CallType
<1>3. /\ Waited.reply \in ReplyType
      /\ call.reply = NoReply => Waited.reply = NoReply
      /\ Waited.reply.age <= call.reply.age + 1
  BY <1>2, NoReplyType DEF Waited, ReplyType, NoReply
<1>4. /\ Waited.op = call.op /\ Waited.fetch = call.fetch /\ Waited.tries = call.tries
      /\ Waited.since = (IF call.fetch = "spec" THEN call.since ELSE call.since + 1)
      /\ Waited.spent = call.spent + 1
      /\ Waited.hand = (IF call.fetch = "spec" THEN call.hand + 1 ELSE call.hand)
  BY <1>1 DEF Waited, CallType
<1>5. Waited = [op |-> Waited.op, fetch |-> Waited.fetch, since |-> Waited.since, tries |-> Waited.tries,
                spent |-> Waited.spent, hand |-> Waited.hand, reply |-> Waited.reply]
  BY DEF Waited
<1>6. Waited.since \in Nat /\ Waited.hand \in Nat
  BY <1>1, <1>4 DEF CallType
<1> QED  BY <1>1, <1>2, <1>3, <1>4, <1>5, <1>6 DEF CallType

\* What is kept of a reply.
LEMMA EntryIsTyped ==
    ASSUME FeedsType, NEW f \in Feed, NEW at \in Nat, Kept(f, call.reply.what) # "error"
    PROVE  LET e == Entry(f, Kept(f, call.reply.what), at)
           IN  e \in EntryType /\ (e.at < TTL[f] => e.at = at /\ e.read = call.reply.age)
<1> DEFINE g == [what |-> Kept(f, call.reply.what), at |-> at, read |-> call.reply.age, near |-> call.reply.near]
<1>1. call.reply \in ReplyType
  BY DEF FeedsType, CallType
<1>2. Kept(f, call.reply.what) \in Content \union {"none"}
  BY <1>1 DEF Kept, ReplyType, Content
<1>3. g \in EntryType /\ g.at = at /\ g.read = call.reply.age
  BY <1>1, <1>2 DEF EntryType, ReplyType
<1>4. Entry(f, Kept(f, call.reply.what), at) = Aged(f, g)
  BY DEF Entry
<1> HIDE DEF g
<1> QED  BY <1>3, <1>4, AgedEntry

\* The three ways a response can end: an error, the history that follows its
\* directory, or data in hand.
LEMMA ReceiveEffect ==
    ASSUME FeedsType, Receive
    PROVE  /\ call' \in CallType
           /\ cache' \in [Feed -> EntryType]
           /\ answer' \in AnswerType
           /\ answer'.ok => answer' = answer
           /\ \/ call' = NoCall
              \/ /\ call'.fetch = "history" /\ call'.op = "history"
                 /\ call'.since = call.since /\ call'.reply = NoReply
              \/ call' = Request(call.op, "none", call.reply.age)
           /\ \A f \in Feed : \/ cache'[f] = cache[f]
                            \/ /\ f = call.fetch
                               /\ cache'[f].at < TTL[f] =>
                                    cache'[f].at = Stamp(f, call.since) /\ cache'[f].read = call.reply.age
<1> DEFINE f == call.fetch
           kept == Kept(f, call.reply.what)
<1>1. /\ f \in Feed /\ call \in CallType /\ call.reply \in ReplyType
      /\ call.since \in Nat /\ call.reply.age \in Nat /\ call.op \in Answerable
  BY DEF Receive, FeedsType, CallType, ReplyType
<1>2. Stamp(f, call.since) \in Nat
  BY <1>1 DEF Stamp
<1>3. /\ cache' \in [Feed -> EntryType]
      /\ \A d \in Feed : \/ cache'[d] = cache[d]
                       \/ /\ d = call.fetch
                          /\ cache'[d].at < TTL[d] =>
                               cache'[d].at = Stamp(d, call.since) /\ cache'[d].read = call.reply.age
  <2>1. CASE kept = "error"
    BY <2>1 DEF Receive, FeedsType
  <2>2. CASE kept # "error"
    <3> DEFINE e == Entry(f, kept, Stamp(f, call.since))
    <3>1. e \in EntryType /\ (e.at < TTL[f] => e.at = Stamp(f, call.since) /\ e.read = call.reply.age)
      BY <1>1, <1>2, <2>2, EntryIsTyped
    <3>2. cache' = [cache EXCEPT ![f] = e]
      BY <2>2 DEF Receive
    <3> HIDE DEF e
    <3> QED  BY <1>1, <3>1, <3>2 DEF FeedsType
  <2> QED  BY <2>1, <2>2
<1>4. CASE kept = "error" \/ (f = "directory" /\ call.op = "history" /\ kept # "listed")
  <2>1. call' = NoCall /\ answer' = [NoAnswer EXCEPT !.op = call.op]
    BY <1>4 DEF Receive, Failing
  <2>2. answer' \in AnswerType /\ ~answer'.ok
    BY <1>1, <2>1, NoAnswerType DEF AnswerType, NoAnswer
  <2> QED  BY <1>3, <2>1, <2>2, NoCallType
<1>5. CASE kept = "listed" /\ f = "directory" /\ call.op = "history"
  <2> DEFINE r == Request("history", "history", 0)
  <2>1. r \in CallType /\ r.op = "history" /\ r.fetch = "history" /\ r.reply = NoReply
    BY RequestType DEF Answerable, Operation, Feed
  <2>2. call' = [r EXCEPT !.since = call.since] /\ answer' = answer
    BY <1>5 DEF Receive
  <2> HIDE DEF r
  <2>3. /\ call' \in CallType /\ call'.fetch = "history" /\ call'.op = "history"
        /\ call'.since = call.since /\ call'.reply = NoReply
    BY <1>1, <2>1, <2>2 DEF CallType
  <2> QED  BY <1>3, <2>2, <2>3 DEF FeedsType
<1>6. CASE kept # "error" /\ ~(f = "directory" /\ call.op = "history")
  <2>1. call' = Request(call.op, "none", call.reply.age) /\ answer' = answer
    BY <1>6 DEF Receive
  <2> QED  BY <1>1, <1>3, <2>1, RequestType DEF FeedsType
<1> QED  BY <1>4, <1>5, <1>6

LEMMA InitTyped == Init => FeedsType
<1> SUFFICES ASSUME Init PROVE FeedsType
  OBVIOUS
<1>1. enriched \in BOOLEAN
  BY DEF Init, Enriches, AccountIsBuilt
<1>2. duty \subseteq Operation
  BY FeedsAssumption DEF Init
<1>3. cache \in [Feed -> EntryType]
  BY EmptyIsNear DEF Init, NothingKept, EntryType
<1> QED  BY <1>1, <1>2, <1>3, NoCallType, NoAnswerType DEF Init, FeedsType

LEMMA NextTyped == FeedsType /\ [Next]_vars => FeedsType'
<1> SUFFICES ASSUME FeedsType, [Next]_vars PROVE FeedsType'
  OBVIOUS
<1> USE DEF FeedsType
<1>0. call \in CallType /\ call.op \in Answerable /\ call.hand \in Nat
  BY DEF CallType
<1>1. ASSUME NEW op \in Operation, Refuse(op) PROVE FeedsType'
  <2>1. [NoAnswer EXCEPT !.op = op] \in AnswerType
    BY NoAnswerType DEF AnswerType, Answerable
  <2> QED  BY <1>1, <2>1 DEF Refuse
<1>2. ASSUME NEW op \in Operation, Begin(op) PROVE FeedsType'
  <2>1. op \in Answerable \ {"none"}
    BY DEF Answerable, Operation
  <2> QED  BY <1>2, <2>1, StartingType, NoAnswerType DEF Begin
<1>3. ASSUME NEW what \in Content, Reply(what) PROVE FeedsType'
  <2>1. PICK near \in (IF call.fetch = "chain" /\ what = "listed" THEN NearSets ELSE {{}}) :
           call' = [call EXCEPT !.reply = [what |-> what, age |-> 0, near |-> near]]
    BY <1>3 DEF Reply
  <2>2. near \in Nears
    BY NearSetsAreNear, EmptyIsNear
  <2>3. [what |-> what, age |-> 0, near |-> near] \in ReplyType
    BY <2>2 DEF ReplyType
  <2>4. call' \in CallType
    BY <2>1, <2>3 DEF CallType
  <2> QED  BY <1>3, <2>4 DEF Reply
<1>4. CASE Retry
  BY <1>4, AgainType DEF Retry
<1>5. CASE GiveUp
  <2>1. [NoAnswer EXCEPT !.op = call.op] \in AnswerType
    BY <1>0, NoAnswerType DEF AnswerType
  <2> QED  BY <1>5, <2>1, NoCallType DEF GiveUp, Failing
<1>6. CASE Receive
  BY <1>6, ReceiveEffect DEF Receive
<1>7. CASE AskBroker
  <2>1. call' \in CallType
    BY <1>7 DEF AskBroker, CallType
  <2> QED  BY <1>7, <2>1 DEF AskBroker
<1>8. ASSUME NEW c \in Contracts, SpecArrives(c) PROVE FeedsType'
  <2>1. "chain" \in Answerable
    BY DEF Answerable, Operation
  <2> QED  BY <1>0, <1>8, <2>1, RequestType DEF SpecArrives, Remembered
<1>9. ASSUME NEW c \in Contracts, SpecFails(c) PROVE FeedsType'
  <2>1. "chain" \in Answerable
    BY DEF Answerable, Operation
  <2> QED  BY <1>0, <1>9, <2>1, RequestType DEF SpecFails, Remembered
<1>10. CASE NameOthers
  <2>1. "naming" \in Answerable \ {"none"}
    BY DEF Answerable
  <2> QED  BY <1>10, <2>1, StartingType DEF NameOthers
<1>11. CASE Return
  <2>1. Near \in SUBSET Contracts
    BY DEF Near, EntryType, Nears, Feed
  <2>2. Corrected \in SUBSET Contracts
    BY <2>1 DEF Corrected
  <2>3. Failing \in AnswerType
    BY <1>0, NoAnswerType DEF AnswerType, Failing
  <2>4. answer' \in AnswerType
    BY <1>0, <1>11, <2>1, <2>2, <2>3 DEF Return, AnswerType
  <2> QED  BY <1>11, <2>2, <2>4, NoCallType DEF Return
<1>12. CASE Tick
  <2>1. cache' \in [Feed -> EntryType]
    BY <1>12, OlderEntry DEF Tick
  <2>2. call' \in CallType
    BY <1>12, WaitedType DEF Tick
  <2> QED  BY <1>12, <2>1, <2>2, NoAnswerType DEF Tick
<1>13. CASE UNCHANGED vars
  BY <1>13 DEF vars, CallType, EntryType, AnswerType
<1> QED  BY <1>1, <1>2, <1>3, <1>4, <1>5, <1>6, <1>7, <1>8, <1>9, <1>10, <1>11, <1>12, <1>13 DEF Next, Proceed

-----------------------------------------------------------------------------
(* Sizes served at the broker's are served so for good.                    *)

LEMMA CorrectedStep == CorrectedInv /\ [Next]_vars => CorrectedInv'
<1> SUFFICES ASSUME CorrectedInv, [Next]_vars PROVE CorrectedInv'
  OBVIOUS
<1>0. FeedsType /\ FeedsType'
  BY NextTyped DEF CorrectedInv
<1> USE DEF CorrectedInv, ToldIsKnown
<1>a. ASSUME UNCHANGED <<enriched, margin, told>>, answer' = answer \/ ~answer'.ok
      PROVE  CorrectedInv'
  BY <1>0, <1>a DEF CorrectedStaysCorrected
<1>b. ASSUME NEW c \in Unasked, NEW to, margin' = [margin EXCEPT ![c] = to],
             UNCHANGED <<enriched, told, answer>>
      PROVE  CorrectedInv'
  <2>1. margin[c] = "unknown"
    BY DEF Unasked
  <2>2. \A d \in told : margin'[d] = "known"
    BY <1>0, <1>b, <2>1 DEF FeedsType
  <2> QED  BY <1>0, <1>b, <2>2 DEF CorrectedStaysCorrected
<1>1. ASSUME NEW op \in Operation, Refuse(op) PROVE CorrectedInv'
  <2>1. ~answer'.ok
    BY <1>1 DEF Refuse, NoAnswer
  <2> QED  BY <1>1, <2>1, <1>a DEF Refuse
<1>2. ASSUME NEW op \in Operation, Begin(op) PROVE CorrectedInv'
  BY <1>2, <1>a, NoAnswerType DEF Begin
<1>3. ASSUME NEW what \in Content, Reply(what) PROVE CorrectedInv'
  BY <1>3, <1>a DEF Reply
<1>4. CASE Retry
  BY <1>4, <1>a DEF Retry
<1>5. CASE GiveUp
  <2>1. ~answer'.ok
    BY <1>5 DEF GiveUp, Failing, NoAnswer
  <2> QED  BY <1>5, <2>1, <1>a DEF GiveUp
<1>6. CASE Receive
  <2>1. answer' = answer \/ ~answer'.ok
    BY <1>0, <1>6, ReceiveEffect DEF FeedsType, AnswerType
  <2> QED  BY <1>6, <2>1, <1>a DEF Receive
<1>7. CASE AskBroker
  BY <1>7, <1>a DEF AskBroker
<1>8. ASSUME NEW c \in Contracts, SpecArrives(c) PROVE CorrectedInv'
  BY <1>8, <1>b DEF SpecArrives, Remembered
<1>9. ASSUME NEW c \in Contracts, SpecFails(c) PROVE CorrectedInv'
  BY <1>9, <1>b DEF SpecFails, Remembered
<1>10. CASE NameOthers
  BY <1>10, <1>a DEF NameOthers
<1>11. CASE Return
  <2>1. \A c \in Corrected : margin[c] = "known" /\ enriched
    BY DEF Corrected
  <2>2. /\ \A c \in told' : margin'[c] = "known"
        /\ told' # {} => enriched'
    BY <1>11, <2>1 DEF Return
  <2>3. ASSUME answer'.ok, answer'.op = "chain" PROVE told' \intersect answer'.near \subseteq answer'.corrected
    <3>1. Found(call.op)
      BY <1>11, <2>3 DEF Return, Failing, NoAnswer
    <3>2. answer'.op = call.op /\ answer'.near \subseteq Near /\ answer'.corrected = Corrected
      BY <1>11, <3>1 DEF Return
    <3>3. told' \intersect Near \subseteq Corrected
      BY <1>11, <2>2, <2>3, <3>2 DEF Return, Corrected
    <3> QED  BY <3>2, <3>3
  <2> QED  BY <1>0, <2>2, <2>3 DEF CorrectedStaysCorrected
<1>12. CASE Tick
  BY <1>12, <1>a, NoAnswerType DEF Tick
<1>13. CASE UNCHANGED vars
  BY <1>13, <1>a DEF vars
<1> QED  BY <1>1, <1>2, <1>3, <1>4, <1>5, <1>6, <1>7, <1>8, <1>9, <1>10, <1>11, <1>12, <1>13 DEF Next, Proceed

LEMMA CorrectedInit == Init => CorrectedInv
<1> SUFFICES ASSUME Init PROVE CorrectedInv
  OBVIOUS
<1>1. told = {} /\ ~answer.ok
  BY NoAnswerType DEF Init
<1> QED  BY <1>1, InitTyped DEF CorrectedInv, ToldIsKnown, CorrectedStaysCorrected

\* However the feeds, the broker and the network behave, a contract that was
\* served at the broker's size is served so in every later chain in which it
\* is near: what is known of a contract is never forgotten and never becomes
\* a failure (enriched_option_chain.py:146-176).
THEOREM SizesStayCorrected == Spec => []CorrectedStaysCorrected
<1>1. CorrectedInv => CorrectedStaysCorrected
  BY DEF CorrectedInv
<1> QED  BY CorrectedInit, CorrectedStep, <1>1, PTL DEF Spec

-----------------------------------------------------------------------------
(* No answer is older than the trust in its cache.                         *)

\* What the broker has taken is never negative, and between two contracts is
\* no more than what it may take of the whole chain.
LEMMA AskedBounds ==
    ASSUME FeedsType
    PROVE  /\ Asked \in Nat
           /\ call.tries = 1 /\ call.spent = 0 => Asked <= Asking(call.op)
<1> DEFINE n == Cardinality(Unasked)
<1>1. /\ n \in 0..EnrichLimit /\ EnrichLimit \in Nat /\ Retries \in Nat /\ AttemptTicks \in Nat
      /\ call.tries \in Nat \ {0} /\ call.spent \in Nat
  BY UnaskedCount, FeedsAssumption DEF FeedsType, CallType
<1>2. PerContract \in Nat /\ EnrichLimit * Retries * AttemptTicks = EnrichLimit * PerContract
  BY <1>1 DEF PerContract
<1>3. (call.tries - 1) * AttemptTicks \in Nat
  <2>1. \A a, b \in Nat : a * b \in Nat
    OBVIOUS
  <2>2. call.tries - 1 \in Nat
    BY <1>1
  <2> QED  BY <1>1, <2>1, <2>2
<1>4. (EnrichLimit - n) * PerContract \in Nat /\ (EnrichLimit - n) * PerContract <= EnrichLimit * PerContract
  <2>1. \A a, b, p \in Nat : a <= b => a * p \in Nat /\ a * p <= b * p
    OBVIOUS
  <2>2. EnrichLimit - n \in Nat /\ EnrichLimit - n <= EnrichLimit
    BY <1>1
  <2> HIDE DEF n
  <2> QED  BY <1>1, <1>2, <2>1, <2>2
<1> HIDE DEF n
<1>5. call.tries = 1 => (call.tries - 1) * AttemptTicks = 0
  BY <1>1
<1> DEFINE rest == (EnrichLimit - n) * PerContract
           again == (call.tries - 1) * AttemptTicks
           whole == EnrichLimit * PerContract
<1>6. Asked = IF call.op = "chain" /\ enriched THEN rest + again + call.spent ELSE 0
  BY DEF Asked, n
<1>7. Asking(call.op) = IF call.op = "chain" /\ enriched THEN whole ELSE 0
  BY <1>2 DEF Asking
<1>8. rest \in Nat /\ again \in Nat /\ rest <= whole /\ whole \in Nat /\ (call.tries = 1 => again = 0)
  BY <1>1, <1>2, <1>3, <1>4, <1>5
<1> HIDE DEF rest, again, whole
<1> QED  BY <1>1, <1>6, <1>7, <1>8

AskedIsNat == Asked \in Nat

LEMMA AskedStaysNat == FeedsType' => AskedIsNat'
<1>1. FeedsType => AskedIsNat
  BY AskedBounds DEF AskedIsNat
<1> QED  BY <1>1, PTL

\* An operation that finds its feed young has data in hand that is trusted.
LEMMA StartingInHand ==
    ASSUME FeedsType, FreshCache, NEW op \in Answerable \ {"none"}, Needs(op) = "none"
    PROVE  Starting(op, Needs(op)).hand <= Trusted(op)
<1>1. Source(op) \in Feed /\ TTL[Source(op)] - 1 + Slack(Source(op)) <= Trusted(op) /\ Trusted(op) \in Nat
  BY TrustedTime
<1>2. cache[Source(op)].at < TTL[Source(op)]
  BY NeedsAFeed
<1>3. cache[Source(op)].read <= cache[Source(op)].at + Slack(Source(op))
  BY <1>1, <1>2 DEF FreshCache
<1>4. /\ cache[Source(op)].at \in Nat /\ cache[Source(op)].read \in Nat
      /\ TTL[Source(op)] \in Nat /\ Slack(Source(op)) \in Nat
  BY <1>1, FeedsAssumption DEF FeedsType, EntryType, Slack
<1>5. Starting(op, Needs(op)).hand = cache[Source(op)].read
  BY StartingType
<1> QED  BY <1>1, <1>2, <1>3, <1>4, <1>5

\* Another attempt counts as the whole of the one that failed.
LEMMA AskedAgain ==
    ASSUME FeedsType, FeedsType', call' = Again, call.tries < Retries, UNCHANGED <<enriched, cache, margin>>
    PROVE  Asked <= Asked'
<1> DEFINE n == Cardinality(Unasked)
<1>1. /\ n \in 0..EnrichLimit /\ EnrichLimit \in Nat /\ Retries \in Nat /\ AttemptTicks \in Nat
      /\ call.tries \in Nat \ {0} /\ call.spent \in 0..AttemptTicks
  BY UnaskedCount, FeedsAssumption DEF FeedsType, CallType
<1>2. call'.op = call.op /\ call'.tries = call.tries + 1 /\ call'.spent = 0
  BY AgainType
<1>3. Cardinality(Unasked)' = n
  BY DEF Unasked, Near
<1> DEFINE w == (EnrichLimit - n) * PerContract
<1>4. w \in Int /\ w' = w
  BY <1>1, <1>3 DEF PerContract
<1>5. Asked = IF call.op = "chain" /\ enriched THEN w + (call.tries - 1) * AttemptTicks + call.spent ELSE 0
  BY DEF Asked
<1>6. Asked' = IF call'.op = "chain" /\ enriched' THEN w' + (call'.tries - 1) * AttemptTicks + call'.spent ELSE 0
  BY DEF Asked
<1>7. (call.tries + 1 - 1) * AttemptTicks = (call.tries - 1) * AttemptTicks + AttemptTicks
  <2>1. \A a, b \in Int : (a + 1 - 1) * b = (a - 1) * b + b
    OBVIOUS
  <2> QED  BY <1>1, <2>1
<1>8. (call.tries - 1) * AttemptTicks \in Int
  BY <1>1
<1> HIDE DEF w
<1> QED  BY <1>1, <1>2, <1>4, <1>5, <1>6, <1>7, <1>8

\* With the answer about one contract, the broker may have taken all of its
\* attempts, and has one contract less to be asked about.
LEMMA AskedNext ==
    ASSUME FeedsType, FeedsType', call.op = "chain", enriched, NEW c \in Unasked, NEW to \in {"known", "failed"},
           margin' = [margin EXCEPT ![c] = to], call' = Request("chain", "none", call.hand),
           UNCHANGED <<enriched, cache>>
    PROVE  Asked <= Asked'
<1> DEFINE n == Cardinality(Unasked)
<1>1. /\ n \in 0..EnrichLimit /\ EnrichLimit \in Nat /\ Retries \in Nat /\ AttemptTicks \in Nat
      /\ call.tries \in 1..Retries /\ call.spent \in 0..AttemptTicks
  BY UnaskedCount, FeedsAssumption DEF FeedsType, CallType
<1>2. Unasked' = Unasked \ {c}
  <2>1. c \in Contracts /\ Near' = Near /\ Near \subseteq Contracts
    BY UnaskedCount DEF Near, FeedsType, EntryType, Nears, Feed
  <2>2. \A d \in Contracts : margin'[d] = IF d = c THEN to ELSE margin[d]
    BY <2>1 DEF FeedsType
  <2> QED  BY <2>1, <2>2 DEF Unasked
<1>3. Cardinality(Unasked)' = n - 1
  BY <1>2, UnaskedCount, FS_RemoveElement
<1>4. call'.op = "chain" /\ call'.tries = 1 /\ call'.spent = 0
  <2>1. "chain" \in Answerable /\ call.hand \in Nat
    BY DEF Answerable, Operation, FeedsType, CallType
  <2> QED  BY <2>1, RequestType
<1> DEFINE rest == (EnrichLimit - n) * PerContract
           again == (call.tries - 1) * AttemptTicks
<1>5. Asked = rest + again + call.spent
  BY DEF Asked
<1>6. Asked' = (EnrichLimit - (n - 1)) * PerContract + (1 - 1) * AttemptTicks + 0
  BY <1>3, <1>4 DEF Asked, PerContract
<1>7. Asked' = rest + PerContract
  <2>1. \A a, b, p \in Int : (a - (b - 1)) * p = (a - b) * p + p
    OBVIOUS
  <2>2. PerContract \in Int /\ (1 - 1) * AttemptTicks = 0
    BY <1>1 DEF PerContract
  <2>3. (EnrichLimit - (n - 1)) * PerContract = rest + PerContract
    BY <1>1, <2>1, <2>2
  <2>4. rest \in Int
    BY <1>1, <2>2
  <2> HIDE DEF rest, n
  <2> QED  BY <1>6, <2>2, <2>3, <2>4
<1>8. again + call.spent <= PerContract
  <2>1. \A r, t, a \in Nat : t \in 1..r => (t - 1) * a + a <= r * a
    OBVIOUS
  <2>2. again + AttemptTicks <= PerContract /\ again \in Int
    BY <1>1, <2>1 DEF PerContract
  <2>3. PerContract \in Int
    BY <1>1 DEF PerContract
  <2> HIDE DEF again
  <2> QED  BY <1>1, <2>2, <2>3
<1>9. rest \in Int /\ again \in Int /\ PerContract \in Int
  BY <1>1 DEF PerContract
<1> HIDE DEF rest, again
<1> QED  BY <1>1, <1>5, <1>7, <1>8, <1>9

\* A tick with the broker counts as one.
LEMMA AskedTick ==
    ASSUME FeedsType, FeedsType', call.op = "chain", enriched, call.spent < AttemptTicks, call' = Waited,
           cache' = [f \in Feed |-> Older(f, cache[f])], UNCHANGED <<enriched, margin>>
    PROVE  Asked' = Asked + 1
<1>1. "chain" \in Feed
  BY DEF Feed
<1>2. cache'["chain"].near = cache["chain"].near
  BY <1>1, OlderEntry DEF FeedsType
<1>3. Unasked' = Unasked
  BY <1>2 DEF Unasked, Near
<1>4. call'.op = "chain" /\ call'.tries = call.tries /\ call'.spent = call.spent + 1
  BY WaitedType
<1> DEFINE before == (EnrichLimit - Cardinality(Unasked)) * PerContract + (call.tries - 1) * AttemptTicks
<1>5. before \in Int /\ call.spent \in Int
  <2>1. /\ Cardinality(Unasked) \in Int /\ EnrichLimit \in Int /\ Retries \in Int /\ AttemptTicks \in Int
        /\ call.tries \in Int /\ call.spent \in Int
    BY UnaskedCount, FeedsAssumption DEF FeedsType, CallType
  <2> QED  BY <2>1 DEF PerContract
<1>6. Asked = before + call.spent
  BY DEF Asked
<1>7. Asked' = before + (call.spent + 1)
  BY <1>3, <1>4 DEF Asked, PerContract
<1> HIDE DEF before
<1> QED  BY <1>5, <1>6, <1>7

LEMMA FreshInit == Init => FreshInv
<1> SUFFICES ASSUME Init PROVE FreshInv
  OBVIOUS
<1>1. FreshCache
  BY FeedsAssumption DEF Init, NothingKept, FreshCache, Slack
<1>2. Waiting
  BY NoCallType, NoReplyType DEF Init, Waiting
<1>3. InHand /\ AnswersAreFresh
  BY NoCallType, NoAnswerType DEF Init, InHand, AnswersAreFresh
<1> QED  BY <1>1, <1>2, <1>3, InitTyped DEF FreshInv

\* A step that keeps the caches, the enrichment and what is answered.
LEMMA QuietStep ==
    ASSUME FreshInv, FeedsType', UNCHANGED <<enriched, cache>>, answer' = answer \/ ~answer'.ok,
           Waiting', InHand'
    PROVE  FreshInv'
<1>1. FreshCache'
  BY DEF FreshInv, FreshCache
<1>2. AnswersAreFresh'
  BY DEF FreshInv, AnswersAreFresh, Asking
<1> QED  BY <1>1, <1>2 DEF FreshInv

\* A request that has just begun, or what it starts with.
LEMMA StartStep ==
    ASSUME FreshInv, FeedsType', NEW op \in Answerable \ {"none"}, call' = Starting(op, Needs(op)),
           UNCHANGED <<enriched, cache>>, answer' = answer \/ ~answer'.ok
    PROVE  FreshInv'
<1>1. /\ call'.op = op /\ call'.fetch = Needs(op) /\ call'.tries = 1 /\ call'.spent = 0 /\ call'.since = 0
      /\ call'.reply = NoReply
  BY StartingType DEF FreshInv
<1>2. Needs(op) \in Feed \union {"none"} /\ "spec" \notin Feed \union {"none"} /\ "none" \notin Feed
  BY NeedsAFeed DEF Feed
<1>3. Waiting'
  BY <1>1, <1>2, NoReplyType DEF Waiting
<1>4. InHand'
  <2>1. Needs(op) = "none" => call'.hand <= Trusted(op)
    BY StartingInHand DEF FreshInv
  <2>2. Asked' \in Nat /\ Trusted(op) \in Nat /\ call'.hand \in Nat
    BY AskedStaysNat, TrustedTime DEF FeedsType, CallType, AskedIsNat
  <2>3. SUFFICES Needs(op) = "none" => call'.hand <= Trusted(op) + Asked'
    BY <1>1, <1>2 DEF InHand
  <2> QED  BY <2>1, <2>2
<1> QED  BY <1>3, <1>4, QuietStep

LEMMA ReceiveStep == ASSUME FreshInv, FeedsType', Receive PROVE FreshInv'
<1>0. FeedsType /\ call.fetch \in Feed /\ "none" \notin Feed /\ "spec" \notin Feed /\ AttemptTicks \in Nat
  BY FeedsAssumption DEF FreshInv, Receive, Feed
<1>1. /\ call.reply.age <= call.since /\ call.reply.age <= AttemptTicks
      /\ call.reply.age \in Nat /\ call.since \in Nat /\ call.op \in Answerable
  BY <1>0 DEF FreshInv, Waiting, FeedsType, CallType, ReplyType
<1>2. FreshCache'
  <2> SUFFICES ASSUME NEW f \in Feed, cache'[f].at < TTL[f]
               PROVE  cache'[f].read <= cache'[f].at + Slack(f)
    BY DEF FreshCache
  <2>1. CASE cache'[f] = cache[f]
    BY <2>1 DEF FreshInv, FreshCache
  <2>2. CASE f = call.fetch /\ cache'[f].at = Stamp(f, call.since) /\ cache'[f].read = call.reply.age
    BY <1>0, <1>1, <2>2 DEF Stamp, Slack
  <2> QED  BY <1>0, <2>1, <2>2, ReceiveEffect
<1>3. AnswersAreFresh'
  <2>1. enriched' = enriched
    BY DEF Receive
  <2> QED  BY <1>0, <2>1, ReceiveEffect DEF FreshInv, AnswersAreFresh, Asking
<1>4. CASE call' = NoCall
  <2>1. Waiting' /\ InHand'
    BY <1>0, <1>4, NoCallType, NoReplyType DEF Waiting, InHand
  <2> QED  BY <1>2, <1>3, <2>1 DEF FreshInv
<1>5. CASE call'.fetch = "history" /\ call'.since = call.since /\ call'.reply = NoReply
  <2>1. "history" \in Feed /\ call'.spent \in Nat
    BY DEF Feed, FeedsType, CallType
  <2>2. Waiting' /\ InHand'
    BY <1>1, <1>5, <2>1, NoReplyType DEF Waiting, InHand
  <2> QED  BY <1>2, <1>3, <2>2 DEF FreshInv
<1>6. CASE call' = Request(call.op, "none", call.reply.age)
  <2>1. /\ call'.op = call.op /\ call'.fetch = "none" /\ call'.hand = call.reply.age /\ call'.tries = 1
        /\ call'.spent = 0 /\ call'.since = 0 /\ call'.reply = NoReply
    <3> DEFINE r == Request(call.op, "none", call.reply.age)
    <3>1. /\ r.op = call.op /\ r.fetch = "none" /\ r.hand = call.reply.age /\ r.tries = 1
          /\ r.spent = 0 /\ r.since = 0 /\ r.reply = NoReply
      BY <1>1, RequestType
    <3> QED  BY <1>6, <3>1
  <2>2. Waiting'
    BY <1>0, <2>1, NoReplyType DEF Waiting
  <2>3. InHand'
    <3>1. Asked' \in Nat
      BY AskedStaysNat DEF AskedIsNat
    <3>2. call.op # "none" => AttemptTicks <= Trusted(call.op) /\ Trusted(call.op) \in Nat
      BY <1>1, TrustedTime
    <3> QED  BY <1>0, <1>1, <2>1, <3>1, <3>2 DEF InHand
  <2> QED  BY <1>2, <1>3, <2>2, <2>3 DEF FreshInv
<1> QED  BY <1>0, <1>4, <1>5, <1>6, ReceiveEffect

LEMMA RetryStep == ASSUME FreshInv, FeedsType', Retry PROVE FreshInv'
<1>0. FeedsType /\ call.tries < Retries /\ call' = Again /\ UNCHANGED <<enriched, cache, margin, answer>>
  BY DEF FreshInv, Retry
<1>1. /\ call'.op = call.op /\ call'.fetch = call.fetch /\ call'.since = call.since
      /\ call'.spent = 0 /\ call'.hand = call.hand /\ call'.reply = NoReply
  BY <1>0, AgainType
<1>2. Waiting'
  BY <1>0, <1>1, NoReplyType DEF FreshInv, Waiting, Retry, FeedsType, CallType
<1>3. InHand'
  <2>1. Asked <= Asked' /\ Asked' \in Nat /\ Asked \in Nat
    BY <1>0, AskedAgain, AskedBounds, AskedStaysNat DEF AskedIsNat
  <2>2. call.op # "none" => Trusted(call.op) \in Nat
    BY <1>0, TrustedTime DEF FeedsType, CallType
  <2>3. call.hand \in Nat
    BY <1>0 DEF FeedsType, CallType
  <2> QED  BY <1>1, <2>1, <2>2, <2>3 DEF FreshInv, InHand
<1> QED  BY <1>0, <1>2, <1>3, QuietStep

\* What the broker answers, or its last failure, about one contract.
LEMMA SpecStep ==
    ASSUME FreshInv, FeedsType', call.fetch = "spec", NEW c \in Unasked, NEW to \in {"known", "failed"},
           margin' = [margin EXCEPT ![c] = to], call' = Request("chain", "none", call.hand),
           UNCHANGED <<enriched, cache, answer>>
    PROVE  FreshInv'
<1>0. FeedsType /\ call.op = "chain" /\ enriched /\ call.hand \in Nat
  BY DEF FreshInv, Waiting, FeedsType, CallType
<1>1. /\ call'.op = "chain" /\ call'.fetch = "none" /\ call'.hand = call.hand /\ call'.tries = 1
      /\ call'.spent = 0 /\ call'.since = 0 /\ call'.reply = NoReply
  <2> DEFINE r == Request("chain", "none", call.hand)
  <2>1. "chain" \in Answerable
    BY DEF Answerable, Operation
  <2>2. /\ r.op = "chain" /\ r.fetch = "none" /\ r.hand = call.hand /\ r.tries = 1
        /\ r.spent = 0 /\ r.since = 0 /\ r.reply = NoReply
    BY <1>0, <2>1, RequestType
  <2> QED  BY <2>2
<1>2. Waiting'
  BY <1>1, NoReplyType DEF Waiting
<1>3. InHand'
  <2>1. Asked <= Asked' /\ Asked' \in Nat /\ Asked \in Nat
    BY <1>0, AskedNext, AskedBounds, AskedStaysNat DEF AskedIsNat
  <2>2. Trusted("chain") \in Nat
    BY TrustedTime DEF Answerable, Operation
  <2>3. call.hand <= Trusted("chain") + Asked
    BY <1>0 DEF FreshInv, InHand, Feed
  <2> QED  BY <1>0, <1>1, <2>1, <2>2, <2>3 DEF InHand
<1> QED  BY <1>2, <1>3, QuietStep

LEMMA TickStep == ASSUME FreshInv, FeedsType', Tick PROVE FreshInv'
<1>0. /\ FeedsType /\ ~answer'.ok /\ enriched' = enriched /\ margin' = margin
      /\ cache' = [f \in Feed |-> Older(f, cache[f])]
  BY NoAnswerType DEF FreshInv, Tick
<1>1. FreshCache'
  <2> SUFFICES ASSUME NEW f \in Feed, cache'[f].at < TTL[f]
               PROVE  cache'[f].read <= cache'[f].at + Slack(f)
    BY DEF FreshCache
  <2>1. cache[f] \in EntryType /\ cache'[f] = Older(f, cache[f])
    BY <1>0 DEF FeedsType
  <2>2. cache'[f].at = cache[f].at + 1 /\ cache'[f].read = cache[f].read + 1
    BY <2>1, OlderEntry
  <2>3. cache[f].at \in Nat /\ cache[f].read \in Nat /\ TTL[f] \in Nat /\ Slack(f) \in Nat
    BY <2>1, FeedsAssumption DEF EntryType, Slack
  <2>4. cache[f].read <= cache[f].at + Slack(f)
    BY <2>2, <2>3 DEF FreshInv, FreshCache
  <2> QED  BY <2>2, <2>3, <2>4
<1>2. AnswersAreFresh'
  BY <1>0 DEF AnswersAreFresh
<1>3. CASE call.op = "none"
  <2>1. call' = call
    BY <1>3 DEF Tick
  <2> QED  BY <1>0, <1>1, <1>2, <1>3, <2>1 DEF FreshInv, Waiting, InHand
<1>4. CASE call.op # "none"
  <2>1. call.fetch # "none" /\ call.spent < AttemptTicks /\ call' = Waited
    BY <1>4 DEF Tick
  <2>2. /\ call'.op = call.op /\ call'.fetch = call.fetch /\ call'.tries = call.tries
        /\ call'.since = (IF call.fetch = "spec" THEN call.since ELSE call.since + 1)
        /\ call'.spent = call.spent + 1
        /\ call'.hand = (IF call.fetch = "spec" THEN call.hand + 1 ELSE call.hand)
        /\ call.reply = NoReply => call'.reply = NoReply
        /\ call'.reply.age <= call.reply.age + 1
    BY <1>0, <2>1, WaitedType
  <2>3. /\ call.since \in Nat /\ call.spent \in Nat /\ call.hand \in Nat
        /\ call.reply.age \in Nat /\ call'.reply.age \in Nat /\ "spec" \notin Feed
    BY <1>0 DEF FeedsType, CallType, ReplyType, Feed
  <2>4. Waiting'
    BY <1>0, <2>1, <2>2, <2>3, NoReplyType DEF FreshInv, Waiting
  <2>5. InHand'
    <3> SUFFICES ASSUME call.fetch \notin Feed PROVE call'.hand <= Trusted(call'.op) + Asked'
      BY <2>2 DEF InHand
    <3>1. call.fetch = "spec" /\ call.op = "chain" /\ enriched
      BY <1>0, <2>1 DEF FreshInv, Waiting, FeedsType, CallType
    <3>2. Asked' = Asked + 1 /\ Asked \in Nat
      BY <1>0, <2>1, <3>1, AskedTick, AskedBounds
    <3>3. Trusted("chain") \in Nat
      BY TrustedTime DEF Answerable, Operation
    <3>4. call.hand <= Trusted("chain") + Asked
      BY <1>4, <3>1 DEF FreshInv, InHand
    <3> QED  BY <2>2, <2>3, <3>1, <3>2, <3>3, <3>4
  <2> QED  BY <1>1, <1>2, <2>4, <2>5 DEF FreshInv
<1> QED  BY <1>3, <1>4

LEMMA ReturnStep == ASSUME FreshInv, FeedsType', Return PROVE FreshInv'
<1>0. /\ FeedsType /\ call.op \in Answerable \ {"none"} /\ call.fetch = "none" /\ call.fetch \notin Feed
      /\ call.tries = 1 /\ call.spent = 0 /\ call' = NoCall /\ UNCHANGED <<enriched, cache>>
  BY DEF FreshInv, FeedsType, CallType, Return, Waiting, Feed
<1>1. FreshCache'
  BY <1>0 DEF FreshInv, FreshCache
<1>2. Waiting' /\ InHand'
  BY <1>0, NoCallType, NoReplyType DEF Waiting, InHand, Feed
<1>3. AnswersAreFresh'
  <2>1. call.hand <= Trusted(call.op) + Asking(call.op)
    <3>1. call.hand <= Trusted(call.op) + Asked
      BY <1>0 DEF FreshInv, InHand
    <3>2. Asked \in Nat /\ Asked <= Asking(call.op) /\ Trusted(call.op) \in Nat /\ call.hand \in Nat
      BY <1>0, AskedBounds, TrustedTime DEF FeedsType, CallType
    <3>3. Asking(call.op) \in Int
      BY FeedsAssumption DEF Asking
    <3> QED  BY <3>1, <3>2, <3>3
  <2>2. answer'.ok => answer'.op = call.op /\ answer'.age = call.hand
    BY DEF Return, Failing, NoAnswer
  <2>3. answer'.ok => answer'.age <= Trusted(answer'.op) + Asking(answer'.op)
    BY <2>1, <2>2
  <2> QED  BY <1>0, <2>3 DEF AnswersAreFresh, Asking
<1> QED  BY <1>1, <1>2, <1>3 DEF FreshInv

LEMMA FreshStep == FreshInv /\ [Next]_vars => FreshInv'
<1> SUFFICES ASSUME FreshInv, [Next]_vars PROVE FreshInv'
  OBVIOUS
<1>0. FeedsType /\ FeedsType' /\ call \in CallType
  BY NextTyped DEF FreshInv, FeedsType
<1>a. ASSUME UNCHANGED <<enriched, cache, call, margin>>, answer' = answer \/ ~answer'.ok PROVE FreshInv'
  BY <1>0, <1>a DEF FreshInv, Waiting, InHand, Asked, Unasked, Near, FreshCache, AnswersAreFresh, Asking
<1>1. ASSUME NEW op \in Operation, Refuse(op) PROVE FreshInv'
  <2>1. ~answer'.ok
    BY <1>1 DEF Refuse, NoAnswer
  <2> QED  BY <1>1, <2>1, <1>a DEF Refuse
<1>2. ASSUME NEW op \in Operation, Begin(op) PROVE FreshInv'
  <2>1. op \in Answerable \ {"none"}
    BY DEF Answerable, Operation
  <2> QED  BY <1>0, <1>2, <2>1, StartStep, NoAnswerType DEF Begin
<1>3. ASSUME NEW what \in Content, Reply(what) PROVE FreshInv'
  <2>1. PICK near : call' = [call EXCEPT !.reply = [what |-> what, age |-> 0, near |-> near]]
    BY <1>3 DEF Reply
  <2>2. /\ call'.op = call.op /\ call'.fetch = call.fetch /\ call'.since = call.since
        /\ call'.spent = call.spent /\ call'.reply.age = 0 /\ call.since \in Nat /\ call.spent \in Nat
    BY <1>0, <2>1 DEF CallType
  <2>3. call.fetch \in Feed /\ "none" \notin Feed /\ "spec" \notin Feed
    BY <1>3 DEF Reply, Feed
  <2>4. Waiting' /\ InHand'
    BY <2>2, <2>3 DEF Waiting, InHand
  <2> QED  BY <1>0, <1>3, <2>4, QuietStep DEF Reply
<1>4. CASE Retry
  BY <1>0, <1>4, RetryStep
<1>5. CASE GiveUp
  <2>1. ~answer'.ok
    BY <1>5 DEF GiveUp, Failing, NoAnswer
  <2>2. Waiting' /\ InHand'
    BY <1>5, NoCallType, NoReplyType DEF GiveUp, Waiting, InHand, Feed
  <2> QED  BY <1>0, <1>5, <2>1, <2>2, QuietStep DEF GiveUp
<1>6. CASE Receive
  BY <1>0, <1>6, ReceiveStep
<1>7. CASE AskBroker
  <2>1. /\ call'.op = call.op /\ call'.fetch = "spec" /\ call'.since = call.since /\ call'.tries = call.tries
        /\ call'.spent = call.spent /\ call'.hand = call.hand /\ call'.reply = call.reply
    BY <1>0, <1>7 DEF AskBroker, CallType
  <2>2. call.fetch = "none" /\ call.op = "chain" /\ enriched /\ "none" \notin Feed /\ "spec" \notin Feed
    BY <1>7 DEF AskBroker, MustAsk, Feed
  <2>3. Waiting'
    BY <1>7, <2>1, <2>2 DEF FreshInv, Waiting, AskBroker
  <2>4. InHand'
    BY <1>7, <2>1, <2>2 DEF FreshInv, InHand, Asked, Unasked, Near, AskBroker
  <2> QED  BY <1>0, <1>7, <2>3, <2>4, QuietStep DEF AskBroker
<1>8. ASSUME NEW c \in Contracts, SpecArrives(c) PROVE FreshInv'
  BY <1>0, <1>8, SpecStep DEF SpecArrives, Remembered
<1>9. ASSUME NEW c \in Contracts, SpecFails(c) PROVE FreshInv'
  BY <1>0, <1>9, SpecStep DEF SpecFails, Remembered
<1>10. CASE NameOthers
  <2>1. "naming" \in Answerable \ {"none"}
    BY DEF Answerable
  <2> QED  BY <1>0, <1>10, <2>1, StartStep DEF NameOthers
<1>11. CASE Return
  BY <1>0, <1>11, ReturnStep
<1>12. CASE Tick
  BY <1>0, <1>12, TickStep
<1>13. CASE UNCHANGED vars
  BY <1>13, <1>a DEF vars
<1> QED  BY <1>1, <1>2, <1>3, <1>4, <1>5, <1>6, <1>7, <1>8, <1>9, <1>10, <1>11, <1>12, <1>13 DEF Next, Proceed

\* For any time to live, timeout and number of attempts, and whatever the
\* network does: no answer rests on data older than the trust in its cache,
\* an attempt of slack where the stamp is taken after the request, and what
\* the broker took of the chain (tsetmc_option_chain_client.py:206,
\* option_history.py:180, order_book.py:282, enriched_option_chain.py:146).
THEOREM AnswersStayFresh == Spec => []AnswersAreFresh
<1>1. FreshInv => AnswersAreFresh
  BY DEF FreshInv
<1> QED  BY FreshInit, FreshStep, <1>1, PTL DEF Spec

-----------------------------------------------------------------------------
(* The history of implied volatility.                                      *)

HistoryType ==
    /\ today \in Nat
    /\ file \in [whole : BOOLEAN, points : SUBSET (Symbols \X Nat)]
    /\ alive \in [Contexts -> {"gone", "up", "saving", "writing"}]
    /\ memory \in [Contexts -> SUBSET (Symbols \X Nat)]
    /\ saved \subseteq Symbols \X Nat
    /\ orderly \in BOOLEAN

\* Contexts that take turns.
OneAtATime == \A c, d \in Contexts : alive[c] # "gone" /\ alive[d] # "gone" => c = d

\* HistorySurvives is kept by every step as long as at most one context is
\* alive: what the next one loads is what the last one left.
HistoryInv == HistoryType /\ (orderly => OneAtATime) /\ HistorySurvives

LEMMA HistoryStarts == HistoryInit => HistoryInv
<1> SUFFICES ASSUME HistoryInit PROVE HistoryInv
  OBVIOUS
<1>1. HistoryType
  BY DEF HistoryInit, HistoryType, NoFile
<1> QED  BY <1>1 DEF HistoryInit, HistoryInv, OneAtATime, HistorySurvives, Recent, NoFile

LEMMA HistoryTypeStep == HistoryType /\ [HistoryNext]_historyVars => HistoryType'
<1> SUFFICES ASSUME HistoryType, [HistoryNext]_historyVars PROVE HistoryType'
  OBVIOUS
<1> USE DEF HistoryType
<1>1. CASE UNCHANGED historyVars
  BY <1>1 DEF historyVars
<1>2. CASE NextDay
  BY <1>2 DEF NextDay
<1>3. ASSUME NEW c \in Contexts, Create(c) PROVE HistoryType'
  BY <1>3 DEF Create, Loaded
<1>4. ASSUME NEW c \in Contexts, NEW s \in Symbols, Record(c, s) PROVE HistoryType'
  <2>1. Pruned(memory[c] \union {<<s, today>>}, s) \subseteq Symbols \X Nat
    BY DEF Pruned
  <2> QED  BY <1>4, <2>1 DEF Record
<1>5. ASSUME NEW c \in Contexts, Truncate(c) \/ OpenFails(c) \/ WriteFails(c) PROVE HistoryType'
  <2>1. CASE Truncate(c)
    BY <2>1 DEF Truncate, Torn
  <2>2. CASE OpenFails(c)
    BY <2>2 DEF OpenFails
  <2>3. CASE WriteFails(c)
    BY <2>3 DEF WriteFails
  <2> QED  BY <1>5, <2>1, <2>2, <2>3
<1>6. ASSUME NEW c \in Contexts, Write(c) PROVE HistoryType'
  BY <1>6 DEF Write
<1>7. ASSUME NEW c \in Contexts, End(c) PROVE HistoryType'
  BY <1>7 DEF End
<1> QED  BY <1>1, <1>2, <1>3, <1>4, <1>5, <1>6, <1>7 DEF HistoryNext

\* A step of the one context that is alive.
LEMMA HistoryStep == HistoryInv /\ [HistoryNext]_historyVars => HistoryInv'
<1> SUFFICES ASSUME HistoryInv, [HistoryNext]_historyVars, orderly'
             PROVE  OneAtATime' /\ HistorySurvives'
  BY HistoryTypeStep DEF HistoryInv, HistorySurvives
<1>0. HistoryType /\ HistoryType'
  BY HistoryTypeStep DEF HistoryInv
<1>1. CASE UNCHANGED historyVars
  BY <1>1 DEF historyVars, HistoryInv, OneAtATime, HistorySurvives, Recent
<1>2. CASE NextDay
  <2>1. Recent' \subseteq Recent
    BY <1>0, <1>2, SharedFilesAssumption DEF NextDay, Recent, HistoryType
  <2> QED  BY <1>2, <2>1 DEF NextDay, HistoryInv, OneAtATime, HistorySurvives
<1>3. ASSUME NEW c \in Contexts, Create(c) PROVE OneAtATime' /\ HistorySurvives'
  <2>1. orderly /\ \A d \in Contexts : alive[d] = "gone"
    BY <1>3 DEF Create
  <2>2. file.whole /\ Recent \subseteq file.points
    BY <2>1 DEF HistoryInv, HistorySurvives
  <2>3. Recent' = Recent /\ file' = file /\ memory'[c] = file.points
    BY <1>0, <1>3 DEF Create, Loaded, Recent, HistoryType
  <2>4. \A d \in Contexts : alive'[d] # "gone" => d = c
    BY <1>0, <1>3, <2>1 DEF Create, HistoryType
  <2> QED  BY <2>2, <2>3, <2>4 DEF OneAtATime, HistorySurvives
<1>4. ASSUME NEW c \in Contexts, alive[c] # "gone", orderly,
             alive'[c] # "gone", \A d \in Contexts \ {c} : alive'[d] = alive[d]
      PROVE  OneAtATime' /\ (\A d \in Contexts : alive'[d] # "gone" => d = c)
  BY <1>4 DEF HistoryInv, OneAtATime
<1>5. ASSUME NEW c \in Contexts, NEW s \in Symbols, Record(c, s) PROVE OneAtATime' /\ HistorySurvives'
  <2>1. orderly /\ alive[c] # "gone" /\ alive[c] # "writing"
    BY <1>5 DEF Record
  <2>2. OneAtATime' /\ \A d \in Contexts : alive'[d] # "gone" => d = c
    BY <1>0, <1>4, <1>5 DEF Record, HistoryType
  <2>3. Recent \subseteq memory[c] /\ file.whole /\ Recent \subseteq file.points
    BY <2>1 DEF HistoryInv, HistorySurvives, OneAtATime
  <2>4. Recent \subseteq Pruned(memory[c] \union {<<s, today>>}, s)
    BY <2>3 DEF Pruned, Recent
  <2>5. Recent' = Recent /\ file' = file /\ memory'[c] = Pruned(memory[c] \union {<<s, today>>}, s)
    BY <1>0, <1>5 DEF Record, Recent, HistoryType
  <2> QED  BY <2>2, <2>3, <2>4, <2>5 DEF HistorySurvives
<1>6. ASSUME NEW c \in Contexts, Truncate(c) PROVE OneAtATime' /\ HistorySurvives'
  <2>1. orderly /\ alive[c] # "gone" /\ alive'[c] = "writing"
    BY <1>0, <1>6 DEF Truncate, HistoryType
  <2>2. OneAtATime' /\ \A d \in Contexts : alive'[d] # "gone" => d = c
    BY <1>0, <1>4, <1>6 DEF Truncate, HistoryType
  <2>3. Recent \subseteq memory[c] /\ Recent' = Recent /\ memory' = memory /\ ~file'.whole
    BY <1>6, <2>1 DEF Truncate, Torn, Recent, HistoryInv, HistorySurvives
  <2> QED  BY <2>1, <2>2, <2>3 DEF HistorySurvives
<1>7. ASSUME NEW c \in Contexts, OpenFails(c) PROVE OneAtATime' /\ HistorySurvives'
  <2>1. orderly /\ alive[c] = "saving"
    BY <1>7 DEF OpenFails
  <2>2. OneAtATime' /\ \A d \in Contexts : alive'[d] # "gone" => d = c
    BY <1>0, <1>4, <1>7 DEF OpenFails, HistoryType
  <2>3. Recent \subseteq memory[c] /\ file.whole /\ Recent \subseteq file.points
    BY <2>1 DEF HistoryInv, HistorySurvives, OneAtATime
  <2>4. Recent' = Recent /\ file' = file /\ memory' = memory
    BY <1>7 DEF OpenFails, Recent
  <2> QED  BY <2>2, <2>3, <2>4 DEF HistorySurvives
<1>8. ASSUME NEW c \in Contexts, Write(c) PROVE OneAtATime' /\ HistorySurvives'
  <2>1. orderly /\ alive[c] # "gone"
    BY <1>8 DEF Write
  <2>2. OneAtATime' /\ \A d \in Contexts : alive'[d] # "gone" => d = c
    BY <1>0, <1>4, <1>8 DEF Write, HistoryType
  <2>3. Recent \subseteq memory[c]
    BY <2>1 DEF HistoryInv, HistorySurvives
  <2>4. file'.whole /\ file'.points = memory[c] /\ memory' = memory
    BY <1>8 DEF Write
  <2>5. Recent' \subseteq memory[c]
    BY <1>8, <2>3 DEF Write, Recent
  <2> QED  BY <2>2, <2>4, <2>5 DEF HistorySurvives
<1>9. ASSUME NEW c \in Contexts, WriteFails(c) PROVE FALSE
  BY <1>9 DEF WriteFails
<1>10. ASSUME NEW c \in Contexts, End(c) PROVE OneAtATime' /\ HistorySurvives'
  <2>1. orderly /\ alive[c] # "gone" /\ alive[c] # "writing"
    BY <1>10 DEF End
  <2>2. file.whole /\ Recent \subseteq file.points
    BY <2>1 DEF HistoryInv, HistorySurvives, OneAtATime
  <2>3. \A d \in Contexts : alive'[d] = "gone"
    BY <1>0, <1>10, <2>1 DEF End, HistoryInv, HistoryType, OneAtATime
  <2>4. Recent' = Recent /\ file' = file
    BY <1>10 DEF End, Recent
  <2> QED  BY <2>2, <2>3, <2>4 DEF OneAtATime, HistorySurvives
<1> QED  BY <1>1, <1>2, <1>3, <1>5, <1>6, <1>7, <1>8, <1>9, <1>10 DEF HistoryNext

\* Whatever fails or dies before the file is truncated, every recent point of
\* the history survives as long as contexts take turns (IVHistory,
\* iv_surface.py:250-332).
THEOREM HistoryKeepsItsPoints == HistorySpec => []HistorySurvives
<1>1. HistoryInit => HistoryInv
  BY HistoryStarts
<1>2. HistoryInv /\ [HistoryNext]_historyVars => HistoryInv'
  BY HistoryStep
<1>3. HistoryInv => HistorySurvives
  BY DEF HistoryInv
<1> QED  BY <1>1, <1>2, <1>3, PTL DEF HistorySpec

-----------------------------------------------------------------------------
(* settings.yaml.                                                          *)

StageType == stage \in [Requests -> {"idle", "read", "writing"}]
RowsType == DOMAIN base = Requests /\ DOMAIN patch = Requests

\* Requests that take turns: the one under way has read what was wanted.
InTurn ==
    /\ \A q, r \in Requests : stage[q] # "idle" /\ stage[r] # "idle" => q = r
    /\ \A r \in Requests : stage[r] # "idle" => base[r] = wanted

SettingsInv == StageType /\ RowsType /\ inTurn \in BOOLEAN /\ (inTurn => InTurn) /\ SettingsSurvive

LEMMA SettingsStart == SettingsInit => SettingsInv
BY DEF SettingsInit, SettingsInv, StageType, RowsType, InTurn, SettingsSurvive

LEMMA SettingsTypeStep ==
    SettingsInv /\ [SettingsNext]_settingsVars => StageType' /\ RowsType' /\ inTurn' \in BOOLEAN
<1> SUFFICES ASSUME SettingsInv, [SettingsNext]_settingsVars
             PROVE  StageType' /\ RowsType' /\ inTurn' \in BOOLEAN
  OBVIOUS
<1> USE DEF SettingsInv, StageType, RowsType
<1>1. CASE UNCHANGED settingsVars
  BY <1>1 DEF settingsVars
<1>2. ASSUME NEW r \in Requests, NEW change \in Patches, ReadSettings(r, change)
      PROVE  StageType' /\ RowsType' /\ inTurn' \in BOOLEAN
  BY <1>2 DEF ReadSettings
<1>3. ASSUME NEW r \in Requests, TruncateSettings(r) \/ WriteSettings(r) \/ AbandonSettings(r)
      PROVE  StageType' /\ RowsType' /\ inTurn' \in BOOLEAN
  BY <1>3 DEF TruncateSettings, WriteSettings, AbandonSettings
<1> QED  BY <1>1, <1>2, <1>3 DEF SettingsNext

LEMMA SettingsStep == SettingsInv /\ [SettingsNext]_settingsVars => SettingsInv'
<1> SUFFICES ASSUME SettingsInv, [SettingsNext]_settingsVars, inTurn'
             PROVE  InTurn' /\ SettingsSurvive'
  BY SettingsTypeStep DEF SettingsInv, SettingsSurvive
<1>0. StageType /\ RowsType /\ StageType' /\ RowsType'
  BY SettingsTypeStep DEF SettingsInv
<1>1. CASE UNCHANGED settingsVars
  BY <1>1 DEF settingsVars, SettingsInv, InTurn, SettingsSurvive
<1>2. ASSUME NEW r \in Requests, NEW change \in Patches, ReadSettings(r, change)
      PROVE  InTurn' /\ SettingsSurvive'
  <2>1. inTurn /\ \A q \in Requests : stage[q] = "idle"
    BY <1>2 DEF ReadSettings
  <2>2. settings = wanted
    BY <2>1 DEF SettingsInv, SettingsSurvive
  <2>3. settings' = settings /\ wanted' = wanted /\ base'[r] = settings
    BY <1>0, <1>2 DEF ReadSettings, RowsType
  <2>4. \A q \in Requests \ {r} : stage'[q] = "idle"
    BY <1>0, <1>2, <2>1 DEF ReadSettings, StageType
  <2> QED  BY <2>2, <2>3, <2>4 DEF InTurn, SettingsSurvive
<1>3. ASSUME NEW r \in Requests, TruncateSettings(r) PROVE InTurn' /\ SettingsSurvive'
  <2>1. inTurn /\ stage[r] # "idle" /\ stage'[r] = "writing"
    BY <1>0, <1>3 DEF TruncateSettings, StageType
  <2>2. \A q \in Requests \ {r} : stage'[q] = stage[q]
    BY <1>0, <1>3 DEF TruncateSettings, StageType
  <2>3. base' = base /\ wanted' = wanted
    BY <1>3 DEF TruncateSettings
  <2> QED  BY <2>1, <2>2, <2>3 DEF SettingsInv, InTurn, SettingsSurvive
<1>4. ASSUME NEW r \in Requests, WriteSettings(r) PROVE InTurn' /\ SettingsSurvive'
  <2>1. inTurn /\ stage[r] = "writing" /\ base[r] = wanted
    BY <1>4 DEF WriteSettings, SettingsInv, InTurn
  <2>2. settings' = wanted'
    BY <1>4, <2>1 DEF WriteSettings, DeepMerge
  <2>3. \A q \in Requests : stage'[q] = "idle"
    BY <1>0, <1>4, <2>1 DEF WriteSettings, StageType, SettingsInv, InTurn
  <2> QED  BY <2>2, <2>3 DEF InTurn, SettingsSurvive
<1>5. ASSUME NEW r \in Requests, AbandonSettings(r) PROVE InTurn' /\ SettingsSurvive'
  <2>1. inTurn /\ stage[r] = "read"
    BY <1>0, <1>5 DEF AbandonSettings, StageType
  <2>2. \A q \in Requests : q # r => stage[q] = "idle"
    BY <2>1 DEF SettingsInv, InTurn
  <2>3. settings = wanted
    BY <2>1, <2>2 DEF SettingsInv, SettingsSurvive
  <2>4. \A q \in Requests : stage'[q] = "idle"
    BY <1>0, <1>5, <2>2 DEF AbandonSettings, StageType
  <2> QED  BY <1>5, <2>3, <2>4 DEF AbandonSettings, InTurn, SettingsSurvive
<1> QED  BY <1>1, <1>2, <1>3, <1>4, <1>5 DEF SettingsNext

\* As long as requests take turns every leaf has the value the last patch that
\* named it gave it (_patch_settings, web/api.py:150-172).
THEOREM SettingsKeepEveryPatch == SettingsSpec => []SettingsSurvive
<1>1. SettingsInit => SettingsInv
  BY SettingsStart
<1>2. SettingsInv /\ [SettingsNext]_settingsVars => SettingsInv'
  BY SettingsStep
<1>3. SettingsInv => SettingsSurvive
  BY DEF SettingsInv
<1> QED  BY <1>1, <1>2, <1>3, PTL DEF SettingsSpec

-----------------------------------------------------------------------------
(* The specification of the run.                                           *)

\* Whichever of the three a behaviour follows, each of them takes one of its
\* own steps or none.
LEMMA SceneSteps ==
    [SourcesNext]_sceneVars =>
        [Next]_vars /\ [HistoryNext]_historyVars /\ [SettingsNext]_settingsVars
BY DEF SourcesNext, sceneVars

LEMMA SceneStarts == SourcesInit => Init /\ HistoryInit /\ SettingsInit
BY DEF SourcesInit

\* For any contexts, requests, days and settings, both files keep what they
\* are given as long as those that write them take turns and none dies or
\* fails while writing (iv_surface.py:281-308, web/api.py:150-171).
THEOREM FilesKeepTheirs == SourcesSpec => []FilesKeepWhatTheyAreGiven
<1> DEFINE Inv == HistoryInv /\ SettingsInv
<1>1. SourcesInit => Inv
  BY SceneStarts, HistoryStarts, SettingsStart
<1>2. Inv /\ [SourcesNext]_sceneVars => Inv'
  BY SceneSteps, HistoryStep, SettingsStep
<1>3. Inv => FilesKeepWhatTheyAreGiven
  BY DEF HistoryInv, SettingsInv, FilesKeepWhatTheyAreGiven
<1> QED  BY <1>1, <1>2, <1>3, PTL DEF SourcesSpec

\* AnswersStayFresh, of the specification the run checks.
THEOREM SourcesAnswerFresh == SourcesSpec => []AnswersAreFresh
<1>1. SourcesInit => FreshInv
  BY SceneStarts, FreshInit
<1>2. FreshInv /\ [SourcesNext]_sceneVars => FreshInv'
  BY SceneSteps, FreshStep
<1>3. FreshInv => AnswersAreFresh
  BY DEF FreshInv
<1> QED  BY <1>1, <1>2, <1>3, PTL DEF SourcesSpec

\* SizesStayCorrected, of the specification the run checks.
THEOREM SourcesStayCorrected == SourcesSpec => []CorrectedStaysCorrected
<1>1. SourcesInit => CorrectedInv
  BY SceneStarts, CorrectedInit
<1>2. CorrectedInv /\ [SourcesNext]_sceneVars => CorrectedInv'
  BY SceneSteps, CorrectedStep
<1>3. CorrectedInv => CorrectedStaysCorrected
  BY DEF CorrectedInv
<1> QED  BY <1>1, <1>2, <1>3, PTL DEF SourcesSpec
=============================================================================
