-------------------------- MODULE TelegramBotProof --------------------------
(***************************************************************************)
(* Proofs about the command bot, for any signals, any limit of a batch and *)
(* any number of updates and restarts.                                     *)
(***************************************************************************)
EXTENDS TelegramBotProps, SequenceTheorems, WellFoundedInduction, TLAPS

\* What is fetched is a sequence of ids, no longer than the limit, that
\* starts at the oldest unconfirmed update and leaves no gap.
LEMMA FetchedIds ==
    ASSUME TypeOK
    PROVE  /\ FetchFrom \in Nat \ {0}
           /\ Fetched \in Seq(1..Len(updates))
           /\ Len(Fetched) <= Limit
           /\ \A k \in 1..Len(Fetched) : Fetched[k] = FetchFrom + k - 1
<1>1. Len(updates) \in Nat /\ Limit \in Nat
  BY BotAssumption DEF TypeOK
<1>2. FetchFrom \in Nat \ {0} /\ FetchFrom <= Len(updates) + 1
  BY <1>1 DEF TypeOK, FetchFrom
<1> DEFINE n == IF Pending > Limit THEN Limit ELSE Pending
<1>3. n \in Nat /\ n <= Limit /\ FetchFrom + n - 1 <= Len(updates)
  BY <1>1, <1>2 DEF Pending
<1>4. Fetched = [k \in 1..n |-> FetchFrom + k - 1]
  BY DEF Fetched
<1> HIDE DEF n
<1>5. \A k \in 1..n : FetchFrom + k - 1 \in 1..Len(updates)
  BY <1>1, <1>2, <1>3
<1>6. Fetched \in Seq(1..Len(updates)) /\ Len(Fetched) = n
  BY <1>3, <1>4, <1>5
<1> QED  BY <1>2, <1>3, <1>4, <1>6

\* Looking at the next update of the batch.
LEMMA AdvanceType ==
    ASSUME TypeOK, batch # <<>>, Advance, updates' = updates
    PROVE  /\ offset' \in 1..Len(updates) + 1
           /\ batch' \in Seq(1..Len(updates)) /\ Len(batch') <= Limit
           /\ Head(batch) \in 1..Len(updates)
           /\ handled' \subseteq 1..Len(updates)
           /\ handled \subseteq handled' /\ Head(batch) \in handled'
<1>1. Len(updates) \in Nat /\ Limit \in Nat
  BY BotAssumption DEF TypeOK
<1>2. Head(batch) \in 1..Len(updates)
  BY DEF TypeOK
<1>3. Tail(batch) \in Seq(1..Len(updates)) /\ Len(Tail(batch)) <= Limit
  BY <1>1 DEF TypeOK
<1>4. offset' \in 1..Len(updates) + 1
  BY SMTT(30), <1>1, <1>2 DEF TypeOK, Advance
<1> QED  BY <1>2, <1>3, <1>4 DEF TypeOK, Advance

LEMMA InitType == Init => TypeOK
<1> SUFFICES ASSUME Init PROVE TypeOK
  OBVIOUS
<1>1. updates = <<>> /\ Len(updates) = 0 /\ updates \in Seq(Updates)
  BY DEF Init
<1>2. batch = <<>> /\ batch \in Seq(1..Len(updates)) /\ Len(batch) <= Limit
  BY <1>1, BotAssumption DEF Init
<1>3. acks \in [Signals -> {NoAck, "taken", "seen"}]
  BY DEF Init
<1>4. muted \in BOOLEAN /\ unsaved \in BOOLEAN
  BY Zenon DEF Init
<1> QED  BY <1>1, <1>2, <1>3, <1>4, BotAssumption DEF Init, TypeOK

\* What a chat sends is appended: no known update changes.
LEMMA ChatSendsType ==
    ASSUME TypeOK, ChatSends
    PROVE  TypeOK'
<1>1. PICK u \in Updates : updates' = Append(updates, u)
  BY DEF ChatSends
<1>2. updates' \in Seq(Updates) /\ Len(updates') = Len(updates) + 1
  BY <1>1 DEF TypeOK
<1>3. Len(updates) \in Nat /\ MaxUpdates \in Nat
  BY BotAssumption DEF TypeOK
<1>4. Len(updates') <= MaxUpdates
  BY <1>2, <1>3 DEF ChatSends
<1>5. 1..Len(updates) \subseteq 1..Len(updates')
  BY <1>2, <1>3
<1>6. batch' \in Seq(1..Len(updates'))
  <2>1. batch' = batch /\ batch \in Seq(1..Len(updates))
    BY DEF ChatSends, TypeOK
  <2> QED  BY <1>5, <2>1, SeqMonotonic
<1>7. /\ confirmed' \in 0..Len(updates')
      /\ offset' \in 1..Len(updates') + 1 /\ saved' \in 1..Len(updates') + 1
  BY <1>2, <1>3 DEF ChatSends, TypeOK
<1>8. handled' \subseteq 1..Len(updates') /\ refused' \subseteq handled'
  BY <1>5 DEF ChatSends, TypeOK
<1>9. /\ pc' = pc /\ batch' = batch /\ muted' = muted /\ file' = file /\ web' = web
      /\ acks' = acks /\ unsaved' = unsaved /\ crashes' = crashes
  BY DEF ChatSends
<1> QED  BY <1>2, <1>4, <1>6, <1>7, <1>8, <1>9 DEF TypeOK

\* A restart reads back what the files hold.
LEMMA RestartType ==
    ASSUME TypeOK, NEW muteFile \in {"muted", "loud", "unreadable"},
           NEW offsetFile \in 1..Len(updates) + 1, Restart(muteFile, offsetFile)
    PROVE  TypeOK'
<1>1. crashes' \in 0..MaxCrashes
  BY BotAssumption DEF Restart, TypeOK
<1>2. batch' \in Seq(1..Len(updates')) /\ Len(batch') <= Limit /\ batch' = <<>>
  BY BotAssumption DEF Restart
<1>3. muted' \in BOOLEAN /\ file' \in {"muted", "loud", "unreadable"}
  BY Zenon DEF Restart
<1>4. offset' \in 1..Len(updates') + 1 /\ saved' \in 1..Len(updates') + 1 /\ pc' = "pass"
  BY DEF Restart
<1>5. UNCHANGED <<updates, confirmed, web, acks, handled, refused, unsaved>>
  BY DEF Restart
<1> QED  BY <1>1, <1>2, <1>3, <1>4, <1>5 DEF TypeOK

LEMMA StepType ==
    ASSUME TypeOK, [Next]_vars
    PROVE  TypeOK'
<1>0. Len(updates) \in Nat /\ 1 \in 1..Len(updates) + 1
  BY BotAssumption DEF TypeOK
<1>1. CASE EndPass \/ EndWait \/ Reply
  BY <1>1 DEF TypeOK, EndPass, EndWait, Reply
<1>2. CASE Poll \/ PollFails
  <2>1. confirmed' \in 0..Len(updates) /\ updates' = updates
    BY <1>0, <1>2 DEF TypeOK, Poll, PollFails, Confirm
  <2>2. /\ batch' \in Seq(1..Len(updates)) /\ Len(batch') <= Limit
        /\ pc' \in {"wait", "handle"} /\ (pc' = "wait" => batch' = <<>>)
    BY <1>2, FetchedIds DEF TypeOK, Poll, PollFails
  <2>3. UNCHANGED <<offset, saved, muted, file, web, acks, handled, refused, unsaved, crashes>>
    BY <1>2 DEF Poll, PollFails
  <2> QED  BY <2>1, <2>2, <2>3 DEF TypeOK
<1>3. CASE HandleForeign \/ HandleRead
  <2>1. Advance /\ batch # <<>> /\ updates' = updates /\ pc' \in {"handle", "reply"}
    BY <1>3 DEF HandleForeign, HandleRead
  <2>2. UNCHANGED <<confirmed, saved, muted, file, web, acks, refused, unsaved, crashes>>
    BY <1>3 DEF HandleForeign, HandleRead
  <2> QED  BY <2>1, <2>2, AdvanceType DEF TypeOK
<1>4. CASE SetMute
  <2>1. Advance /\ batch # <<>> /\ updates' = updates /\ pc' = "reply"
    BY <1>4 DEF SetMute
  <2>2. UNCHANGED <<confirmed, saved, web, acks, refused, crashes>>
    BY <1>4 DEF SetMute
  <2>3. muted' \in BOOLEAN /\ unsaved' \in BOOLEAN
    BY <1>4, Zenon DEF SetMute, TypeOK
  <2>4. file' \in {"muted", "loud", "unreadable"}
    BY <1>4 DEF SetMute, TypeOK, Switch
  <2> QED  BY <2>1, <2>2, <2>3, <2>4, AdvanceType DEF TypeOK
<1>5. CASE RecordAck
  <2>1. Advance /\ batch # <<>> /\ updates' = updates /\ pc' = "reply"
    BY <1>5 DEF RecordAck
  <2>2. UNCHANGED <<confirmed, saved, muted, file, web, unsaved, crashes>>
    BY <1>5 DEF RecordAck
  <2>3. Head(batch) \in 1..Len(updates) /\ handled \subseteq handled' /\ Head(batch) \in handled'
    BY <2>1, AdvanceType
  <2>4. refused' \subseteq handled'
    BY <1>5, <2>3 DEF RecordAck, TypeOK
  <2>5. Update \in Presses
    BY <1>5, <2>3 DEF RecordAck, TypeOK, Update, Updates, Plain
  <2>6. acks' \in [Signals -> {NoAck, "taken", "seen"}]
    BY <1>5, <2>5 DEF RecordAck, TypeOK, Presses
  <2> QED  BY <2>1, <2>2, <2>4, <2>6, AdvanceType DEF TypeOK
<1>6. CASE ReplyRaises
  <2>1. batch' = <<>> /\ batch' \in Seq(1..Len(updates)) /\ Len(batch') <= Limit
    BY <1>6, BotAssumption DEF ReplyRaises
  <2>2. /\ pc' = "wait"
        /\ UNCHANGED <<updates, confirmed, offset, saved, muted, file, web, acks,
                       handled, refused, unsaved, crashes>>
    BY <1>6 DEF ReplyRaises
  <2> QED  BY <2>1, <2>2 DEF TypeOK
<1>7. CASE SaveOffset
  BY <1>7 DEF TypeOK, SaveOffset
<1>8. CASE ChatSends
  BY <1>8, ChatSendsType
<1>9. CASE Crash \/ CrashSavingMute \/ CrashSavingOffset
  <2>1. file \in {"muted", "loud", "unreadable"} /\ saved \in 1..Len(updates) + 1
    BY DEF TypeOK
  <2> QED  BY <1>0, <1>9, <2>1, RestartType DEF Crash, CrashSavingMute, CrashSavingOffset
<1>10. CASE WebScan \/ WebRestarts
  BY <1>10 DEF TypeOK, WebScan, WebRestarts, Switch
<1>11. CASE UNCHANGED vars
  BY <1>11 DEF TypeOK, vars
<1> QED
  BY <1>1, <1>2, <1>3, <1>4, <1>5, <1>6, <1>7, <1>8, <1>9, <1>10, <1>11 DEF Next, Thread

\* The offset stays within the updates, a batch is what is left of one
\* getUpdates, and the files hold what the loaders accept
\* (telegram_commands.py:56-161), whatever fails and however often it restarts.
THEOREM BotTypeCorrect == Spec => []TypeOK
<1>1. Init => TypeOK
  BY InitType
<1>2. TypeOK /\ [Next]_vars => TypeOK'
  BY StepType
<1> QED  BY <1>1, <1>2, PTL DEF Spec

-----------------------------------------------------------------------------
(* No update is skipped.                                                   *)

\* Every update before the id was handled.
Passed(id) == 1..(id - 1) \subseteq handled

NoGaps == \A k \in 1..Len(batch) : batch[k] = Head(batch) + k - 1

\* The strengthening. Telegram forgets what the offset has passed, and a
\* restart goes back to the saved offset, so each of the two must have only
\* handled updates before it; and so must the batch, without a gap.
SkipInv ==
    /\ TypeOK
    /\ NoUpdateIsSkipped
    /\ Passed(offset) /\ Passed(saved)
    /\ batch # <<>> => Passed(Head(batch)) /\ NoGaps

\* The next update of the batch keeps the strengthening.
LEMMA AdvanceSkips ==
    ASSUME SkipInv, batch # <<>>, Advance, UNCHANGED <<updates, confirmed, saved>>, TypeOK'
    PROVE  SkipInv'
<1> DEFINE h == Head(batch)
<1>1. h \in Nat \ {0} /\ h = batch[1] /\ Len(batch) \in Nat \ {0}
  BY DEF SkipInv, TypeOK
<1>2. handled' = handled \union {h} /\ batch' = Tail(batch)
  BY DEF Advance
<1>3. 1..h \subseteq handled'
  BY <1>1, <1>2 DEF SkipInv, Passed
<1>4. NoUpdateIsSkipped' /\ Passed(saved)'
  BY <1>2 DEF SkipInv, NoUpdateIsSkipped, Passed
<1>5. Passed(offset)'
  <2>1. CASE h + 1 > offset
    <3>1. offset' = h + 1
      BY <2>1 DEF Advance
    <3> QED  BY <1>1, <1>3, <3>1 DEF Passed
  <2>2. CASE ~(h + 1 > offset)
    <3>1. offset' = offset
      BY <2>2 DEF Advance
    <3> QED  BY <1>2, <3>1 DEF SkipInv, Passed
  <2> QED  BY <2>1, <2>2
<1>6. ASSUME batch' # <<>>
      PROVE  Passed(Head(batch))' /\ NoGaps'
  <2>1. Len(batch') = Len(batch) - 1 /\ \A k \in 1..Len(batch') : batch'[k] = batch[k + 1]
    BY <1>1, <1>2 DEF SkipInv, TypeOK
  <2>2. Len(batch') \in Nat \ {0} /\ Head(batch') = batch'[1]
    <3>1. batch' \in Seq(1..Len(updates'))
      BY DEF TypeOK
    <3> QED  BY <1>6, <3>1, EmptySeq
  <2>3. \A k \in 1..Len(batch) : batch[k] = h + k - 1
    BY DEF SkipInv, NoGaps
  <2>4. Head(batch') = h + 1
    BY <1>1, <2>1, <2>2, <2>3
  <2>5. NoGaps'
    BY <1>1, <2>1, <2>2, <2>3, <2>4 DEF NoGaps
  <2> QED  BY <1>1, <1>3, <2>4, <2>5 DEF Passed
<1> QED  BY <1>4, <1>5, <1>6 DEF SkipInv

LEMMA SkipStep ==
    ASSUME SkipInv, [Next]_vars
    PROVE  SkipInv'
<1>0. TypeOK /\ TypeOK'
  BY StepType DEF SkipInv
<1>1. CASE EndPass \/ EndWait \/ Reply \/ WebScan \/ WebRestarts \/ UNCHANGED vars
  BY <1>0, <1>1 DEF EndPass, EndWait, Reply, WebScan, WebRestarts, vars, SkipInv, Passed,
                    NoGaps, NoUpdateIsSkipped
<1>2. CASE Poll \/ PollFails
  <2>1. UNCHANGED <<updates, offset, saved, handled>> /\ Confirm
    BY <1>2 DEF Poll, PollFails
  <2>2. NoUpdateIsSkipped'
    BY <1>0, <2>1 DEF Confirm, SkipInv, NoUpdateIsSkipped, Passed, TypeOK
  <2>3. ASSUME batch' # <<>>
        PROVE  Passed(Head(batch))' /\ NoGaps'
    <3>1. batch' = Fetched
      BY <1>0, <1>2, <2>3 DEF Poll, PollFails, TypeOK
    <3>2. Head(batch') = FetchFrom /\ NoGaps'
      BY <1>0, <2>3, <3>1, FetchedIds DEF NoGaps
    <3>3. 1..(FetchFrom - 1) \subseteq handled
      BY <1>0 DEF FetchFrom, SkipInv, Passed, NoUpdateIsSkipped, TypeOK
    <3> QED  BY <2>1, <3>2, <3>3 DEF Passed
  <2> QED  BY <1>0, <2>1, <2>2, <2>3 DEF SkipInv, Passed
<1>3. CASE HandleForeign \/ HandleRead \/ SetMute \/ RecordAck
  <2>1. Advance /\ batch # <<>> /\ UNCHANGED <<updates, confirmed, saved>>
    BY <1>3 DEF HandleForeign, HandleRead, SetMute, RecordAck
  <2> QED  BY <1>0, <2>1, AdvanceSkips
<1>4. CASE ReplyRaises \/ SaveOffset
  BY <1>0, <1>4 DEF ReplyRaises, SaveOffset, SkipInv, Passed, NoUpdateIsSkipped, NoGaps
<1>5. CASE ChatSends
  BY <1>0, <1>5 DEF ChatSends, SkipInv, Passed, NoUpdateIsSkipped, NoGaps
<1>6. CASE Crash \/ CrashSavingMute \/ CrashSavingOffset
  <2>1. /\ UNCHANGED <<updates, confirmed, handled>> /\ batch' = <<>>
        /\ offset' = saved' /\ saved' \in {saved, 1}
    BY <1>6 DEF Crash, CrashSavingMute, CrashSavingOffset, Restart
  <2>2. Passed(1)
    BY DEF Passed
  <2> QED  BY <1>0, <2>1, <2>2 DEF SkipInv, Passed, NoUpdateIsSkipped
<1> QED  BY <1>1, <1>2, <1>3, <1>4, <1>5, <1>6 DEF Next, Thread

\* Whatever Telegram has forgotten was handled (poll_once,
\* telegram_commands.py:189-225): for any limit of a batch and any number of
\* cut batches, failed requests, failed saves and restarts.
THEOREM BotSkipsNothing == Spec => []NoUpdateIsSkipped
<1>1. Init => SkipInv
  <2> SUFFICES ASSUME Init PROVE SkipInv
    OBVIOUS
  <2>1. TypeOK /\ batch = <<>>
    BY InitType DEF Init
  <2>2. NoUpdateIsSkipped /\ Passed(offset) /\ Passed(saved)
    BY DEF Init, NoUpdateIsSkipped, Passed
  <2> QED  BY <2>1, <2>2 DEF SkipInv
<1>2. SkipInv /\ [Next]_vars => SkipInv'
  BY SkipStep
<1>3. SkipInv => NoUpdateIsSkipped
  BY DEF SkipInv
<1> QED  BY <1>1, <1>2, <1>3, PTL DEF Spec
-----------------------------------------------------------------------------
(* The last wish is the one that is kept.                                  *)

\* The least number of a set: induction over the naturals, without a formula
\* for a parameter.
LEMMA LeastNumber ==
    ASSUME NEW T \in SUBSET Nat, T # {}
    PROVE  \E n \in T : \A m \in T : n <= m
<1> DEFINE R == OpToRel(<, Nat)
<1>1. IsWellFoundedOn(R, Nat)
  BY NatLessThanWellFounded
<1>2. \A m, n \in Nat : <<m, n>> \in R <=> m < n
  BY DEF OpToRel
<1> HIDE DEF R
<1>3. PICK n \in T : \A m \in T : ~(<<m, n>> \in R)
  BY <1>1, WFMin
<1>4. n \in Nat /\ \A m \in T : m \in Nat /\ ~(m < n)
  BY <1>2, <1>3
<1>5. \A m \in T : n <= m
  BY <1>4
<1> QED  BY <1>5

\* LastOf finds the last update of a kind, or 0.
LEMMA LastOfIs ==
    ASSUME TypeOK, NEW K
    PROVE  /\ (\A j \in 1..Len(updates) : updates[j] \notin K) => LastOf(K) = 0
           /\ \A i \in 1..Len(updates) :
                 updates[i] \in K /\ (\A j \in 1..Len(updates) : updates[j] \in K => j <= i)
                    => LastOf(K) = i
<1> DEFINE ids == {i \in 1..Len(updates) : updates[i] \in K}
<1>1. LastOf(K) = IF ids = {} THEN 0 ELSE CHOOSE i \in ids : \A j \in ids : j <= i
  BY DEF LastOf
<1>2. ASSUME \A j \in 1..Len(updates) : updates[j] \notin K
      PROVE  LastOf(K) = 0
  BY <1>1, <1>2
<1>3. ASSUME NEW i \in 1..Len(updates), updates[i] \in K,
             \A j \in 1..Len(updates) : updates[j] \in K => j <= i
      PROVE  LastOf(K) = i
  <2>1. i \in ids /\ (\A j \in ids : j <= i)
    BY <1>3
  <2>2. \A k \in ids : (\A j \in ids : j <= k) => k = i
    <3>1. ids \subseteq Nat
      BY DEF TypeOK
    <3> HIDE DEF ids
    <3> QED  BY <2>1, <3>1
  <2> HIDE DEF ids
  <2> QED  BY <1>1, <2>1, <2>2
<1> QED  BY <1>2, <1>3

\* There is a last one as soon as there is one.
LEMMA LastOfExists ==
    ASSUME TypeOK, NEW K
    PROVE  \/ /\ LastOf(K) = 0
              /\ \A j \in 1..Len(updates) : updates[j] \notin K
           \/ /\ LastOf(K) \in 1..Len(updates)
              /\ updates[LastOf(K)] \in K
              /\ \A j \in 1..Len(updates) : updates[j] \in K => j <= LastOf(K)
<1>0. Len(updates) \in Nat
  BY DEF TypeOK
<1>1. CASE \A j \in 1..Len(updates) : updates[j] \notin K
  BY <1>1, LastOfIs
<1>2. CASE \E j \in 1..Len(updates) : updates[j] \in K
  <2> DEFINE ids == {i \in 1..Len(updates) : updates[i] \in K}
             T == {m \in Nat : \A i \in ids : i <= m}
  <2>1. Len(updates) \in T
    BY <1>0
  <2>2. PICK n \in T : \A m \in T : n <= m
    BY <2>1, LeastNumber
  <2>3. n \in Nat /\ (\A i \in ids : i <= n)
    OBVIOUS
  <2>4. n \in ids
    <3>1. SUFFICES ASSUME n \notin ids PROVE FALSE
      OBVIOUS
    <3>2. ids \subseteq Nat \ {0} /\ ids # {}
      BY <1>0, <1>2
    <3> HIDE DEF ids
    <3>3. n - 1 \in Nat /\ \A i \in ids : i <= n - 1
      <4>1. \A i \in ids : i \in Nat /\ 1 <= i /\ i <= n /\ i # n
        BY <2>3, <3>1, <3>2
      <4>2. PICK i \in ids : TRUE
        BY <3>2
      <4>3. n - 1 \in Nat
        BY <2>3, <4>1, <4>2
      <4>4. \A j \in ids : j <= n - 1
        BY <2>3, <4>1
      <4> QED  BY <4>3, <4>4
    <3> DEFINE k == n - 1
    <3>4. k \in T
      <4>1. k \in Nat /\ \A i \in ids : i <= k
        BY <3>3
      <4> HIDE DEF k
      <4> QED  BY <4>1
    <3> HIDE DEF T
    <3> QED  BY <2>2, <2>3, <3>4
  <2>5. LastOf(K) = n
    BY <2>3, <2>4, LastOfIs
  <2> QED  BY <2>3, <2>4, <2>5
<1> QED  BY <1>1, <1>2

\* An update that is not of the kind leaves the last one of the kind.
LEMMA LastOfAppended ==
    ASSUME TypeOK, TypeOK', NEW K, NEW u, u \notin K, updates' = Append(updates, u)
    PROVE  /\ LastOf(K)' = LastOf(K)
           /\ LastOf(K) # 0 => updates'[LastOf(K)] = updates[LastOf(K)]
<1>1. /\ Len(updates) \in Nat /\ Len(updates') = Len(updates) + 1
      /\ updates'[Len(updates) + 1] = u
      /\ \A j \in 1..Len(updates) : updates'[j] = updates[j]
  BY SMTT(30) DEF TypeOK
<1>2. CASE LastOf(K) = 0
  <2>1. \A j \in 1..Len(updates') : updates'[j] \notin K
    BY <1>1, <1>2, LastOfExists
  <2>2. LastOf(K)' = 0
    BY <2>1, <1>1 DEF LastOf
  <2> QED  BY <1>2, <2>2
<1>3. CASE LastOf(K) # 0
  <2>1. /\ LastOf(K) \in 1..Len(updates)
        /\ updates[LastOf(K)] \in K
        /\ \A j \in 1..Len(updates) : updates[j] \in K => j <= LastOf(K)
    BY <1>3, LastOfExists
  <2> DEFINE i == LastOf(K)
  <2>2. /\ i \in 1..Len(updates') /\ updates'[i] \in K
        /\ \A j \in 1..Len(updates') : updates'[j] \in K => j <= i
    BY <1>1, <2>1
  <2> DEFINE ids == {j \in 1..Len(updates') : updates'[j] \in K}
  <2>3. LastOf(K)' = CHOOSE k \in ids : \A j \in ids : j <= k
    BY <2>2 DEF LastOf
  <2>4. i \in ids /\ (\A j \in ids : j <= i) /\ ids \subseteq Nat
    BY <1>1, <2>2
  <2> HIDE DEF ids, i
  <2>5. (CHOOSE k \in ids : \A j \in ids : j <= k) = i
    <3>1. \A k \in ids : (\A j \in ids : j <= k) => k = i
      BY <2>4
    <3> QED  BY <2>4, <3>1
  <2> QED  BY <1>1, <2>1, <2>3, <2>5 DEF i
<1> QED  BY <1>2, <1>3

\* Nothing of the kind is still to come when the bot goes on from the offset.
Settled(o, K) == \A i \in 1..Len(updates) : i >= o /\ i > confirmed => updates[i] \notin K

MuteWish == LastOf(Switches) # 0 /\ updates[LastOf(Switches)].kind = "mute"
AckWish(s) ==
    IF LastOf(PressesOf(s)) = 0 THEN NoAck ELSE updates[LastOf(PressesOf(s))].action
Repeats(s) == \E i \in refused : updates[i] \in PressesOf(s)

\* The strengthening. What the bot and its files say is the last wish as soon
\* as nothing that could change it is still to come, whether the bot goes on
\* from its offset or, after a restart, from the saved one. The batch is read
\* in order from the first update that is still to come.
WishInv ==
    /\ TypeOK
    /\ saved <= offset
    /\ batch # <<>> => Head(batch) = FetchFrom /\ NoGaps
    /\ unsaved \/ (muted <=> file = "muted")
    /\ \A o \in {offset, saved} :
          /\ Settled(o, Switches) => unsaved \/ muted = MuteWish
          /\ \A s \in Signals : Settled(o, PressesOf(s)) => Repeats(s) \/ acks[s] = AckWish(s)

\* The update at the head of the batch is passed by the offset and not by the
\* saved one; nothing else is.
LEMMA AdvanceSettles ==
    ASSUME WishInv, batch # <<>>, Advance, UNCHANGED <<updates, confirmed, saved>>, TypeOK'
    PROVE  /\ Head(batch) \in 1..Len(updates)
           /\ offset' = Head(batch) + 1
           /\ saved' <= offset'
           /\ batch' # <<>> => Head(batch)' = FetchFrom' /\ NoGaps'
           /\ \A K : updates[Head(batch)] \notin K =>
                 \A o \in {offset', saved'} : Settled(o, K)' => \E p \in {offset, saved} : Settled(p, K)
           /\ \A K : updates[Head(batch)] \in K =>
                 ~Settled(saved, K)' /\ (Settled(offset, K)' => LastOf(K) = Head(batch))
<1> DEFINE h == Head(batch)
<1>0. /\ TypeOK /\ batch' = Tail(batch)
      /\ updates' = updates /\ confirmed' = confirmed /\ saved' = saved
      /\ Len(updates) \in Nat /\ confirmed \in Nat /\ offset \in Nat /\ saved \in Nat /\ saved <= offset
  <2>1. TypeOK /\ saved <= offset
    BY DEF WishInv
  <2>2. Len(updates) \in Nat /\ confirmed \in Nat /\ offset \in Nat /\ saved \in Nat
    BY <2>1 DEF TypeOK
  <2> QED  BY <2>1, <2>2 DEF Advance
<1>1. h \in 1..Len(updates) /\ h = FetchFrom /\ h = batch[1] /\ Len(batch) \in Nat \ {0}
  BY <1>0 DEF WishInv, TypeOK
<1>2. h >= offset /\ h > confirmed /\ (\A i \in Nat : i < h => i < offset \/ i <= confirmed)
  BY <1>0, <1>1 DEF FetchFrom
<1>3. offset' = h + 1
  BY <1>0, <1>1, <1>2 DEF Advance
<1>4. FetchFrom' = h + 1
  BY <1>0, <1>1, <1>2, <1>3 DEF FetchFrom
<1>5. ASSUME batch' # <<>>
      PROVE  Head(batch)' = FetchFrom' /\ NoGaps'
  <2>1. Len(batch') = Len(batch) - 1 /\ \A k \in 1..Len(batch') : batch'[k] = batch[k + 1]
    BY <1>0, <1>1 DEF TypeOK
  <2>2. Len(batch') \in Nat \ {0} /\ Head(batch') = batch'[1]
    <3>1. batch' \in Seq(1..Len(updates'))
      BY DEF TypeOK
    <3> QED  BY <1>5, <3>1, EmptySeq
  <2>3. \A k \in 1..Len(batch) : batch[k] = h + k - 1
    BY DEF WishInv, NoGaps
  <2>4. Head(batch') = h + 1
    BY <1>1, <2>1, <2>2, <2>3
  <2>5. NoGaps'
    BY <1>1, <2>1, <2>2, <2>3, <2>4 DEF NoGaps
  <2> QED  BY <1>4, <2>4, <2>5
<1> HIDE DEF h
<1>6. ASSUME NEW K, updates[h] \notin K, NEW o \in {offset', saved'}, Settled(o, K)'
      PROVE  \E p \in {offset, saved} : Settled(p, K)
  <2>1. CASE o = offset'
    <3>1. \A i \in 1..Len(updates) : i >= h + 1 /\ i > confirmed => updates[i] \notin K
      BY <1>0, <1>3, <1>6, <2>1 DEF Settled
    <3>2. Settled(offset, K)
      BY <1>0, <1>1, <1>2, <1>6, <3>1 DEF Settled
    <3> QED  BY <3>2
  <2>2. CASE o = saved'
    BY <1>0, <1>6, <2>2 DEF Settled
  <2> QED  BY <1>6, <2>1, <2>2
<1>7. ASSUME NEW K, updates[h] \in K
      PROVE  ~Settled(saved, K)' /\ (Settled(offset, K)' => LastOf(K) = h)
  <2>1. ~Settled(saved, K)'
    <3>1. h \in 1..Len(updates') /\ h >= saved' /\ h > confirmed' /\ updates'[h] \in K
      BY <1>0, <1>1, <1>2, <1>7
    <3> QED  BY <3>1 DEF Settled
  <2>2. ASSUME Settled(offset, K)'
        PROVE  LastOf(K) = h
    <3>0. \A j \in 1..Len(updates) : j >= h + 1 /\ j > confirmed => updates[j] \notin K
      BY <1>0, <1>3, <2>2 DEF Settled
    <3>1. \A j \in 1..Len(updates) : updates[j] \in K => j <= h
      <4> SUFFICES ASSUME NEW j \in 1..Len(updates), j > h
                   PROVE  updates[j] \notin K
        BY <1>0, <1>1
      <4> QED  BY <1>0, <1>1, <1>2, <3>0
    <3> QED  BY <1>0, <1>1, <1>7, <3>1, LastOfIs
  <2> QED  BY <2>1, <2>2
<1> QED  BY <1>0, <1>1, <1>2, <1>3, <1>5, <1>6, <1>7 DEF h

\* A step that adds no update, and no press to repeat, changes no wish.
LEMMA SameWish ==
    ASSUME updates' = updates
    PROVE  /\ MuteWish' = MuteWish
           /\ \A s \in Signals : AckWish(s)' = AckWish(s)
           /\ refused' = refused => \A s \in Signals : Repeats(s)' = Repeats(s)
BY DEF MuteWish, AckWish, Repeats, LastOf

\* What a wish is about.
Decisions == {Switches} \union {PressesOf(s) : s \in Signals}

\* A step that leaves the wishes, what was done about them and where the bot
\* goes on as they are.
LEMMA QuietWish ==
    ASSUME WishInv, TypeOK', UNCHANGED <<updates, muted, file, acks, refused, unsaved>>,
           saved' <= offset', batch' # <<>> => Head(batch)' = FetchFrom' /\ NoGaps',
           \A K \in Decisions : \A o \in {offset', saved'} :
               Settled(o, K)' => \E p \in {offset, saved} : Settled(p, K)
    PROVE  WishInv'
<1>0. Switches \in Decisions /\ \A s \in Signals : PressesOf(s) \in Decisions
  BY DEF Decisions
<1>1. \A o \in {offset', saved'} :
          /\ Settled(o, Switches)' => unsaved' \/ muted' = MuteWish'
          /\ \A s \in Signals : Settled(o, PressesOf(s))' => Repeats(s)' \/ acks'[s] = AckWish(s)'
  BY <1>0, SameWish DEF WishInv
<1> QED  BY <1>1 DEF WishInv, PressesOf, Switches

\* A new update is still to come, wherever the bot goes on from.
LEMMA ChatSendsWish ==
    ASSUME WishInv, ChatSends
    PROVE  WishInv'
<1>0. TypeOK /\ TypeOK'
  BY ChatSendsType DEF WishInv
<1>1. PICK u \in Updates : updates' = Append(updates, u)
  BY DEF ChatSends
<1>2. /\ Len(updates) \in Nat /\ Len(updates') = Len(updates) + 1
      /\ updates'[Len(updates) + 1] = u
      /\ \A j \in 1..Len(updates) : updates'[j] = updates[j]
      /\ confirmed \in 0..Len(updates)
      /\ offset \in 1..Len(updates) + 1 /\ saved \in 1..Len(updates) + 1
  BY SMTT(30), <1>0, <1>1 DEF TypeOK
<1>3. UNCHANGED <<confirmed, offset, saved, batch, muted, file, acks, refused, unsaved>>
  BY DEF ChatSends
<1>4. ASSUME NEW K, NEW o \in {offset, saved}, Settled(o, K)'
      PROVE  /\ Settled(o, K)
             /\ LastOf(K)' = LastOf(K)
             /\ LastOf(K) # 0 => updates'[LastOf(K)] = updates[LastOf(K)]
  <2>1. \A i \in 1..Len(updates') : i >= o /\ i > confirmed => updates'[i] \notin K
    BY <1>3, <1>4 DEF Settled
  <2>2. u \notin K
    BY <1>2, <2>1
  <2>3. Settled(o, K)
    BY <1>2, <2>1 DEF Settled
  <2> QED  BY <1>0, <1>1, <2>2, <2>3, LastOfAppended
<1>5. \A o \in {offset, saved} : Settled(o, Switches)' => unsaved \/ muted = MuteWish'
  <2> SUFFICES ASSUME NEW o \in {offset, saved}, Settled(o, Switches)', ~unsaved
               PROVE  muted = MuteWish'
    OBVIOUS
  <2>1. Settled(o, Switches) /\ LastOf(Switches)' = LastOf(Switches)
        /\ (LastOf(Switches) # 0 => updates'[LastOf(Switches)] = updates[LastOf(Switches)])
    BY <1>4
  <2>2. muted = MuteWish
    BY <2>1 DEF WishInv
  <2> QED  BY <2>1, <2>2 DEF MuteWish
<1>6. \A o \in {offset, saved}, s \in Signals :
          Settled(o, PressesOf(s))' => Repeats(s) \/ acks[s] = AckWish(s)'
  <2> SUFFICES ASSUME NEW o \in {offset, saved}, NEW s \in Signals, Settled(o, PressesOf(s))', ~Repeats(s)
               PROVE  acks[s] = AckWish(s)'
    OBVIOUS
  <2> DEFINE K == PressesOf(s)
  <2>1. Settled(o, K) /\ LastOf(K)' = LastOf(K)
        /\ (LastOf(K) # 0 => updates'[LastOf(K)] = updates[LastOf(K)])
    BY <1>4
  <2>2. acks[s] = AckWish(s)
    BY <2>1 DEF WishInv
  <2> QED  BY <2>1, <2>2 DEF AckWish
<1>7. \A s \in Signals : Repeats(s) => Repeats(s)'
  <2>1. \A i \in refused : i \in 1..Len(updates)
    BY <1>0 DEF TypeOK
  <2> QED  BY <1>2, <1>3, <2>1 DEF Repeats
<1>8. FetchFrom' = FetchFrom /\ (NoGaps => NoGaps')
  BY <1>3 DEF FetchFrom, NoGaps
<1> QED  BY <1>0, <1>3, <1>5, <1>6, <1>7, <1>8 DEF WishInv

LEMMA WishStep ==
    ASSUME WishInv, [Next]_vars
    PROVE  WishInv'
<1>0. TypeOK /\ TypeOK'
  BY StepType DEF WishInv
<1>t. /\ Len(updates) \in Nat /\ confirmed \in Nat /\ offset \in Nat \ {0} /\ saved \in Nat \ {0}
      /\ saved <= offset
  <2>1. TypeOK /\ saved <= offset
    BY DEF WishInv
  <2>2. /\ updates \in Seq(Updates) /\ confirmed \in 0..Len(updates)
        /\ offset \in 1..Len(updates) + 1 /\ saved \in 1..Len(updates) + 1
    BY <2>1, Zenon DEF TypeOK
  <2> QED  BY <2>1, <2>2
<1>1. CASE EndPass \/ EndWait \/ Reply \/ ReplyRaises \/ SaveOffset \/ WebScan \/ WebRestarts
           \/ UNCHANGED vars
  <2>1. /\ updates' = updates /\ confirmed' = confirmed /\ offset' = offset
        /\ saved' \in {offset, saved} /\ batch' \in {batch, <<>>}
        /\ UNCHANGED <<muted, file, acks, refused, unsaved>>
    BY <1>1 DEF EndPass, EndWait, Reply, ReplyRaises, SaveOffset, WebScan, WebRestarts, vars
  <2>2. saved' <= offset' /\ (batch' # <<>> => Head(batch)' = FetchFrom' /\ NoGaps')
    BY <1>t, <2>1 DEF WishInv, FetchFrom, NoGaps
  <2>3. \A K : \A o \in {offset', saved'} : Settled(o, K)' => \E p \in {offset, saved} : Settled(p, K)
    BY <2>1 DEF Settled
  <2> QED  BY <1>0, <2>1, <2>2, <2>3, QuietWish
<1>2. CASE Poll \/ PollFails
  <2>1. /\ updates' = updates /\ offset' = offset /\ saved' = saved
        /\ UNCHANGED <<muted, file, acks, refused, unsaved>> /\ Confirm
        /\ pc = "wait" /\ batch = <<>>
    BY <1>0, <1>2 DEF Poll, PollFails, TypeOK
  <2>2. confirmed' = (IF offset - 1 > confirmed THEN offset - 1 ELSE confirmed) /\ FetchFrom' = FetchFrom
    BY <1>t, <2>1 DEF Confirm, FetchFrom
  <2>3. ASSUME batch' # <<>>
        PROVE  Head(batch)' = FetchFrom' /\ NoGaps'
    <3>1. batch' = Fetched
      BY <1>2, <2>1, <2>3 DEF Poll, PollFails
    <3>2. Head(batch') = FetchFrom /\ NoGaps'
      BY <1>0, <2>3, <3>1, FetchedIds DEF NoGaps
    <3> QED  BY <2>2, <3>2
  <2>4. ASSUME NEW K, NEW o \in {offset', saved'}, Settled(o, K)'
        PROVE  Settled(offset, K)
    BY <1>t, <2>1, <2>2, <2>4 DEF Settled
  <2> QED  BY <1>0, <1>t, <2>1, <2>3, <2>4, QuietWish
<1>3. CASE HandleForeign \/ HandleRead
  <2>1. /\ Advance /\ batch # <<>>
        /\ UNCHANGED <<updates, confirmed, saved>>
        /\ UNCHANGED <<updates, muted, file, acks, refused, unsaved>>
        /\ Update.kind \in {"foreign", "read"}
    BY <1>3 DEF HandleForeign, HandleRead
  <2>2. \A K \in Decisions : updates[Head(batch)] \notin K
    BY <2>1 DEF Decisions, Switches, PressesOf, Presses, Update
  <2>3. /\ saved' <= offset'
        /\ batch' # <<>> => Head(batch)' = FetchFrom' /\ NoGaps'
        /\ \A K \in Decisions : \A o \in {offset', saved'} :
              Settled(o, K)' => \E p \in {offset, saved} : Settled(p, K)
    BY <1>0, <2>1, <2>2, AdvanceSettles
  <2> QED  BY <1>0, <2>1, <2>3, QuietWish
<1>4. CASE SetMute
  <2>1. /\ Advance /\ batch # <<>>
        /\ UNCHANGED <<updates, confirmed, saved>>
        /\ updates' = updates /\ acks' = acks /\ refused' = refused
        /\ Update.kind \in {"mute", "unmute"} /\ muted' = (Update.kind = "mute")
        /\ \/ file' = Switch(muted') /\ unsaved' = unsaved
           \/ unsaved' = TRUE
    BY <1>4 DEF SetMute
  <2>2. /\ Head(batch) \in 1..Len(updates)
        /\ saved' <= offset' /\ (batch' # <<>> => Head(batch)' = FetchFrom' /\ NoGaps')
    BY <1>0, <2>1, AdvanceSettles
  <2>3. Update \in Switches /\ \A s \in Signals : Update \notin PressesOf(s)
    BY SMTT(30), <1>0, <2>1, <2>2 DEF Switches, PressesOf, Presses, Update, TypeOK
  <2>4. unsaved' \/ (muted' <=> file' = "muted")
    BY <2>1 DEF WishInv, Switch
  <2>5. ASSUME NEW o \in {offset', saved'}, Settled(o, Switches)'
        PROVE  muted' = MuteWish'
    <3>1. LastOf(Switches) = Head(batch)
      BY <1>0, <2>1, <2>3, <2>5, AdvanceSettles DEF Update
    <3>2. MuteWish' = MuteWish /\ MuteWish = (Update.kind = "mute")
      BY <2>1, <2>2, <3>1, SameWish DEF MuteWish, Update
    <3> QED  BY <2>1, <3>2
  <2>6. ASSUME NEW o \in {offset', saved'}, NEW s \in Signals, Settled(o, PressesOf(s))'
        PROVE  Repeats(s)' \/ acks'[s] = AckWish(s)'
    <3>1. PICK p \in {offset, saved} : Settled(p, PressesOf(s))
      BY <1>0, <2>1, <2>3, <2>6, AdvanceSettles DEF Update
    <3> QED  BY <2>1, <3>1, SameWish DEF WishInv
  <2> QED  BY <1>0, <2>2, <2>4, <2>5, <2>6 DEF WishInv
<1>5. CASE RecordAck
  <2>1. /\ Advance /\ batch # <<>>
        /\ UNCHANGED <<updates, confirmed, saved>>
        /\ updates' = updates /\ muted' = muted /\ file' = file /\ unsaved' = unsaved
        /\ Update.kind = "press"
        /\ \/ acks' = [acks EXCEPT ![Update.signal] = Update.action] /\ refused' = refused
           \/ refused' = refused \union {Head(batch)} /\ acks' = acks
    BY <1>5 DEF RecordAck
  <2>2. /\ Head(batch) \in 1..Len(updates)
        /\ saved' <= offset' /\ (batch' # <<>> => Head(batch)' = FetchFrom' /\ NoGaps')
    BY <1>0, <2>1, AdvanceSettles
  <2>3. /\ Update \notin Switches /\ Update \in Presses /\ Update.signal \in Signals
        /\ Update \in PressesOf(Update.signal)
        /\ \A s \in Signals \ {Update.signal} : Update \notin PressesOf(s)
    <3>1. Update \in Updates
      BY SMTT(30), <1>0, <2>2 DEF Update, TypeOK
    <3>2. Update \in Presses
      BY <2>1, <3>1 DEF Updates, Plain
    <3> QED  BY <2>1, <3>2 DEF Switches, PressesOf, Presses
  <2>4. ASSUME NEW o \in {offset', saved'}, Settled(o, Switches)'
        PROVE  unsaved' \/ muted' = MuteWish'
    <3>1. PICK p \in {offset, saved} : Settled(p, Switches)
      BY <1>0, <2>1, <2>3, <2>4, AdvanceSettles DEF Update
    <3> QED  BY <2>1, <3>1, SameWish DEF WishInv
  <2>5. ASSUME NEW o \in {offset', saved'}, NEW s \in Signals, Settled(o, PressesOf(s))'
        PROVE  Repeats(s)' \/ acks'[s] = AckWish(s)'
    <3>1. CASE s = Update.signal
      <4>1. LastOf(PressesOf(s)) = Head(batch)
        BY <1>0, <2>1, <2>3, <2>5, <3>1, AdvanceSettles DEF Update
      <4>2. AckWish(s)' = Update.action
        BY <2>1, <2>2, <4>1, SameWish DEF AckWish, Update
      <4>3. CASE acks' = [acks EXCEPT ![Update.signal] = Update.action]
        BY <1>0, <3>1, <4>2, <4>3 DEF TypeOK
      <4>4. CASE refused' = refused \union {Head(batch)}
        BY <2>1, <2>3, <3>1, <4>4 DEF Repeats, Update
      <4> QED  BY <2>1, <4>3, <4>4
    <3>2. CASE s # Update.signal
      <4>1. PICK p \in {offset, saved} : Settled(p, PressesOf(s))
        BY <1>0, <2>1, <2>3, <2>5, <3>2, AdvanceSettles DEF Update
      <4>2. Repeats(s) \/ acks[s] = AckWish(s)
        BY <4>1 DEF WishInv
      <4>3. Repeats(s) => Repeats(s)'
        BY <2>1 DEF Repeats
      <4>4. acks'[s] = acks[s]
        BY <1>0, <2>1, <3>2 DEF TypeOK
      <4> QED  BY <2>1, <4>2, <4>3, <4>4, SameWish
    <3> QED  BY <3>1, <3>2
  <2>6. unsaved' \/ (muted' <=> file' = "muted")
    BY <2>1 DEF WishInv
  <2> QED  BY <1>0, <2>2, <2>4, <2>5, <2>6 DEF WishInv
<1>6. CASE Crash \/ CrashSavingOffset
  <2>1. /\ updates' = updates /\ confirmed' = confirmed /\ offset' = saved' /\ saved' \in {saved, 1}
        /\ acks' = acks /\ refused' = refused /\ unsaved' = unsaved /\ file' = file
        /\ muted' = (file = "muted") /\ batch' = <<>>
    BY <1>6 DEF Crash, CrashSavingOffset, Restart
  <2>2. \A K : Settled(saved, K)' => Settled(saved, K)
    BY <1>t, <2>1 DEF Settled
  <2>3. unsaved \/ muted' = muted
    BY <1>0, <2>1, Zenon DEF WishInv, TypeOK
  <2> QED  BY <1>0, <1>t, <2>1, <2>2, <2>3, SameWish DEF WishInv
<1>7. CASE CrashSavingMute
  <2>1. /\ updates' = updates /\ confirmed' = confirmed /\ offset' = saved /\ saved' = saved
        /\ acks' = acks /\ refused' = refused /\ unsaved' = unsaved
        /\ file' = "unreadable" /\ muted' = FALSE /\ batch' = <<>>
        /\ batch # <<>> /\ Update.kind \in {"mute", "unmute"}
    BY <1>7 DEF CrashSavingMute, Restart
  <2>2. Head(batch) \in 1..Len(updates) /\ Head(batch) >= saved /\ Head(batch) > confirmed
    BY <1>0, <1>t, <2>1 DEF WishInv, FetchFrom, TypeOK
  <2>3. ~Settled(saved, Switches)'
    <3>1. Update \in Switches
      BY <1>0, <2>1, <2>2 DEF Switches, Update, TypeOK
    <3> QED  BY <2>1, <2>2, <3>1 DEF Settled, Update
  <2>4. \A K : Settled(saved, K)' => Settled(saved, K)
    BY <2>1 DEF Settled
  <2> QED  BY <1>0, <1>t, <2>1, <2>3, <2>4, SameWish DEF WishInv
<1>8. CASE ChatSends
  BY <1>8, ChatSendsWish
<1> QED  BY <1>1, <1>2, <1>3, <1>4, <1>5, <1>6, <1>7, <1>8 DEF Next, Thread

\* Once the bot has caught up it is muted exactly if the last switch was /mute,
\* and every signal carries the last press (MuteState, telegram_commands.py:
\* 56-91; AckStore.record, acknowledgement.py:106-140): for any updates and any
\* number of failed requests, cut batches, lost offsets and restarts.
THEOREM BotKeepsLastWish == Spec => []CaughtUpMeansLastWish
<1>1. Init => WishInv
  <2> SUFFICES ASSUME Init PROVE WishInv
    OBVIOUS
  <2>1. /\ TypeOK /\ updates = <<>> /\ Len(updates) = 0 /\ offset = 1 /\ saved = 1 /\ batch = <<>>
        /\ muted = FALSE /\ file = "loud" /\ acks = [s \in Signals |-> NoAck]
    BY InitType DEF Init
  <2>2. \A K : LastOf(K) = 0
    BY <2>1, LastOfIs
  <2>3. MuteWish = FALSE /\ \A s \in Signals : AckWish(s) = NoAck
    BY <2>2 DEF MuteWish, AckWish
  <2>4. muted = MuteWish /\ (muted <=> file = "muted")
    BY <2>1, <2>3
  <2> QED  BY <2>1, <2>3, <2>4 DEF WishInv
<1>2. WishInv /\ [Next]_vars => WishInv'
  BY WishStep
<1>3. WishInv => CaughtUpMeansLastWish
  <2> SUFFICES ASSUME WishInv, offset > Len(updates)
               PROVE  /\ unsaved \/ muted = MuteWish
                      /\ \A s \in Signals : Repeats(s) \/ acks[s] = AckWish(s)
    BY DEF CaughtUpMeansLastWish, MuteWish, AckWish, Repeats
  <2>1. Len(updates) \in Nat /\ offset \in Nat
    BY DEF WishInv, TypeOK
  <2>2. \A K : Settled(offset, K)
    BY <2>1 DEF Settled
  <2> QED  BY <2>2 DEF WishInv
<1> QED  BY <1>1, <1>2, <1>3, PTL DEF Spec
=============================================================================
