----------------------------- MODULE TelegramBot ----------------------------
(***************************************************************************)
(* The command bot (notifiers/telegram_commands.py) inside the loop of     *)
(* main.py, with what its commands write: the mute state, read by every    *)
(* notifier, and the acknowledgements of signals. Telegram keeps the       *)
(* user's updates until a getUpdates with a higher offset confirms them.   *)
(* The dashboard is a second process that sends the signals of its scans   *)
(* with a mute state of its own.                                           *)
(***************************************************************************)
EXTENDS Integers, Sequences

CONSTANTS
    Signals,        \* signals whose buttons can be pressed
    Limit,          \* limit of one getUpdates
    MaxUpdates,     \* bound: updates the chats send
    MaxCrashes      \* bound: how often the bot process dies

ASSUME BotAssumption ==
    /\ Limit \in Nat \ {0}
    /\ MaxUpdates \in Nat /\ MaxCrashes \in Nat

\* What an update asks for. A "foreign" one comes from another chat or is no
\* command; a "read" command only answers.
Presses == [kind : {"press"}, signal : Signals, action : {"taken", "seen"}]
Plain == {[kind |-> k] : k \in {"mute", "unmute", "read", "foreign"}}
Updates == Presses \union Plain

NoAck == "none"
Switch(on) == IF on THEN "muted" ELSE "loud"

VARIABLES
    updates,    \* every update ever sent; an update's id is its index
    confirmed,  \* updates up to this id are gone from Telegram
    pc,         \* step of the bot's thread
    offset,     \* _offset
    saved,      \* the offset in its file
    batch,      \* ids of the fetched updates not yet looked at
    muted,      \* MuteState.muted of the bot process
    file,       \* the mute file: "muted", "loud" or "unreadable"
    web,        \* the dashboard's MuteState, "unread" before its first scan
    acks,       \* table signal_acks: the action recorded for each signal
    handled,    \* history: ids executed, answered or turned away at least once
    refused,    \* history: presses that could not be recorded some time
    unsaved,    \* history: a write of the mute file failed
    crashes     \* history: how often the bot died

vars == <<updates, confirmed, pc, offset, saved, batch, muted, file, web, acks,
          handled, refused, unsaved, crashes>>

Init ==
    /\ updates = <<>> /\ confirmed = 0
    /\ pc = "pass"
    /\ offset = 1 /\ saved = 1 /\ batch = <<>>
    /\ muted = FALSE /\ file = "loud" /\ web = "unread"
    /\ acks = [s \in Signals |-> NoAck]
    /\ handled = {} /\ refused = {} /\ unsaved = FALSE
    /\ crashes = 0

-----------------------------------------------------------------------------
\* External: somebody writes to the bot or presses a button.
ChatSends ==
    /\ Len(updates) < MaxUpdates
    /\ \E u \in Updates : updates' = Append(updates, u)
    /\ UNCHANGED <<confirmed, pc, offset, saved, batch, muted, file, web, acks,
                   handled, refused, unsaved, crashes>>

\* run_cycle has sent its signals, unless muted; the wait begins.
EndPass ==
    /\ pc = "pass"
    /\ pc' = "wait"
    /\ UNCHANGED <<updates, confirmed, offset, saved, batch, muted, file, web, acks,
                   handled, refused, unsaved, crashes>>

\* The wait is over; the next pass begins.
EndWait ==
    /\ pc = "wait"
    /\ pc' = "pass"
    /\ UNCHANGED <<updates, confirmed, offset, saved, batch, muted, file, web, acks,
                   handled, refused, unsaved, crashes>>

\* External: an offset confirms every update below it.
Confirm == confirmed' = IF offset - 1 > confirmed THEN offset - 1 ELSE confirmed

\* The oldest update Telegram has kept that the offset does not turn down.
FetchFrom == IF offset > confirmed THEN offset ELSE confirmed + 1
Pending == Len(updates) - FetchFrom + 1

\* Mutant: the limit is not passed on.
FetchedAll == [k \in 1..Pending |-> FetchFrom + k - 1]

\* External: the first unconfirmed updates, oldest first.
Fetched == [k \in 1..(IF Pending > Limit THEN Limit ELSE Pending) |-> FetchFrom + k - 1]

\* poll_once: getUpdates succeeds.
Poll ==
    /\ pc = "wait"
    /\ Confirm
    /\ batch' = Fetched
    /\ pc' = "handle"
    /\ UNCHANGED <<updates, offset, saved, muted, file, web, acks,
                   handled, refused, unsaved, crashes>>

\* getUpdates fails: before Telegram saw it, or only its answer is lost.
PollFails ==
    /\ pc = "wait"
    /\ Confirm
    /\ UNCHANGED <<updates, pc, offset, saved, batch, muted, file, web, acks,
                   handled, refused, unsaved, crashes>>

-----------------------------------------------------------------------------
Update == updates[Head(batch)]

\* Mutant: only what concerns us moves the offset.
AdvanceOwn ==
    /\ offset' = IF Update.kind # "foreign" /\ Head(batch) + 1 > offset
                 THEN Head(batch) + 1 ELSE offset
    /\ batch' = Tail(batch)
    /\ handled' = handled \union {Head(batch)}

\* Mutant: the first update moves the offset past the whole batch.
AdvanceBatch ==
    /\ offset' = batch[Len(batch)] + 1
    /\ batch' = Tail(batch)
    /\ handled' = handled \union {Head(batch)}

\* The offset moves past an update before it is looked at, whoever sent it.
Advance ==
    /\ offset' = IF Head(batch) + 1 > offset THEN Head(batch) + 1 ELSE offset
    /\ batch' = Tail(batch)
    /\ handled' = handled \union {Head(batch)}

\* A message of another chat gets no answer; its buttons get a refusal.
HandleForeign ==
    /\ pc = "handle" /\ batch # <<>> /\ Update.kind = "foreign"
    /\ Advance
    /\ pc' \in {"handle", "reply"}
    /\ UNCHANGED <<updates, confirmed, saved, muted, file, web, acks, refused,
                   unsaved, crashes>>

\* /signals, /status, /report, /help, and handlers that raise.
HandleRead ==
    /\ pc = "handle" /\ batch # <<>> /\ Update.kind = "read"
    /\ Advance
    /\ pc' = "reply"
    /\ UNCHANGED <<updates, confirmed, saved, muted, file, web, acks, refused,
                   unsaved, crashes>>

\* Mutant: only the memory of this process is set.
SetMuteInMemory ==
    /\ pc = "handle" /\ batch # <<>> /\ Update.kind \in {"mute", "unmute"}
    /\ Advance
    /\ muted' = (Update.kind = "mute")
    /\ pc' = "reply"
    /\ UNCHANGED <<updates, confirmed, saved, file, web, acks, refused, unsaved, crashes>>

\* /mute and /unmute: MuteState.set. A file that cannot be written is kept.
SetMute ==
    /\ pc = "handle" /\ batch # <<>> /\ Update.kind \in {"mute", "unmute"}
    /\ Advance
    /\ muted' = (Update.kind = "mute")
    /\ \/ file' = Switch(muted') /\ UNCHANGED unsaved
       \/ unsaved' = TRUE /\ UNCHANGED file
    /\ pc' = "reply"
    /\ UNCHANGED <<updates, confirmed, saved, web, acks, refused, crashes>>

\* A button of our chat: AckStore.record, last press wins. When the database
\* refuses, the user is asked to press again.
RecordAck ==
    /\ pc = "handle" /\ batch # <<>> /\ Update.kind = "press"
    /\ Advance
    /\ \/ acks' = [acks EXCEPT ![Update.signal] = Update.action] /\ UNCHANGED refused
       \/ refused' = refused \union {Head(batch)} /\ UNCHANGED acks
    /\ pc' = "reply"
    /\ UNCHANGED <<updates, confirmed, saved, muted, file, web, unsaved, crashes>>

\* The answer is sent, or refused by Telegram: the batch goes on.
Reply ==
    /\ pc = "reply"
    /\ pc' = "handle"
    /\ UNCHANGED <<updates, confirmed, offset, saved, batch, muted, file, web, acks,
                   handled, refused, unsaved, crashes>>

\* Sending the answer raises what _call does not catch (an HTTPException):
\* _poll_commands swallows it, the rest of the batch and the save are skipped.
ReplyRaises ==
    /\ pc = "reply"
    /\ batch' = <<>>
    /\ pc' = "wait"
    /\ UNCHANGED <<updates, confirmed, offset, saved, muted, file, web, acks,
                   handled, refused, unsaved, crashes>>

\* The end of poll_once; the file may be unwritable.
SaveOffset ==
    /\ pc = "handle" /\ batch = <<>>
    /\ saved' \in {offset, saved}
    /\ pc' = "wait"
    /\ UNCHANGED <<updates, confirmed, offset, batch, muted, file, web, acks,
                   handled, refused, unsaved, crashes>>

-----------------------------------------------------------------------------
\* The process dies and is started again from its files; an unreadable mute
\* file counts as not muted, an unreadable offset file as no offset.
Restart(muteFile, offsetFile) ==
    /\ crashes < MaxCrashes
    /\ crashes' = crashes + 1
    /\ pc' = "pass" /\ batch' = <<>>
    /\ file' = muteFile /\ muted' = (muteFile = "muted")
    /\ saved' = offsetFile /\ offset' = offsetFile
    /\ UNCHANGED <<updates, confirmed, web, acks, handled, refused, unsaved>>

Crash == Restart(file, saved)

\* write_text empties the file before it writes.
CrashSavingMute ==
    /\ pc = "handle" /\ batch # <<>> /\ Update.kind \in {"mute", "unmute"}
    /\ Restart("unreadable", saved)

CrashSavingOffset ==
    /\ pc = "handle" /\ batch = <<>>
    /\ Restart(file, 1)

\* The dashboard's first scan reads the mute file, later ones keep the result.
WebScan ==
    /\ web' = IF web = "unread" THEN Switch(file = "muted") ELSE web
    /\ UNCHANGED <<updates, confirmed, pc, offset, saved, batch, muted, file, acks,
                   handled, refused, unsaved, crashes>>

WebRestarts ==
    /\ web' = "unread"
    /\ UNCHANGED <<updates, confirmed, pc, offset, saved, batch, muted, file, acks,
                   handled, refused, unsaved, crashes>>

Thread ==
    \/ EndPass \/ EndWait \/ Poll \/ PollFails
    \/ HandleForeign \/ HandleRead \/ SetMute \/ RecordAck
    \/ Reply \/ ReplyRaises \/ SaveOffset

Next ==
    \/ Thread \/ ChatSends
    \/ Crash \/ CrashSavingMute \/ CrashSavingOffset
    \/ WebScan \/ WebRestarts

Spec == Init /\ [][Next]_vars

\* The bot's thread never stops for good, and getUpdates succeeds again and
\* again.
FairSpec == Spec /\ WF_vars(Thread) /\ SF_vars(Poll)
=============================================================================
