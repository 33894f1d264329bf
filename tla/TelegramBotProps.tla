-------------------------- MODULE TelegramBotProps --------------------------
(***************************************************************************)
(* What the command bot owes the user who writes to it.                    *)
(***************************************************************************)
EXTENDS TelegramBot

\* Type invariant: the offset never leaves the updates, the batch is what is
\* left of one getUpdates.
TypeOK ==
    /\ updates \in Seq(Updates) /\ Len(updates) <= MaxUpdates
    /\ confirmed \in 0..Len(updates)
    /\ pc \in {"pass", "wait", "handle", "reply"}
    /\ offset \in 1..Len(updates) + 1 /\ saved \in 1..Len(updates) + 1
    /\ batch \in Seq(1..Len(updates)) /\ Len(batch) <= Limit
    /\ pc \in {"pass", "wait"} => batch = <<>>
    /\ muted \in BOOLEAN /\ file \in {"muted", "loud", "unreadable"}
    /\ web \in {"muted", "loud", "unread"}
    /\ acks \in [Signals -> {NoAck, "taken", "seen"}]
    /\ handled \subseteq 1..Len(updates) /\ refused \subseteq handled
    /\ unsaved \in BOOLEAN
    /\ crashes \in 0..MaxCrashes

\* Whatever Telegram has forgotten was handled: batches cut short by an error,
\* failed requests, failed saves and restarts repeat commands but never skip
\* one (poll_once, telegram_commands.py:189-225).
NoUpdateIsSkipped == 1..confirmed \subseteq handled

LastOf(kinds) ==
    LET ids == {i \in 1..Len(updates) : updates[i] \in kinds}
    IN  IF ids = {} THEN 0 ELSE CHOOSE i \in ids : \A j \in ids : j <= i

Switches == {u \in Updates : u.kind \in {"mute", "unmute"}}
PressesOf(s) == {u \in Presses : u.signal = s}

\* Once the bot has caught up, it is muted exactly if the user's last switch
\* was /mute and every signal carries the last press: a command that a restart
\* runs a second time never leaves an older decision behind (MuteState,
\* telegram_commands.py:56-91; AckStore.record, acknowledgement.py:106-140).
\* Excepted, as the code says: a mute file that could not be written, and a
\* press the user was asked to repeat.
CaughtUpMeansLastWish ==
    pc \in {"pass", "wait"} /\ offset > Len(updates) =>
        /\ unsaved \/ muted = (LastOf(Switches) # 0
                               /\ updates[LastOf(Switches)].kind = "mute")
        /\ \A s \in Signals :
             \/ \E i \in refused : updates[i] \in PressesOf(s)
             \/ acks[s] = IF LastOf(PressesOf(s)) = 0 THEN NoAck
                          ELSE updates[LastOf(PressesOf(s))].action

\* Every update is handled in the end: neither a message of a stranger nor a
\* batch that fails half-way holds the queue up (telegram_commands.py:212-214).
EveryUpdateIsHandled ==
    \A i \in 1..MaxUpdates : [](Len(updates) >= i => <>(i \in handled))

\* "The mute state must be one instance for the whole program", or messages
\* keep coming after /mute (bootstrap.py:396-398): once the bot has caught up
\* with a /mute, no process has it as not muted.
DashboardIsMutedToo ==
    pc = "pass" /\ offset > Len(updates) /\ muted /\ ~unsaved => web # "loud"
=============================================================================
