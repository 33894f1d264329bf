---------------------------- MODULE SharedFiles ----------------------------
(* Two files that several processes and requests read whole, change in     *)
(* memory and write whole, with no lock: the history of implied volatility *)
(* (the bot's context lives for days, one of the dashboard for a request)  *)
(* and settings.yaml (patched by the requests of the dashboard's threads). *)
(* Path.write_text truncates the file and then writes it: whoever reads in *)
(* between finds nothing.                                                  *)
EXTENDS Naturals

CONSTANTS
    Contexts,   \* contexts of the bot and of the dashboard's requests
    Symbols,    \* underlyings whose volatility is recorded
    MaxDays,    \* days a point of the history is kept
    LastDay,    \* bound: the last day looked at
    Requests,   \* requests that may patch the settings
    Keys,       \* leaves of the settings, as <<section, name>>
    Values,     \* values a request may give one
    MaxPatches, \* bound: patches looked at
    Example,    \* the leaves of the example file the settings start from
    Unset       \* a leaf the file does not hold

ASSUME SharedFilesAssumption ==
    /\ MaxDays \in Nat
    /\ LastDay \in Nat
    /\ MaxPatches \in Nat
    /\ Example \in [Keys -> Values]
    /\ Unset \notin Values

VARIABLES
    today,
    file,       \* the points in the file, and whether it is whole
    alive,      \* per context: where it is
    memory,     \* per context: its _data
    saved,      \* points ever written (history)
    orderly,    \* no two contexts overlapped, none died or failed while writing (history)
    settings,   \* the leaves in the file of the settings
    stage,      \* per request: where it is
    base,       \* per request: the leaves it read
    patch,      \* per request: the leaves it changes
    patches,    \* patches begun
    wanted,     \* what the finished patches asked for (history)
    inTurn      \* no two patches overlapped, none died while writing (history)

historyVars == <<today, file, alive, memory, saved, orderly>>
settingsVars == <<settings, stage, base, patch, patches, wanted, inTurn>>

Points == Symbols \X (1..LastDay)
NoFile == [whole |-> TRUE, points |-> {}]
Torn == [whole |-> FALSE, points |-> {}]

-----------------------------------------------------------------------------
(* The history of implied volatility.                                      *)

HistoryInit ==
    /\ today = 1
    /\ file = NoFile
    /\ alive = [c \in Contexts |-> "gone"]
    /\ memory = [c \in Contexts |-> {}]
    /\ saved = {}
    /\ orderly = TRUE

\* Mutant of Loaded: only today's points are taken over.
LoadedToday == {p \in file.points : p[2] = today}

\* A file that is missing, torn or unreadable is an empty history.
Loaded == file.points

\* create_app, in the bot or for a request.
Create(c) ==
    /\ alive[c] = "gone"
    /\ alive' = [alive EXCEPT ![c] = "up"]
    /\ memory' = [memory EXCEPT ![c] = Loaded]
    /\ orderly' = (orderly /\ \A d \in Contexts : alive[d] = "gone")
    /\ UNCHANGED <<today, file, saved>>

\* A point of the symbol that is recorded goes once it is too old.
Pruned(points, s) == {p \in points : p[1] = s => p[2] + MaxDays >= today}

\* The generator records one point a day for each symbol and saves at once.
Record(c, s) ==
    /\ alive[c] = "up"
    /\ memory' = [memory EXCEPT ![c] = Pruned(@ \union {<<s, today>>}, s)]
    /\ alive' = [alive EXCEPT ![c] = "saving"]
    /\ UNCHANGED <<today, file, saved, orderly>>

Truncate(c) ==
    /\ alive[c] = "saving"
    /\ file' = Torn
    /\ alive' = [alive EXCEPT ![c] = "writing"]
    /\ UNCHANGED <<today, memory, saved, orderly>>

\* The file cannot be opened: the error is logged and the context goes on.
OpenFails(c) ==
    /\ alive[c] = "saving"
    /\ alive' = [alive EXCEPT ![c] = "up"]
    /\ UNCHANGED <<today, file, memory, saved, orderly>>

Write(c) ==
    /\ alive[c] = "writing"
    /\ file' = [whole |-> TRUE, points |-> memory[c]]
    /\ saved' = saved \union memory[c]
    /\ alive' = [alive EXCEPT ![c] = "up"]
    /\ UNCHANGED <<today, memory, orderly>>

\* The disk is full: logged too, and the file stays torn.
WriteFails(c) ==
    /\ alive[c] = "writing"
    /\ orderly' = FALSE
    /\ alive' = [alive EXCEPT ![c] = "up"]
    /\ UNCHANGED <<today, file, memory, saved>>

\* The request is over, or the process is stopped or dies, wherever it is.
End(c) ==
    /\ alive[c] # "gone"
    /\ alive' = [alive EXCEPT ![c] = "gone"]
    /\ memory' = [memory EXCEPT ![c] = {}]
    /\ orderly' = (orderly /\ alive[c] # "writing")
    /\ UNCHANGED <<today, file, saved>>

NextDay ==
    /\ today < LastDay
    /\ today' = today + 1
    /\ UNCHANGED <<file, alive, memory, saved, orderly>>

HistoryNext ==
    \/ \E c \in Contexts :
          \/ Create(c)
          \/ \E s \in Symbols : Record(c, s)
          \/ Truncate(c)
          \/ OpenFails(c)
          \/ Write(c)
          \/ WriteFails(c)
          \/ End(c)
    \/ NextDay

HistorySpec == HistoryInit /\ [][HistoryNext]_historyVars

-----------------------------------------------------------------------------
(* settings.yaml.                                                          *)

Nothing == [k \in {} |-> Unset]
NoSettings == [k \in Keys |-> Unset]

\* The first request copies the example file.
SettingsInit ==
    /\ settings = Example
    /\ wanted = Example
    /\ stage = [r \in Requests |-> "idle"]
    /\ base = [r \in Requests |-> NoSettings]
    /\ patch = [r \in Requests |-> Nothing]
    /\ patches = 0
    /\ inTurn = TRUE

\* Mutant of DeepMerge: a section that is patched is replaced whole.
ShallowMerge(leaves, change) ==
    [k \in Keys |-> IF k \in DOMAIN change THEN change[k]
                    ELSE IF \E j \in DOMAIN change : j[1] = k[1] THEN Unset ELSE leaves[k]]

\* The leaves of the patch win, every other leaf stays.
DeepMerge(leaves, change) == [k \in Keys |-> IF k \in DOMAIN change THEN change[k] ELSE leaves[k]]

\* An endpoint accepts only a patch that changes something, and the leaves of
\* one section.
Patches == UNION {[K -> Values] : K \in {J \in SUBSET Keys : J # {} /\ \A j, k \in J : j[1] = k[1]}}

ReadSettings(r, change) ==
    /\ stage[r] = "idle"
    /\ patches < MaxPatches
    /\ patches' = patches + 1
    /\ stage' = [stage EXCEPT ![r] = "read"]
    /\ base' = [base EXCEPT ![r] = settings]
    /\ patch' = [patch EXCEPT ![r] = change]
    /\ inTurn' = (inTurn /\ \A q \in Requests : stage[q] = "idle")
    /\ UNCHANGED <<settings, wanted>>

TruncateSettings(r) ==
    /\ stage[r] = "read"
    /\ settings' = NoSettings
    /\ stage' = [stage EXCEPT ![r] = "writing"]
    /\ UNCHANGED <<base, patch, patches, wanted, inTurn>>

WriteSettings(r) ==
    /\ stage[r] = "writing"
    /\ settings' = DeepMerge(base[r], patch[r])
    /\ wanted' = [k \in Keys |-> IF k \in DOMAIN patch[r] THEN patch[r][k] ELSE wanted[k]]
    /\ stage' = [stage EXCEPT ![r] = "idle"]
    /\ base' = [base EXCEPT ![r] = NoSettings]
    /\ patch' = [patch EXCEPT ![r] = Nothing]
    /\ UNCHANGED <<patches, inTurn>>

\* The server dies with the request under way.
AbandonSettings(r) ==
    /\ stage[r] # "idle"
    /\ stage' = [stage EXCEPT ![r] = "idle"]
    /\ base' = [base EXCEPT ![r] = NoSettings]
    /\ patch' = [patch EXCEPT ![r] = Nothing]
    /\ inTurn' = (inTurn /\ stage[r] # "writing")
    /\ UNCHANGED <<settings, patches, wanted>>

SettingsNext ==
    \E r \in Requests :
       \/ \E change \in Patches : ReadSettings(r, change)
       \/ TruncateSettings(r)
       \/ WriteSettings(r)
       \/ AbandonSettings(r)

SettingsSpec == SettingsInit /\ [][SettingsNext]_settingsVars
=============================================================================
