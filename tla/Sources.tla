------------------------------ MODULE Sources ------------------------------
(* The feeds of a context and the two shared files, in one specification.  *)
(* The three share no variable, so a behaviour follows one of them.        *)
EXTENDS FeedsProps, SharedFilesProps

VARIABLE scene  \* which of the three this behaviour follows

sceneVars == <<vars, historyVars, settingsVars, scene>>

SourcesInit ==
    /\ scene \in {"feeds", "history", "settings"}
    /\ Init
    /\ scene # "feeds" => duty = {} /\ ~enriched
    /\ HistoryInit
    /\ SettingsInit

SourcesNext ==
    \/ scene = "feeds" /\ Next /\ UNCHANGED <<historyVars, settingsVars, scene>>
    \/ scene = "history" /\ HistoryNext /\ UNCHANGED <<vars, settingsVars, scene>>
    \/ scene = "settings" /\ SettingsNext /\ UNCHANGED <<vars, historyVars, scene>>

SourcesSpec ==
    /\ SourcesInit
    /\ [][SourcesNext]_sceneVars
    /\ WF_vars(scene = "feeds" /\ Proceed /\ UNCHANGED <<historyVars, settingsVars, scene>>)

\* Both files keep what they are given as long as those that write them take
\* turns (HistorySurvives and SettingsSurvive say of what, and since when).
FilesKeepWhatTheyAreGiven == HistorySurvives /\ SettingsSurvive
=============================================================================
