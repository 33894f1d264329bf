-------------------------- MODULE SharedFilesProps -------------------------
(* When the files keep what they are given.                                *)
EXTENDS SharedFiles

\* Points young enough to be kept.
Recent == {p \in saved : p[2] + MaxDays >= today}

\* As long as no two contexts lived at the same time and none died or failed
\* while writing, every recent point that was ever saved is still there, in
\* the file or in the memory of the one that is writing it; the context that
\* is alive knows it as well.  (With an overlap the last one to save drops
\* the other's points; after a torn write the next context starts empty and
\* its first save makes the loss final, iv_surface.py:281-308.)
HistorySurvives ==
    orderly => /\ file.whole => Recent \subseteq file.points
               /\ \A c \in Contexts : alive[c] # "gone" => Recent \subseteq memory[c]
               /\ ~file.whole => \E c \in Contexts : alive[c] = "writing"

\* As long as no two patches overlapped and none died while writing, every
\* leaf of the settings has the value the last patch that named it gave it,
\* and no patch of one leaf touched another (web/api.py:150-171).  (A patch
\* that reads while another has truncated the file writes back only itself.)
SettingsSurvive ==
    inTurn /\ (\A r \in Requests : stage[r] # "writing") => settings = wanted
=============================================================================
