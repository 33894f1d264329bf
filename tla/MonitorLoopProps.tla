-------------------------- MODULE MonitorLoopProps --------------------------
(***************************************************************************)
(* What the health alerts and the periodic reports of the loop should do.  *)
(***************************************************************************)
EXTENDS MonitorLoop

Records(limit) == [status : Statuses, age : {Never} \union 0..limit]
Ages(p) == {Never} \union 0..PeriodLength[p]

\* Type invariant: counters and ages stay within their caps, and the files
\* always hold what the loader of health.py and periodic_report.py accepts.
TypeOK ==
    /\ pc \in {"pass", "check", "record", "report", "mark", "wait"}
    /\ at \in 1..Len(CheckOrder)
    /\ pc \in {"report", "mark"} => at \in 1..Len(PeriodOrder)
    /\ feed \in {"up", "down"}
    /\ failures \in 0..DataCritical
    /\ errors \in [Strategies -> 0..ErrorThreshold]
    /\ silence \in {Never} \union 0..DroughtCritical
    /\ checks \in [Keys -> Statuses]
    /\ sent \in [memory : [Keys -> Records(Cooldown)], file : [Keys -> Records(Cooldown)]]
    /\ schedule \in [memory : [Periods -> Int], file : [Periods -> Int]]
    /\ \A p \in Periods : schedule.memory[p] \in Ages(p) /\ schedule.file[p] \in Ages(p)
    /\ heard \in [Keys -> Records(Cooldown)]
    /\ reported \in [Periods -> Int] /\ \A p \in Periods : reported[p] \in Ages(p)
    /\ crashes \in 0..MaxCrashes

\* An alert is not repeated within its cooldown unless it got worse or was
\* fine in between (AlertThrottle, health.py:196-267), restarts included.
NoFlood ==
    [][AnnounceAlert =>
          \/ heard[Key].age \in {Never, Cooldown}
          \/ checks[Key] > heard[Key].status]_vars

\* A check that has not been announced since it was last fine is announced in
\* the very pass that finds it failing (main.py:145-147), restarts included.
FreshAlertsAreAnnounced ==
    [][PassCheck /\ checks[Key] # OK => heard[Key] # NothingSent]_vars

\* A data source that never comes back is announced over and over: the
\* silent failure health.py:7-8 is about does not stay silent.
OutageIsRepeated ==
    <>[](feed = "down") => []<>(pc = "record" /\ Key = "data_source")

\* However long the process or the laptop was off, two reports of one period
\* are a whole period apart (periodic_report.py:17-19), unless the process
\* died before it wrote down that the first was sent.
ReportsAreSpaced ==
    [][AnnounceReport => reported[Period] \in {Never, PeriodLength[Period]}]_vars

\* Reports of every period keep coming.
ReportsKeepComing ==
    \A p \in Periods : []<>(pc = "mark" /\ Period = p)
=============================================================================
