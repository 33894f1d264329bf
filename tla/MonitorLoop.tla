---------------------------- MODULE MonitorLoop -----------------------------
(***************************************************************************)
(* run_loop of main.py with its health checks (monitoring/health.py) and   *)
(* its periodic reports (monitoring/periodic_report.py): one thread that   *)
(* passes over the market, runs the checks one after the other, sends the  *)
(* reports that are due, and waits. What a check or a report sent last is  *)
(* a file, so it outlives the process; the counters do not.                *)
(*                                                                         *)
(* Time is kept as ages, counted in ticks and capped where the code no     *)
(* longer tells them apart.                                                *)
(***************************************************************************)
EXTENDS Integers, FiniteSets, Sequences

CONSTANTS
    Strategies,         \* names of the strategies that may raise
    MaxErrors,          \* bound: errors of one strategy in one pass (symbols)
    DataWarning,        \* data_warning_failures
    DataCritical,       \* data_critical_failures
    ErrorThreshold,     \* strategy_error_threshold
    DroughtWarning,     \* drought_warning_days, in ticks
    DroughtCritical,    \* drought_critical_days, in ticks
    Cooldown,           \* alert_cooldown_hours, in ticks
    PeriodLength,       \* [Periods -> ticks]
    Waits,              \* lengths of a wait: one interval, or a laptop asleep
    MaxCrashes          \* bound: how often the process dies

Periods == {"daily", "weekly"}

ASSUME LoopAssumption ==
    /\ MaxErrors \in Nat
    /\ DataWarning \in Nat \ {0} /\ DataCritical \in Nat /\ DataWarning <= DataCritical
    /\ ErrorThreshold \in Nat \ {0}
    /\ DroughtWarning \in Nat /\ DroughtCritical \in Nat /\ DroughtWarning <= DroughtCritical
    /\ Cooldown \in Nat \ {0}
    /\ PeriodLength \in [Periods -> Nat \ {0}]
    /\ Waits \subseteq Nat \ {0}
    /\ MaxCrashes \in Nat

VARIABLES
    pc,         \* step of the loop
    at,         \* index of the check, or of the period, being processed
    feed,       \* is the data source "up" or "down"?
    failures,   \* consecutive_data_failures
    errors,     \* HealthMonitor.strategy_errors, per strategy
    silence,    \* age of the last logged signal, or Never
    checks,     \* the statuses HealthMonitor.run returned in this pass
    sent,       \* AlertThrottle._sent, in memory and in its file
    schedule,   \* ReportSchedule._sent, in memory and in its file
    heard,      \* history: the last alert announced since the check was last fine
    reported,   \* history: age of the last report that reached a channel
    crashes     \* history: how often the process died

vars == <<pc, at, feed, failures, errors, silence, checks, sent, schedule,
          heard, reported, crashes>>

OK == 0
WARNING == 1
CRITICAL == 2
Statuses == {OK, WARNING, CRITICAL}

CheckOrder == <<"signal_drought", "data_source", "strategy_errors", "stale_quotes">>
Keys == {CheckOrder[i] : i \in 1..Len(CheckOrder)}
PeriodOrder == <<"daily", "weekly">>

Never == -1
NothingSent == [status |-> OK, age |-> Never]
NoAlerts == [k \in Keys |-> NothingSent]
NoReports == [p \in Periods |-> Never]

Cap(n, limit) == IF n > limit THEN limit ELSE n
Older(age, d, limit) == IF age = Never THEN Never ELSE Cap(age + d, limit)

-----------------------------------------------------------------------------
(* The checks.                                                             *)

check_signal_drought(age) ==
    IF age = Never THEN WARNING
    ELSE IF age >= DroughtCritical THEN CRITICAL
    ELSE IF age >= DroughtWarning THEN WARNING ELSE OK

check_data_source(consecutive) ==
    IF consecutive >= DataCritical THEN CRITICAL
    ELSE IF consecutive >= DataWarning THEN WARNING ELSE OK

check_strategy_errors(counts) ==
    LET broken == {s \in Strategies : counts[s] >= ErrorThreshold} IN
    IF broken = {} THEN OK ELSE IF Cardinality(broken) > 1 THEN CRITICAL ELSE WARNING

\* The loop passes no ratio of missing quotes, so that check is always OK.
\* A signal log that cannot be read counts as one without signals.
RunChecks(lastSignal, consecutive, counts) ==
    [k \in Keys |->
        CASE k = "signal_drought"  -> check_signal_drought(lastSignal)
          [] k = "data_source"     -> check_data_source(consecutive)
          [] k = "strategy_errors" -> check_strategy_errors(counts)
          [] k = "stale_quotes"    -> OK]

\* Mutant: an alert is never repeated.
should_send_once(record, status) ==
    /\ status # OK
    /\ record.age = Never \/ status > record.status

should_send(record, status) ==
    /\ status # OK
    /\ \/ record.age = Never
       \/ status > record.status
       \/ record.age >= Cooldown

-----------------------------------------------------------------------------
Init ==
    /\ pc = "pass" /\ at = 1 /\ feed = "up"
    /\ failures = 0
    /\ errors = [s \in Strategies |-> 0]
    /\ silence = Never
    /\ checks = [k \in Keys |-> OK]
    /\ sent = [memory |-> NoAlerts, file |-> NoAlerts]
    /\ schedule = [memory |-> NoReports, file |-> NoReports]
    /\ heard = NoAlerts
    /\ reported = NoReports
    /\ crashes = 0

Goto(step, index) == pc' = step /\ at' = index

\* The market is closed: no pass and no checks.
SkipPass ==
    /\ pc = "pass"
    /\ Goto("report", 1)
    /\ UNCHANGED <<feed, failures, errors, silence, checks, sent, schedule,
                   heard, reported, crashes>>

\* record_data_failure when every symbol failed, record_data_success otherwise.
CountedFailures == IF feed = "down" THEN Cap(failures + 1, DataCritical) ELSE 0

\* run_cycle, then the counters and the checks of _check_health. With the
\* feed down no strategy runs; otherwise any strategy may raise on some
\* symbols, and a signal may be emitted and logged.
RunPass ==
    /\ pc = "pass"
    /\ \E raised \in [Strategies -> 0..MaxErrors], emitted, readable \in BOOLEAN :
         /\ feed = "down" => ~emitted /\ raised = [s \in Strategies |-> 0]
         /\ failures' = CountedFailures
         /\ errors' = [s \in Strategies |-> Cap(errors[s] + raised[s], ErrorThreshold)]
         /\ silence' = IF emitted THEN 0 ELSE silence
         /\ checks' = RunChecks(IF readable THEN silence' ELSE Never, failures', errors')
    /\ Goto("check", 1)
    /\ UNCHANGED <<feed, sent, schedule, heard, reported, crashes>>

-----------------------------------------------------------------------------
Key == CheckOrder[at]
\* Mutant: the loop over the checks runs one step too far.
AfterCheckOneMore ==
    /\ Goto(IF at > Len(CheckOrder) THEN "report" ELSE "check", at + 1)
    /\ UNCHANGED checks

\* The next check; the list of checks is gone after the last.
AfterCheck ==
    IF at = Len(CheckOrder)
    THEN Goto("report", 1) /\ checks' = [k \in Keys |-> OK]
    ELSE Goto("check", at + 1) /\ UNCHANGED checks

\* _announce sends to every channel and ignores what they answer.
AnnounceAlert ==
    /\ pc = "check"
    /\ should_send(sent.memory[Key], checks[Key])
    /\ heard' = [heard EXCEPT ![Key] = [status |-> checks[Key], age |-> 0]]
    /\ Goto("record", at)
    /\ UNCHANGED <<feed, failures, errors, silence, checks, sent, schedule,
                   reported, crashes>>

\* Mutant: the record is kept in memory only.
RecordAlertInMemory ==
    /\ pc = "record"
    /\ sent' = [sent EXCEPT !.memory[Key] = [status |-> checks[Key], age |-> 0]]
    /\ AfterCheck
    /\ UNCHANGED <<feed, failures, errors, silence, schedule, heard, reported, crashes>>

\* record saves the whole file.
RecordAlert ==
    /\ pc = "record"
    /\ LET now == [sent.memory EXCEPT ![Key] = [status |-> checks[Key], age |-> 0]] IN
       sent' = [memory |-> now, file |-> now]
    /\ AfterCheck
    /\ UNCHANGED <<feed, failures, errors, silence, schedule, heard, reported, crashes>>

\* Mutant: a check that is fine again leaves its record.
PassCheckKeepsRecord ==
    /\ pc = "check"
    /\ ~should_send(sent.memory[Key], checks[Key])
    /\ heard' = IF checks[Key] = OK THEN [heard EXCEPT ![Key] = NothingSent] ELSE heard
    /\ AfterCheck
    /\ UNCHANGED <<feed, failures, errors, silence, sent, schedule,
                   reported, crashes>>

\* Nothing to send; a check that is fine again clears its record and saves.
PassCheck ==
    /\ pc = "check"
    /\ ~should_send(sent.memory[Key], checks[Key])
    /\ IF checks[Key] = OK /\ sent.memory[Key] # NothingSent
       THEN LET now == [sent.memory EXCEPT ![Key] = NothingSent] IN
            sent' = [memory |-> now, file |-> now]
       ELSE UNCHANGED sent
    /\ heard' = IF checks[Key] = OK THEN [heard EXCEPT ![Key] = NothingSent] ELSE heard
    /\ AfterCheck
    /\ UNCHANGED <<feed, failures, errors, silence, schedule,
                   reported, crashes>>

-----------------------------------------------------------------------------
Period == PeriodOrder[at]
AfterReport == IF at = Len(PeriodOrder) THEN Goto("wait", 1) ELSE Goto("report", at + 1)
Marked(p) == LET now == [schedule.memory EXCEPT ![p] = 0] IN [memory |-> now, file |-> now]
due(p) == schedule.memory[p] = PeriodLength[p]

\* Mutant: a report that is not due yet is postponed by a whole period.
SkipReportPostpones ==
    /\ pc = "report"
    /\ ~due(Period)
    /\ schedule' = Marked(Period)
    /\ AfterReport
    /\ UNCHANGED <<feed, failures, errors, silence, checks, sent, heard,
                   reported, crashes>>

\* is_due: the first time is only written down.
SkipReport ==
    /\ pc = "report"
    /\ ~due(Period)
    /\ schedule' = IF schedule.memory[Period] = Never THEN Marked(Period) ELSE schedule
    /\ AfterReport
    /\ UNCHANGED <<feed, failures, errors, silence, checks, sent, heard,
                   reported, crashes>>

\* Building the report failed (a locked database): it stays due.
ReportFails ==
    /\ pc = "report"
    /\ due(Period)
    /\ AfterReport
    /\ UNCHANGED <<feed, failures, errors, silence, checks, sent, schedule,
                   heard, reported, crashes>>

AnnounceReport ==
    /\ pc = "report"
    /\ due(Period)
    /\ \E delivered \in BOOLEAN :
         reported' = IF delivered THEN [reported EXCEPT ![Period] = 0] ELSE reported
    /\ Goto("mark", at)
    /\ UNCHANGED <<feed, failures, errors, silence, checks, sent, schedule,
                   heard, crashes>>

\* Mutant: what was sent is not written down.
MarkSentForgets ==
    /\ pc = "mark"
    /\ AfterReport
    /\ UNCHANGED <<feed, failures, errors, silence, checks, sent, schedule, heard, reported, crashes>>

mark_sent ==
    /\ pc = "mark"
    /\ schedule' = Marked(Period)
    /\ AfterReport
    /\ UNCHANGED <<feed, failures, errors, silence, checks, sent, heard,
                   reported, crashes>>

Aged(records, d) == [k \in Keys |-> [records[k] EXCEPT !.age = Older(@, d, Cooldown)]]
AgedReports(ages, d) == [p \in Periods |-> Older(ages[p], d, PeriodLength[p])]

Wait ==
    /\ pc = "wait"
    /\ \E d \in Waits :
         /\ silence' = Older(silence, d, DroughtCritical)
         /\ sent' = [memory |-> Aged(sent.memory, d), file |-> Aged(sent.file, d)]
         /\ schedule' = [memory |-> AgedReports(schedule.memory, d),
                         file |-> AgedReports(schedule.file, d)]
         /\ heard' = Aged(heard, d)
         /\ reported' = AgedReports(reported, d)
    /\ Goto("pass", 1)
    /\ UNCHANGED <<feed, failures, errors, checks, crashes>>

-----------------------------------------------------------------------------
\* The process dies and is started again: the counters start from zero, the
\* files are read back. A file that was being written when the process died
\* is found unreadable and taken for empty; what it said was announced is
\* forgotten by the history too. What was announced but not yet recorded may
\* be announced again.
Restart(alertsLost, reportsLost) ==
    LET alerts == IF alertsLost THEN NoAlerts ELSE sent.file
        reports == IF reportsLost THEN NoReports ELSE schedule.file
    IN
    /\ crashes < MaxCrashes
    /\ crashes' = crashes + 1
    /\ Goto("pass", 1)
    /\ failures' = 0
    /\ errors' = [s \in Strategies |-> 0]
    /\ sent' = [memory |-> alerts, file |-> alerts]
    /\ schedule' = [memory |-> reports, file |-> reports]
    /\ heard' = IF alertsLost THEN NoAlerts
                ELSE IF pc = "record" THEN [heard EXCEPT ![Key].age = Cooldown] ELSE heard
    /\ reported' = IF reportsLost THEN NoReports
                   ELSE IF pc = "mark" THEN [reported EXCEPT ![Period] = Never] ELSE reported
    /\ checks' = [k \in Keys |-> OK]
    /\ UNCHANGED <<feed, silence>>

Crash == Restart(FALSE, FALSE)

CrashSavingAlerts ==
    /\ \/ pc = "record"
       \/ pc = "check" /\ checks[Key] = OK /\ sent.memory[Key] # NothingSent
    /\ Restart(TRUE, FALSE)

CrashSavingReports ==
    /\ pc = "mark" \/ (pc = "report" /\ schedule.memory[Period] = Never)
    /\ Restart(FALSE, TRUE)

\* The data source fails or comes back; only a pass looks at it.
FeedChanges ==
    /\ pc = "pass"
    /\ feed' = IF feed = "up" THEN "down" ELSE "up"
    /\ UNCHANGED <<pc, at, failures, errors, silence, checks, sent, schedule,
                   heard, reported, crashes>>

Loop ==
    \/ SkipPass \/ RunPass
    \/ AnnounceAlert \/ RecordAlert \/ PassCheck
    \/ SkipReport \/ ReportFails \/ AnnounceReport \/ mark_sent
    \/ Wait

Next == Loop \/ FeedChanges \/ Crash \/ CrashSavingAlerts \/ CrashSavingReports

Spec == Init /\ [][Next]_vars

\* Fairness. The loop always takes its next step; the market opens again and
\* again; no report that is due is unbuildable for ever.
FairSpec ==
    /\ Spec
    /\ WF_vars(Loop) /\ SF_vars(RunPass)
    /\ \A p \in Periods : SF_vars(AnnounceReport /\ Period = p)
=============================================================================
