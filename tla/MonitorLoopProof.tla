-------------------------- MODULE MonitorLoopProof --------------------------
(***************************************************************************)
(* Proofs about the loop, for any strategies, thresholds, cooldown and     *)
(* periods, any lengths of a wait and any number of restarts.              *)
(***************************************************************************)
EXTENDS MonitorLoopProps, TLAPS

LEMMA TheKeys ==
    /\ Keys = {"signal_drought", "data_source", "strategy_errors", "stale_quotes"}
    /\ Len(CheckOrder) = 4 /\ Len(PeriodOrder) = 2
    /\ \A i \in 1..2 : PeriodOrder[i] \in Periods
    /\ \A i \in 1..4 : CheckOrder[i] \in Keys
<1>1. Len(CheckOrder) = 4 /\ Len(PeriodOrder) = 2
  BY DEF CheckOrder, PeriodOrder
<1>2. \A i \in 1..2 : i = 1 \/ i = 2
  OBVIOUS
<1>3. \A i \in 1..2 : PeriodOrder[i] \in Periods
  BY <1>2 DEF PeriodOrder, Periods
<1>4. \A i \in 1..4 : i = 1 \/ i = 2 \/ i = 3 \/ i = 4
  OBVIOUS
<1>5. /\ CheckOrder[1] = "signal_drought" /\ CheckOrder[2] = "data_source"
      /\ CheckOrder[3] = "strategy_errors" /\ CheckOrder[4] = "stale_quotes"
  BY DEF CheckOrder
<1>6. Keys = {"signal_drought", "data_source", "strategy_errors", "stale_quotes"}
  BY <1>1, <1>4, <1>5 DEF Keys
<1>7. \A i \in 1..4 : CheckOrder[i] \in Keys
  BY <1>1 DEF Keys
<1> QED  BY <1>1, <1>3, <1>6, <1>7

\* A check answers one of the three statuses.
LEMMA ChecksTyped ==
    ASSUME NEW age, NEW n, NEW counts
    PROVE  RunChecks(age, n, counts) \in [Keys -> Statuses]
<1>1. /\ check_signal_drought(age) \in Statuses
      /\ check_data_source(n) \in Statuses
      /\ OK \in Statuses
  BY DEF check_signal_drought, check_data_source, Statuses, OK, WARNING, CRITICAL
<1>2. check_strategy_errors(counts) \in Statuses
  BY Zenon DEF check_strategy_errors, Statuses
<1> QED  BY <1>1, <1>2, TheKeys DEF RunChecks

\* Ageing keeps an age within its cap.
LEMMA OlderTyped ==
    ASSUME NEW limit \in Nat, NEW d \in Nat, NEW age \in {Never} \union 0..limit
    PROVE  Older(age, d, limit) \in {Never} \union 0..limit
BY DEF Older, Cap, Never

LEMMA AgedTyped ==
    ASSUME NEW d \in Nat, NEW records \in [Keys -> Records(Cooldown)]
    PROVE  Aged(records, d) \in [Keys -> Records(Cooldown)]
<1> SUFFICES ASSUME NEW k \in Keys
             PROVE  [records[k] EXCEPT !.age = Older(@, d, Cooldown)] \in Records(Cooldown)
  BY DEF Aged
<1>1. records[k] \in Records(Cooldown) /\ records[k].age \in {Never} \union 0..Cooldown
  BY DEF Records
<1>2. Older(records[k].age, d, Cooldown) \in {Never} \union 0..Cooldown
  BY <1>1, OlderTyped, LoopAssumption
<1> QED  BY <1>1, <1>2 DEF Records

LEMMA AgedReportsTyped ==
    ASSUME NEW d \in Nat, NEW ages \in [Periods -> Int], \A p \in Periods : ages[p] \in Ages(p)
    PROVE  /\ AgedReports(ages, d) \in [Periods -> Int]
           /\ \A p \in Periods : AgedReports(ages, d)[p] \in Ages(p)
<1>1. ASSUME NEW p \in Periods
      PROVE  Older(ages[p], d, PeriodLength[p]) \in Ages(p) /\ Ages(p) \subseteq Int
  BY OlderTyped, LoopAssumption DEF Ages, Never
<1> QED  BY <1>1 DEF AgedReports

LEMMA StartTyped ==
    /\ NothingSent \in Records(Cooldown)
    /\ NoAlerts \in [Keys -> Records(Cooldown)]
    /\ NoReports \in [Periods -> Int] /\ \A p \in Periods : NoReports[p] \in Ages(p)
    /\ [k \in Keys |-> OK] \in [Keys -> Statuses]
<1>1. NothingSent \in Records(Cooldown)
  BY DEF NothingSent, Records, Statuses
<1> QED  BY <1>1 DEF NoAlerts, NoReports, Ages, Never, Statuses

LEMMA InitType == Init => TypeOK
<1> SUFFICES ASSUME Init PROVE TypeOK
  OBVIOUS
<1>1. /\ failures \in 0..DataCritical /\ errors \in [Strategies -> 0..ErrorThreshold]
      /\ silence \in {Never} \union 0..DroughtCritical /\ crashes \in 0..MaxCrashes
  BY LoopAssumption DEF Init
<1>2. /\ pc = "pass" /\ at = 1 /\ feed = "up" /\ checks = [k \in Keys |-> OK]
      /\ sent = [memory |-> NoAlerts, file |-> NoAlerts]
      /\ schedule = [memory |-> NoReports, file |-> NoReports]
      /\ heard = NoAlerts /\ reported = NoReports
  BY DEF Init
<1> QED  BY <1>1, <1>2, StartTyped, TheKeys DEF TypeOK

\* What the loop writes at an index is well formed.
LEMMA MarkedTyped ==
    ASSUME TypeOK, NEW p \in Periods
    PROVE  /\ Marked(p) \in [memory : [Periods -> Int], file : [Periods -> Int]]
           /\ \A q \in Periods : Marked(p).memory[q] \in Ages(q) /\ Marked(p).file[q] \in Ages(q)
<1>1. 0 \in Ages(p)
  BY LoopAssumption DEF Ages
<1> QED  BY <1>1 DEF Marked, TypeOK

LEMMA AfterCheckTyped ==
    ASSUME TypeOK, AfterCheck, pc \in {"check", "record"}
    PROVE  /\ pc' \in {"check", "report"} /\ at' \in 1..4 /\ (pc' = "report" => at' = 1)
           /\ checks' \in [Keys -> Statuses]
BY TheKeys, StartTyped DEF AfterCheck, Goto, TypeOK

LEMMA AfterReportTyped ==
    ASSUME TypeOK, AfterReport, pc \in {"report", "mark"}
    PROVE  pc' \in {"report", "wait"} /\ at' \in 1..2
BY TheKeys DEF AfterReport, Goto, TypeOK

LEMMA RestartTyped ==
    ASSUME TypeOK, NEW a \in BOOLEAN, NEW b \in BOOLEAN, Restart(a, b)
    PROVE  TypeOK'
<1>1. /\ crashes' \in 0..MaxCrashes /\ failures' \in 0..DataCritical
      /\ errors' \in [Strategies -> 0..ErrorThreshold]
      /\ pc' = "pass" /\ at' = 1 /\ feed' = feed /\ silence' = silence
      /\ checks' \in [Keys -> Statuses]
  <2>1. crashes' \in 0..MaxCrashes /\ failures' \in 0..DataCritical
    BY LoopAssumption DEF Restart, TypeOK
  <2>2. errors' \in [Strategies -> 0..ErrorThreshold]
    BY LoopAssumption DEF Restart
  <2>3. pc' = "pass" /\ at' = 1 /\ feed' = feed /\ silence' = silence
    BY DEF Restart, Goto
  <2>4. checks' \in [Keys -> Statuses]
    BY StartTyped DEF Restart
  <2> QED  BY <2>1, <2>2, <2>3, <2>4
<1>2. sent' \in [memory : [Keys -> Records(Cooldown)], file : [Keys -> Records(Cooldown)]]
  BY StartTyped DEF Restart, TypeOK
<1>3. /\ schedule' \in [memory : [Periods -> Int], file : [Periods -> Int]]
      /\ \A p \in Periods : schedule'.memory[p] \in Ages(p) /\ schedule'.file[p] \in Ages(p)
  BY StartTyped DEF Restart, TypeOK
<1>4. heard' \in [Keys -> Records(Cooldown)]
  <2>1. CASE ~a /\ pc = "record"
    <3>1. Key \in Keys /\ heard[Key] \in Records(Cooldown)
      BY <2>1, TheKeys DEF Key, TypeOK
    <3>2. [heard[Key] EXCEPT !.age = Cooldown] \in Records(Cooldown)
      BY <3>1, LoopAssumption DEF Records
    <3>3. heard' = [heard EXCEPT ![Key] = [heard[Key] EXCEPT !.age = Cooldown]]
      BY <2>1 DEF Restart
    <3> QED  BY <3>1, <3>2, <3>3 DEF TypeOK
  <2>2. CASE a \/ pc # "record"
    BY <2>2, StartTyped DEF Restart, TypeOK
  <2> QED  BY <2>1, <2>2
<1>5. reported' \in [Periods -> Int] /\ \A p \in Periods : reported'[p] \in Ages(p)
  <2>1. CASE ~b /\ pc = "mark"
    <3>1. Period \in Periods
      BY <2>1, TheKeys DEF Period, TypeOK
    <3>2. reported' = [reported EXCEPT ![Period] = Never]
      BY <2>1 DEF Restart
    <3> QED  BY <3>1, <3>2 DEF TypeOK, Ages, Never
  <2>2. CASE b \/ pc # "mark"
    BY <2>2, StartTyped DEF Restart, TypeOK
  <2> QED  BY <2>1, <2>2
<1> QED  BY <1>1, <1>2, <1>3, <1>4, <1>5, TheKeys DEF TypeOK

LEMMA StepType ==
    ASSUME TypeOK, [Next]_vars
    PROVE  TypeOK'
<1>1. CASE SkipPass
  BY <1>1, TheKeys DEF TypeOK, SkipPass, Goto
<1>2. CASE RunPass
  <2>1. /\ failures' \in 0..DataCritical
        /\ silence' \in {Never} \union 0..DroughtCritical
        /\ checks' \in [Keys -> Statuses]
    BY <1>2, ChecksTyped, LoopAssumption DEF RunPass, CountedFailures, Cap, TypeOK
  <2>2. errors' \in [Strategies -> 0..ErrorThreshold]
    BY <1>2, LoopAssumption DEF RunPass, Cap, TypeOK
  <2>3. /\ pc' = "check" /\ at' = 1
        /\ UNCHANGED <<feed, sent, schedule, heard, reported, crashes>>
    BY <1>2 DEF RunPass, Goto
  <2> QED  BY <2>1, <2>2, <2>3, TheKeys DEF TypeOK
<1>3. CASE AnnounceAlert
  <2>1. Key \in Keys /\ checks[Key] \in Statuses
    BY <1>3, TheKeys DEF AnnounceAlert, Key, TypeOK
  <2>2. [status |-> checks[Key], age |-> 0] \in Records(Cooldown)
    BY <2>1, LoopAssumption DEF Records
  <2>3. heard' \in [Keys -> Records(Cooldown)] /\ pc' = "record" /\ at' = at
    BY <1>3, <2>1, <2>2 DEF AnnounceAlert, Goto, TypeOK
  <2>4. UNCHANGED <<feed, failures, errors, silence, checks, sent, schedule, reported, crashes>>
    BY <1>3 DEF AnnounceAlert
  <2> QED  BY <2>3, <2>4 DEF TypeOK
<1>4. CASE RecordAlert
  <2>1. Key \in Keys /\ checks[Key] \in Statuses
    BY <1>4, TheKeys DEF RecordAlert, Key, TypeOK
  <2>2. [status |-> checks[Key], age |-> 0] \in Records(Cooldown)
    BY <2>1, LoopAssumption DEF Records
  <2>3. [sent.memory EXCEPT ![Key] = [status |-> checks[Key], age |-> 0]]
            \in [Keys -> Records(Cooldown)]
    BY <2>1, <2>2 DEF TypeOK
  <2>4. sent' \in [memory : [Keys -> Records(Cooldown)], file : [Keys -> Records(Cooldown)]]
    BY <1>4, <2>3 DEF RecordAlert
  <2>5. /\ AfterCheck /\ pc = "record"
        /\ UNCHANGED <<feed, failures, errors, silence, schedule, heard, reported, crashes>>
    BY <1>4 DEF RecordAlert
  <2> QED  BY <2>4, <2>5, AfterCheckTyped, TheKeys DEF TypeOK
<1>5. CASE PassCheck
  <2>1. Key \in Keys
    BY <1>5, TheKeys DEF PassCheck, Key, TypeOK
  <2>2. [sent.memory EXCEPT ![Key] = NothingSent] \in [Keys -> Records(Cooldown)]
    BY <2>1, StartTyped DEF TypeOK
  <2>3. sent' \in [memory : [Keys -> Records(Cooldown)], file : [Keys -> Records(Cooldown)]]
    <3> DEFINE now == [sent.memory EXCEPT ![Key] = NothingSent]
    <3>1. sent' = [memory |-> now, file |-> now] \/ sent' = sent
      BY <1>5 DEF PassCheck
    <3>2. now \in [Keys -> Records(Cooldown)]
      BY <2>2
    <3> HIDE DEF now
    <3> QED  BY <3>1, <3>2 DEF TypeOK
  <2>4. heard' \in [Keys -> Records(Cooldown)]
    BY <1>5, <2>1, StartTyped DEF PassCheck, TypeOK
  <2>5. /\ AfterCheck /\ pc = "check"
        /\ UNCHANGED <<feed, failures, errors, silence, schedule, reported, crashes>>
    BY <1>5 DEF PassCheck
  <2> QED  BY <2>3, <2>4, <2>5, AfterCheckTyped, TheKeys DEF TypeOK
<1>6. CASE SkipReport \/ ReportFails \/ mark_sent
  <2>1. pc \in {"report", "mark"} /\ Period \in Periods /\ AfterReport
    BY <1>6, TheKeys DEF SkipReport, ReportFails, mark_sent, Period, TypeOK
  <2>2. schedule' \in {schedule, Marked(Period)}
    BY <1>6 DEF SkipReport, ReportFails, mark_sent
  <2>3. /\ schedule' \in [memory : [Periods -> Int], file : [Periods -> Int]]
        /\ \A p \in Periods : schedule'.memory[p] \in Ages(p) /\ schedule'.file[p] \in Ages(p)
    BY <2>1, <2>2, MarkedTyped DEF TypeOK
  <2>4. UNCHANGED <<feed, failures, errors, silence, checks, sent, heard, reported, crashes>>
    BY <1>6 DEF SkipReport, ReportFails, mark_sent
  <2> QED  BY <2>1, <2>3, <2>4, AfterReportTyped, TheKeys DEF TypeOK
<1>7. CASE AnnounceReport
  <2>1. Period \in Periods
    BY <1>7, TheKeys DEF AnnounceReport, Period, TypeOK
  <2>2. 0 \in Ages(Period)
    BY LoopAssumption, <2>1 DEF Ages
  <2>3. reported' \in [Periods -> Int] /\ \A p \in Periods : reported'[p] \in Ages(p)
    BY <1>7, <2>1, <2>2 DEF AnnounceReport, TypeOK
  <2>4. /\ pc = "report" /\ pc' = "mark" /\ at' = at
        /\ UNCHANGED <<feed, failures, errors, silence, checks, sent, schedule, heard, crashes>>
    BY <1>7 DEF AnnounceReport, Goto
  <2> QED  BY <2>3, <2>4 DEF TypeOK
<1>8. CASE Wait
  <2>1. PICK d \in Waits :
          /\ silence' = Older(silence, d, DroughtCritical)
          /\ sent' = [memory |-> Aged(sent.memory, d), file |-> Aged(sent.file, d)]
          /\ schedule' = [memory |-> AgedReports(schedule.memory, d),
                          file |-> AgedReports(schedule.file, d)]
          /\ heard' = Aged(heard, d)
          /\ reported' = AgedReports(reported, d)
    BY <1>8 DEF Wait
  <2>2. d \in Nat
    BY LoopAssumption
  <2>3. silence' \in {Never} \union 0..DroughtCritical
    BY <2>1, <2>2, OlderTyped, LoopAssumption DEF TypeOK
  <2>4. /\ sent' \in [memory : [Keys -> Records(Cooldown)], file : [Keys -> Records(Cooldown)]]
        /\ heard' \in [Keys -> Records(Cooldown)]
    BY <2>1, <2>2, AgedTyped DEF TypeOK
  <2>5. reported' \in [Periods -> Int] /\ \A p \in Periods : reported'[p] \in Ages(p)
    BY <2>1, <2>2, AgedReportsTyped DEF TypeOK
  <2>6. /\ schedule' \in [memory : [Periods -> Int], file : [Periods -> Int]]
        /\ \A p \in Periods : schedule'.memory[p] \in Ages(p) /\ schedule'.file[p] \in Ages(p)
    BY <2>1, <2>2, AgedReportsTyped DEF TypeOK
  <2>7. /\ pc' = "pass" /\ at' = 1
        /\ UNCHANGED <<feed, failures, errors, checks, crashes>>
    BY <1>8 DEF Wait, Goto
  <2> QED  BY <2>3, <2>4, <2>5, <2>6, <2>7, TheKeys DEF TypeOK
<1>9. CASE FeedChanges
  BY <1>9 DEF TypeOK, FeedChanges
<1>10. CASE Crash \/ CrashSavingAlerts \/ CrashSavingReports
  BY <1>10, RestartTyped DEF Crash, CrashSavingAlerts, CrashSavingReports
<1>11. CASE UNCHANGED vars
  BY <1>11 DEF TypeOK, vars
<1> QED
  BY <1>1, <1>2, <1>3, <1>4, <1>5, <1>6, <1>7, <1>8, <1>9, <1>10, <1>11 DEF Next, Loop

\* Counters and ages stay within their caps and the two files always hold what
\* the loaders accept (health.py:196-267, periodic_report.py:41-98), whenever
\* the process dies.
THEOREM LoopTypeCorrect == Spec => []TypeOK
<1>1. Init => TypeOK
  BY InitType
<1>2. TypeOK /\ [Next]_vars => TypeOK'
  BY StepType
<1> QED  BY <1>1, <1>2, PTL DEF Spec

-----------------------------------------------------------------------------
(* Alerts: neither a flood nor silence.                                    *)

\* The strengthening: the throttle remembers what the user heard, but for an
\* alert whose record is being written, and for one whose record died with
\* the process, which counts as cooled down.
Remembers(k) == heard[k] = sent.memory[k] \/ heard[k].age = Cooldown

HeardInv ==
    /\ TypeOK
    /\ sent.memory = sent.file
    /\ \A k \in Keys : ~(pc = "record" /\ k = Key) => Remembers(k)
    /\ pc = "record" => heard[Key] = [status |-> checks[Key], age |-> 0]

LEMMA AgedRemembers ==
    ASSUME TypeOK, NEW d \in Nat, NEW k \in Keys, Remembers(k)
    PROVE  Aged(heard, d)[k] = Aged(sent.memory, d)[k] \/ Aged(heard, d)[k].age = Cooldown
<1>1. CASE heard[k] = sent.memory[k]
  BY <1>1 DEF Aged
<1>2. CASE heard[k].age = Cooldown
  <2>1. Older(Cooldown, d, Cooldown) = Cooldown
    BY LoopAssumption DEF Older, Cap, Never
  <2>2. heard[k] \in Records(Cooldown)
    BY DEF TypeOK
  <2>3. Aged(heard, d)[k] = [heard[k] EXCEPT !.age = Older(heard[k].age, d, Cooldown)]
    BY DEF Aged
  <2> QED  BY <1>2, <2>1, <2>2, <2>3 DEF Records
<1> QED  BY <1>1, <1>2 DEF Remembers

LEMMA RestartRemembers ==
    ASSUME HeardInv, NEW a \in BOOLEAN, NEW b \in BOOLEAN, Restart(a, b), TypeOK'
    PROVE  HeardInv'
<1>1. pc' = "pass" /\ sent'.memory = sent'.file
  BY DEF Restart, Goto
<1>2. ASSUME NEW k \in Keys
      PROVE  Remembers(k)'
  <2>1. CASE a
    BY <2>1 DEF Restart, Remembers
  <2>2. CASE ~a /\ pc # "record"
    BY <2>2 DEF Restart, Remembers, HeardInv
  <2>3. CASE ~a /\ pc = "record"
    <3>1. heard' = [heard EXCEPT ![Key] = [heard[Key] EXCEPT !.age = Cooldown]]
      BY <2>3 DEF Restart
    <3>2. sent'.memory = sent.memory
      BY <2>3 DEF Restart, HeardInv
    <3>3. heard \in [Keys -> Records(Cooldown)] /\ heard[k] \in Records(Cooldown)
      BY DEF HeardInv, TypeOK
    <3>4. CASE k = Key
      BY <3>1, <3>3, <3>4 DEF Remembers, Records
    <3>5. CASE k # Key
      BY <3>1, <3>2, <3>3, <3>5 DEF Remembers, HeardInv
    <3> QED  BY <3>4, <3>5
  <2> QED  BY <2>1, <2>2, <2>3
<1> QED  BY <1>1, <1>2 DEF HeardInv

LEMMA HeardStep ==
    ASSUME HeardInv, [Next]_vars
    PROVE  HeardInv'
<1>0. TypeOK /\ TypeOK'
  BY StepType DEF HeardInv
<1>1. CASE SkipPass \/ RunPass \/ FeedChanges
  BY <1>0, <1>1 DEF SkipPass, RunPass, FeedChanges, Goto, HeardInv, Remembers
<1>2. CASE SkipReport \/ ReportFails \/ mark_sent \/ AnnounceReport
  <2>1. pc' # "record" /\ pc # "record" /\ UNCHANGED <<sent, heard>>
    BY <1>2 DEF SkipReport, ReportFails, mark_sent, AnnounceReport, AfterReport, Goto
  <2> QED  BY <1>0, <2>1 DEF HeardInv, Remembers
<1>3. CASE AnnounceAlert
  <2>1. /\ pc = "check" /\ pc' = "record" /\ at' = at /\ UNCHANGED <<sent, checks>>
        /\ heard' = [heard EXCEPT ![Key] = [status |-> checks[Key], age |-> 0]]
    BY <1>3 DEF AnnounceAlert, Goto
  <2>2. Key \in Keys /\ Key' = Key
    BY <1>0, <2>1, TheKeys DEF Key, TypeOK
  <2> QED  BY <1>0, <2>1, <2>2 DEF HeardInv, Remembers, TypeOK
<1>4. CASE RecordAlert
  <2> DEFINE now == [sent.memory EXCEPT ![Key] = [status |-> checks[Key], age |-> 0]]
  <2>1. /\ pc = "record" /\ pc' # "record" /\ heard' = heard
        /\ sent' = [memory |-> now, file |-> now]
    BY <1>4 DEF RecordAlert, AfterCheck, Goto
  <2>2. sent.memory \in [Keys -> Records(Cooldown)]
    BY <1>0 DEF TypeOK
  <2>3. ASSUME NEW k \in Keys
        PROVE  heard[k] = now[k] \/ heard[k].age = Cooldown
    BY <2>1, <2>2, <2>3 DEF HeardInv, Remembers
  <2> HIDE DEF now
  <2> QED  BY <1>0, <2>1, <2>3 DEF HeardInv, Remembers
<1>5. CASE PassCheck
  <2>1. pc = "check" /\ pc' # "record" /\ Key \in Keys
    BY <1>0, <1>5, TheKeys DEF PassCheck, AfterCheck, Goto, Key, TypeOK
  <2>2. sent'.memory = sent'.file
    BY <1>5 DEF PassCheck, HeardInv
  <2>3. ASSUME NEW k \in Keys
        PROVE  Remembers(k)'
    <3>1. Remembers(k) /\ k \in Keys
      BY <2>1, <2>3 DEF HeardInv
    <3>2. /\ sent.memory \in [Keys -> Records(Cooldown)]
          /\ heard \in [Keys -> Records(Cooldown)]
      BY <1>0 DEF TypeOK
    <3>3. CASE checks[Key] # OK
      BY <1>5, <3>1, <3>3 DEF PassCheck, Remembers
    <3>4. CASE checks[Key] = OK
      <4>1. heard' = [heard EXCEPT ![Key] = NothingSent]
        BY <1>5, <3>4 DEF PassCheck
      <4>2. \/ sent'.memory = [sent.memory EXCEPT ![Key] = NothingSent]
            \/ sent.memory[Key] = NothingSent /\ sent' = sent
        BY <1>5, <3>4 DEF PassCheck
      <4> QED  BY <2>1, <3>1, <3>2, <4>1, <4>2 DEF Remembers
    <3> QED  BY <3>3, <3>4
  <2> QED  BY <1>0, <2>1, <2>2, <2>3 DEF HeardInv
<1>6. CASE Wait
  <2>1. PICK d \in Waits :
          /\ sent' = [memory |-> Aged(sent.memory, d), file |-> Aged(sent.file, d)]
          /\ heard' = Aged(heard, d)
    BY <1>6 DEF Wait
  <2>2. d \in Nat /\ pc = "wait" /\ pc' = "pass"
    BY <1>6, LoopAssumption DEF Wait, Goto
  <2>3. sent'.memory = Aged(sent.memory, d) /\ sent'.file = Aged(sent.file, d)
    BY <2>1
  <2>4. \A k \in Keys : Remembers(k)'
    BY <1>0, <2>1, <2>2, <2>3, AgedRemembers DEF HeardInv, Remembers
  <2> QED  BY <1>0, <2>2, <2>3, <2>4 DEF HeardInv
<1>7. CASE Crash \/ CrashSavingAlerts \/ CrashSavingReports
  BY <1>0, <1>7, RestartRemembers DEF Crash, CrashSavingAlerts, CrashSavingReports
<1>8. CASE UNCHANGED vars
  BY <1>0, <1>8 DEF vars, HeardInv, Remembers, Key
<1> QED  BY <1>1, <1>2, <1>3, <1>4, <1>5, <1>6, <1>7, <1>8 DEF Next, Loop

LEMMA HeardStart == Init => HeardInv
<1> SUFFICES ASSUME Init PROVE HeardInv
  OBVIOUS
<1>1. pc = "pass" /\ heard = NoAlerts /\ sent = [memory |-> NoAlerts, file |-> NoAlerts]
  BY DEF Init
<1> QED  BY <1>1, InitType DEF HeardInv, Remembers

\* An alert is not repeated within its cooldown unless it got worse or was fine
\* in between (AlertThrottle, health.py:196-267), however often the process
\* restarts.
THEOREM AlertsDoNotFlood == Spec => NoFlood
<1>1. ASSUME HeardInv, [Next]_vars, AnnounceAlert
      PROVE  heard[Key].age \in {Never, Cooldown} \/ checks[Key] > heard[Key].status
  <2>1. Key \in Keys /\ Remembers(Key) /\ should_send(sent.memory[Key], checks[Key])
    BY <1>1, TheKeys DEF AnnounceAlert, Key, TypeOK, HeardInv
  <2>2. sent.memory[Key].age \in {Never} \union 0..Cooldown
    BY <1>1, <2>1 DEF HeardInv, TypeOK, Records
  <2> QED  BY <2>1, <2>2, LoopAssumption DEF Remembers, should_send
<1>2. HeardInv /\ [Next]_vars =>
        [AnnounceAlert => \/ heard[Key].age \in {Never, Cooldown}
                          \/ checks[Key] > heard[Key].status]_vars
  BY <1>1
<1> QED  BY <1>2, HeardStart, HeardStep, PTL DEF Spec, NoFlood

\* A check that has not been announced since it was last fine is announced in
\* the pass that finds it failing (main.py:145-147).
THEOREM AlertsAreAnnounced == Spec => FreshAlertsAreAnnounced
<1>1. ASSUME HeardInv, [Next]_vars, PassCheck, checks[Key] # OK
      PROVE  heard[Key] # NothingSent
  <2>1. Key \in Keys /\ Remembers(Key) /\ ~should_send(sent.memory[Key], checks[Key])
    BY <1>1, TheKeys DEF PassCheck, Key, TypeOK, HeardInv
  <2>2. sent.memory[Key].age # Never
    BY <1>1, <2>1 DEF should_send
  <2>3. NothingSent.age = Never /\ Cooldown # Never
    BY LoopAssumption DEF NothingSent, Never
  <2> QED  BY <2>1, <2>2, <2>3 DEF Remembers
<1>2. HeardInv /\ [Next]_vars =>
        [PassCheck /\ checks[Key] # OK => heard[Key] # NothingSent]_vars
  BY <1>1
<1> QED  BY <1>2, HeardStart, HeardStep, PTL DEF Spec, FreshAlertsAreAnnounced

-----------------------------------------------------------------------------
(* Reports are a period apart.                                             *)

\* The strengthening: the schedule never thinks a report older than it is,
\* but for the one that is being written down.
InTime(p) ==
    \/ reported[p] = Never
    \/ schedule.memory[p] # Never /\ schedule.memory[p] <= reported[p]

SpacedInv ==
    /\ TypeOK
    /\ schedule.memory = schedule.file
    /\ \A p \in Periods : ~(pc = "mark" /\ p = Period) => InTime(p)

LEMMA AgedInTime ==
    ASSUME TypeOK, NEW d \in Nat, NEW p \in Periods, InTime(p)
    PROVE  \/ AgedReports(reported, d)[p] = Never
           \/ /\ AgedReports(schedule.memory, d)[p] # Never
              /\ AgedReports(schedule.memory, d)[p] <= AgedReports(reported, d)[p]
<1>1. reported[p] \in Ages(p) /\ schedule.memory[p] \in Ages(p) /\ PeriodLength[p] \in Nat
  BY LoopAssumption DEF TypeOK
<1>2. /\ AgedReports(reported, d)[p] = Older(reported[p], d, PeriodLength[p])
      /\ AgedReports(schedule.memory, d)[p] = Older(schedule.memory[p], d, PeriodLength[p])
  BY DEF AgedReports
<1> QED  BY <1>1, <1>2 DEF InTime, Older, Cap, Never, Ages

LEMMA SpacedStep ==
    ASSUME SpacedInv, [Next]_vars
    PROVE  SpacedInv'
<1>0. TypeOK /\ TypeOK'
  BY StepType DEF SpacedInv
<1>1. CASE SkipPass \/ RunPass \/ FeedChanges \/ AnnounceAlert \/ RecordAlert \/ PassCheck
  <2>1. pc # "mark" /\ UNCHANGED <<schedule, reported>>
    BY <1>1 DEF SkipPass, RunPass, FeedChanges, AnnounceAlert, RecordAlert, PassCheck
  <2> QED  BY <1>0, <2>1 DEF SpacedInv, InTime
<1>2. CASE AnnounceReport
  <2>1. /\ pc = "report" /\ pc' = "mark" /\ at' = at /\ schedule' = schedule
        /\ reported' \in {reported, [reported EXCEPT ![Period] = 0]}
    BY <1>2 DEF AnnounceReport, Goto
  <2>2. Period' = Period
    BY <2>1 DEF Period
  <2>3. ASSUME NEW p \in Periods, p # Period
        PROVE  reported'[p] = reported[p]
    BY <1>0, <2>1, <2>3 DEF TypeOK
  <2> QED  BY <1>0, <2>1, <2>2, <2>3 DEF SpacedInv, InTime
<1>3. CASE SkipReport \/ ReportFails \/ mark_sent
  <2>1. /\ pc \in {"report", "mark"} /\ pc' # "mark" /\ reported' = reported
        /\ schedule' \in {schedule, Marked(Period)}
        /\ pc = "mark" => schedule' = Marked(Period)
    BY <1>3 DEF SkipReport, ReportFails, mark_sent, AfterReport, Goto
  <2>2. Period \in Periods
    BY <1>0, <2>1, TheKeys DEF Period, TypeOK
  <2>3. schedule'.memory = schedule'.file
    BY <2>1 DEF Marked, SpacedInv
  <2>4. ASSUME NEW p \in Periods
        PROVE  InTime(p)'
    <3>1. reported[p] \in {Never} \union Nat /\ schedule.memory \in [Periods -> Int]
      BY <1>0, LoopAssumption DEF TypeOK, Ages
    <3>2. CASE schedule' # Marked(Period)
      BY <2>1, <2>4, <3>2 DEF SpacedInv, InTime
    <3>3. CASE schedule' = Marked(Period)
      <4>1. schedule'.memory = [schedule.memory EXCEPT ![Period] = 0]
        BY <3>3 DEF Marked
      <4>2. CASE p = Period
        BY <2>1, <2>2, <3>1, <4>1, <4>2 DEF InTime, Never
      <4>3. CASE p # Period
        BY <2>1, <2>4, <3>1, <4>1, <4>3 DEF InTime, SpacedInv
      <4> QED  BY <4>2, <4>3
    <3> QED  BY <2>1, <3>2, <3>3
  <2> QED  BY <1>0, <2>1, <2>3, <2>4 DEF SpacedInv
<1>4. CASE Wait
  <2>1. PICK d \in Waits :
          /\ schedule' = [memory |-> AgedReports(schedule.memory, d),
                          file |-> AgedReports(schedule.file, d)]
          /\ reported' = AgedReports(reported, d)
    BY <1>4 DEF Wait
  <2>2. d \in Nat /\ pc = "wait" /\ pc' = "pass"
    BY <1>4, LoopAssumption DEF Wait, Goto
  <2>3. /\ schedule'.memory = AgedReports(schedule.memory, d)
        /\ schedule'.file = AgedReports(schedule.file, d)
    BY <2>1
  <2>4. \A p \in Periods : InTime(p)'
    BY <1>0, <2>1, <2>2, <2>3, AgedInTime DEF SpacedInv, InTime
  <2> QED  BY <1>0, <2>2, <2>3, <2>4 DEF SpacedInv
<1>5. CASE Crash \/ CrashSavingAlerts \/ CrashSavingReports
  <2>1. PICK a \in BOOLEAN, b \in BOOLEAN : Restart(a, b)
    BY <1>5 DEF Crash, CrashSavingAlerts, CrashSavingReports
  <2>2. pc' = "pass" /\ schedule'.memory = schedule'.file
    BY <2>1 DEF Restart, Goto
  <2>3. ASSUME NEW p \in Periods
        PROVE  InTime(p)'
    <3>1. CASE b
      BY <2>1, <3>1 DEF Restart, InTime, NoReports
    <3>2. CASE ~b /\ pc = "mark"
      <4>1. reported' = [reported EXCEPT ![Period] = Never] /\ schedule'.memory = schedule.memory
        BY <2>1, <3>2 DEF Restart, SpacedInv
      <4>2. reported \in [Periods -> Int]
        BY <1>0 DEF TypeOK
      <4> QED  BY <4>1, <4>2 DEF InTime, SpacedInv
    <3>3. CASE ~b /\ pc # "mark"
      BY <2>1, <3>3 DEF Restart, InTime, SpacedInv
    <3> QED  BY <3>1, <3>2, <3>3
  <2> QED  BY <1>0, <2>2, <2>3 DEF SpacedInv
<1>6. CASE UNCHANGED vars
  BY <1>0, <1>6 DEF vars, SpacedInv, InTime, Period
<1> QED  BY <1>1, <1>2, <1>3, <1>4, <1>5, <1>6 DEF Next, Loop

\* Two reports of one period are a whole period apart
\* (periodic_report.py:17-19), unless the process died before it wrote down
\* that the first was sent.
THEOREM ReportsAreAPeriodApart == Spec => ReportsAreSpaced
<1>1. Init => SpacedInv
  <2> SUFFICES ASSUME Init PROVE SpacedInv
    OBVIOUS
  <2>1. /\ pc = "pass" /\ schedule = [memory |-> NoReports, file |-> NoReports]
        /\ reported = NoReports
    BY DEF Init
  <2> QED  BY <2>1, InitType DEF SpacedInv, InTime, NoReports
<1>2. ASSUME SpacedInv, [Next]_vars, AnnounceReport
      PROVE  reported[Period] \in {Never, PeriodLength[Period]}
  <2>1. pc = "report" /\ due(Period)
    BY <1>2 DEF AnnounceReport
  <2>2. Period \in Periods /\ InTime(Period)
    BY <1>2, <2>1, TheKeys DEF Period, TypeOK, SpacedInv
  <2>3. reported[Period] \in Ages(Period) /\ PeriodLength[Period] \in Nat
    BY <1>2, <2>2, LoopAssumption DEF SpacedInv, TypeOK
  <2> QED  BY <2>1, <2>2, <2>3 DEF InTime, due, Ages
<1>3. SpacedInv /\ [Next]_vars =>
        [AnnounceReport => reported[Period] \in {Never, PeriodLength[Period]}]_vars
  BY <1>2
<1> QED  BY <1>1, <1>3, SpacedStep, PTL DEF Spec, ReportsAreSpaced
=============================================================================
