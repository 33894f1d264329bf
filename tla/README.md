# GarnetTrader in TLA+

A model of `src/option_signal_bot`: a bot that looks for option strategies on the
Tehran market, tells its user about them over Telegram, and lets the user try them
on paper from a dashboard. Two processes run side by side, the loop of `main.py`
and the dashboard of `web/`. They share an SQLite database and a handful of JSON
files, take no lock across two statements, and are killed and restarted freely.
What is hard about the program lies in those gaps, and in the calculations whose
answers nobody can check by eye; so do the modules.

The modules are written from the source; each definition that models code is
mapped to its lines in `PROJECT.json` (`map`).

## 1. Inventory

### Components

| component | state | operations | used by |
|---|---|---|---|
| Paper broker (`execution/paper_broker.py`) and its store (`storage/paper_trading_store.py`) | tables `paper_account`, `paper_positions`, `paper_trades`, `paper_orders`; each write commits by itself | `place_order` (settle, check, fill, `_apply_buy` / `_apply_sell`, save), `settle_expired_positions`, `reset`, constructor | paper-trading endpoints of `web/api.py`, one thread and one connection per request |
| Health monitoring (`monitoring/health.py`) | counters in memory; `AlertThrottle` in memory and in a file | four checks, `should_send`, `record`, `clear` | `main.py:_check_health` |
| Periodic reports (`monitoring/periodic_report.py`) | `ReportSchedule` in memory and in a file | `is_due`, `mark_sent`, building the text | `main.py:_send_due_reports` |
| Telegram bot (`notifiers/telegram_commands.py`) | the offset and the mute state, each in memory and in a file; Telegram's own queue of updates | `poll_once`, callbacks, commands | `main.py:_poll_commands` while the loop waits |
| Acknowledgements (`storage/acknowledgement.py`) | table `signal_acks` | `record` (upsert), statistics | the bot's buttons |
| Signal generator (`signals/`) | `_last_emitted`, in memory only | context, sizing, structures, dedupe | the loop (one for the life of the process), the dashboard (one per scan) |
| Signal log and outcomes (`storage/signal_log.py`, `storage/reporting.py`) | tables `signals`, `signal_outcomes` | `save`, `pending_signals`, `evaluate_signal`, `record_outcome`, aggregates | `dispatch`, `/api/report/evaluate`, reports |
| Loop (`main.py`) | none of its own | pass, health, reports, wait with polling | |
| Wiring (`bootstrap.py`, `config/`) | objects built once; one mute state per process | `get_mute_state`, builders | both processes |
| Risk (`risk/`) | none | size, stop and target of a signal; fees, break-even, net target | generator, paper broker |
| Order book (`data/order_book.py`) | none (its client: a cache) | levels of a payload, fill price, depth | paper broker |
| Data sources (`data/`) | one cache per client, each with its own stamp and time to live; what the broker said, or failed to say, about a contract | fetch with retries, parse, keep; correct sizes from the broker | both processes |
| Calendar and corporate actions (`market/`) | learnt holidays, in a file; corporate actions, fetched once | is it open, next day, days between; adjust a contract, adjust a history | loop, history |
| Strategies, payoff, scanner (`strategies/`) | none | proposals, payoff and its extremes, capital, structures of a chain | generator, dashboard |
| Pricing and IV history (`pricing/`) | IV per symbol and day, in a file | Black-Scholes, implied volatility, level of a surface, rank | generator |
| Backtests (`backtest/`) | none | replay, outcomes, figures, folds, search | command line |
| Broker adapters, API discovery, scripts, page | sessions | HTTP | developer |

### How they meet

- **Loop to notifiers to log.** `run_cycle` generates, `dispatch` sends each signal
  to every channel and then logs it; `_check_health` and `_send_due_reports` send
  texts through the same channels. What a channel answers is ignored.
- **Loop to bot.** While it waits, the loop calls `poll_once`; the bot never runs
  during a pass. Its commands write the mute file and the acknowledgements.
- **Dashboard to database.** Each endpoint opens its own connection in a thread of
  its own. Requests overlap with each other and with the loop.
- **Two processes, shared files.** Mute state, IV history and settings are files
  read once and written whole.
- **One context, many clients.** `create_app` builds the clients of one context; they
  ask the same server, but each keeps its own answers for its own time, counted from
  its own reading of the clock. The chain may be wrapped by one that asks the broker
  for the real size of each contract near the money.
- **Calculations.** Calendar, corporate actions, strategies, payoff, sizes and backtests
  are called with what the others hold and keep nothing between calls.

### What is hard, and what makes each part correct

| part | hard behaviour | what should hold |
|---|---|---|
| Paper broker | a request is some ten commits with network calls in between; others overlap, or it dies half way | an operation is one posting; nothing is sold or settled that was not bought; books balance; rows and averages come from fills, a death costs one posting; the history never runs ahead |
| Health | the throttle outlives the process, the counters do not | neither a flood nor a silent outage |
| Reports | sent, then marked; a laptop asleep for days | one report a period, and the next one always comes |
| Telegram bot | an offset saved once a batch, lost answers, replies that raise, replays | no command lost, replays end in the last wish, nothing blocks the queue |
| Data sources | slow and failing answers, retries, caches filled one after another, a broker that answers for some contracts only | no answer older than its cache allows; a corrected size stays corrected; every call ends |
| Shared files | read whole, changed, truncated, written, without a lock | nothing is lost as long as the writers take turns |
| Calculations | order and holes of what the source sends, rounding at each step, edges of windows, leap years, repeated rows | the answer a definition of its meaning gives |
| Signals | legs sized one by one, told before logged, two generators over one table, evaluated later | whole structures, what was told is logged, no repetition, results that stay and mean profit |

The complete list, line by line, is `hazards` in `PROJECT.json`; the entries without
a property say why.

## 2. Modules

| module | what it is |
|---|---|
| `PaperMoney` | fees, fills, position formulas and profits of the paper account: constants and operators, no state |
| `PaperLedger` | what the broker promises: an account on which every order, settlement and reset is **one** atomic posting |
| `PaperBroker` | the broker as it runs: any number of requests, one action per SELECT or commit |
| `PaperBrokerProps` | its properties, and the refinement mapping to `PaperLedger` |
| `PaperBrokerProof` | the TLAPS proofs: types, averages and contracts; then money, orders and the refinement |
| `MonitorLoop`, `MonitorLoopProps`, `MonitorLoopProof` | the loop with health alerts and reports |
| `TelegramBot`, `TelegramBotProps`, `TelegramBotProof` | the bot in the loop, Telegram's queue, mute file, acknowledgements, the dashboard's mute state |
| `SignalLife`, `SignalLifeProps`, `SignalLifeProof` | generation, dispatch, log and evaluation of signals in both processes |
| `OrderBook`, `RiskSizing`, `Payoff`, `Scanner`, `JalaliCalendar`, `TradingCalendar`, `CorporateActions`, `IVSurface`, `Strategies`, `Backtest` | the calculations, one module per source file or two, operators only |
| `Research`, `Desk` | the calculations put to every input of a bounded set: `Research` those of the calendar, the volatility, the strategies and the backtests, `Desk` those and the ones behind an order |
| `Ordering` | Python's stable `sorted`, as a definition the prover can unfold |
| `DeskProps`, `ResearchProps` | for each calculation, what its answer means |
| `DeskProof`, `ResearchProof`, `SequenceFacts` | the TLAPS proofs about twelve of these properties: the size of a signal, fills and structures; proposals, calendar, dates, replays, figures, search and ranks; and what they need to know of folds over sequences |
| `Feeds`, `FeedsProps` | the caches of one context, the network, and the chain that corrects sizes |
| `SharedFiles`, `SharedFilesProps` | the IV history and `settings.yaml`, and whoever writes them |
| `Sources`, `SourcesProof` | the two in one specification, and the proofs about both |
| `MC...` | values of constants and symmetry for TLC |

Operators called "Mutant" in a comment are faulty versions of the definition that
follows them. No specification uses them. Each stands for a plausible bug, and
substituting it breaks the property that `mutants` in `PROJECT.json` names, which
shows that the property depends on that piece of code.

### Paper broker

`opened, cash, positions, trades, orders` are the tables; `pc[r]` and `req[r]` are
where a request stands and its local variables (`leg` the fill in hand, `row` and
`seen` the position row and the cash it has read, `rows` and `chain` the lists of a
settlement). `Start` and `InsertAccount` are the endpoint and the broker's
constructor. `ListPositions`, `LeaveOpen`, `BeginSettlement`, `EndSettlement` are the
loop of `settle_expired_positions`. `FillOrder` or `RejectOrder` is the middle of
`place_order`: the held quantity is read there, and the fill is *any* price and *any*
part of the quantity, because the order book decides. `Buy...` and `Sell...` are
`_apply_buy` and `_apply_sell`, statement by statement; `Credit`, `CloseRow`,
`RecordTrade` are the three commits a sell and a settlement have in common, and
`SaveOrder` is the order row at the end. `Crash` is anything that ends a request
early. `Expire` and `Delist` are the market. Two history variables count what buys have
debited since the last reset, `paid` the contracts and `premiums` the prices.

Money is an integer in 1/`RateScale` of a rial. The mean of `AfterBuy` is an integer
division where the code uses floats; premiums in the runs are multiples of 12, so
it is exact there. `paper_trades` and `paper_orders` are kept as totals per symbol.

### Loop

`pc` follows one pass: `SkipPass` (market closed) or `RunPass`, the four checks
one by one (`AnnounceAlert` then `RecordAlert`, or `PassCheck`), the two periods
(`AnnounceReport` then `mark_sent`, or `SkipReport`, `ReportFails`), `Wait`. Sending and recording are two
steps, since the process may die between them. `sent` and `schedule` have a `memory`
and a `file` half. Time is kept as ages, capped where the code stops telling them
apart. `Crash...` is a restart; the two that die *while* a file is written find it
unreadable, which the loaders take for empty (`write_text` truncates first).

The history variable `heard` is what a user remembers: the last alert of a check
since it was fine. It forgets what a lost file forgot, and a restart between sending
and recording allows one repetition; those are the losses the code's order of steps
admits, and the properties say nothing more about them.

### Telegram bot

`updates` is everything ever sent; Telegram forgets what a request confirmed
(`confirmed`). `Poll` fetches the first `Limit` unconfirmed updates from `offset`;
`PollFails` confirms too, because a request may arrive and its answer be lost. One
`Handle...`, `SetMute` or `RecordAck` per update moves `offset` first and acts then, as
`poll_once` does. `Reply` or `ReplyRaises` ends it; the latter is an exception `_call`
does not catch, which drops the rest of the batch and skips `SaveOffset`. The
dashboard is `web`, its own copy of the mute state, read at its first scan.

### Signals

`Generate(p)` is `run_once` of process p: any subset of ideas, any sizes the risk
calculator may answer, the dedupe window (of `emitted`), the structure sized as a
whole. `Deliver` and `Save` are the two halves of `dispatch` for one signal. `Fails` is
a crash or a failed write; `Tick` is time. `StartEvaluation` takes
`pending_signals`, `EvaluateRow` measures one row at some premium; any number of evaluations
(`Evaluators`) may be under way, as nothing keeps two requests of the endpoint apart.

### Calculations

A state of `Desk` is one question (`case`): a book and an order, a signal to size, a
chain to scan, a year, a calendar with two processes that learn, a list of share counts,
some days of volatilities, a context for the strategies, a series of closes. `Next` asks
any of them and then clears it. The properties compute the answer with the operators
of the modules and compare it with one that follows from what the answer means: the cost
of *every* way to take the levels of a book, the payoff at *every* price, the days on
which the market was open, the number of times the shares doubled.

Numbers: money and rates are integers with a named scale; ratios, means and average prices
are kept as pairs and compared by cross-multiplying, so that nothing is rounded that the
code does not round. Where the code rounds (`round`, `floor`, `int`) so does the model:
`CorporateActions!Rounded` takes halves to even, as Python does with whole numbers; stop and
target are rounded to a tenth (`RiskSizing!Rounded`), and an amount half way between two tenths,
which the code holds as a float on one side of the half or the other, may become either. The sizes
of the contracts of a chain are those of the exchange except for the nearest ones the broker
answered for (`Enriched`), so a chain may mix sizes. What the sources leave open, as the
order of two contracts equally near to a strike, is left open: a strategy is the *set* of
its proposals. The premium of a replayed contract and the decision rule are inputs of
`Backtest`; the implied volatility of a contract and the realized volatility of a symbol
are inputs of `IVSurface` and `Strategies`.

### Feeds

`duty` is what a context is used for, the operations somebody calls on it. `cache[f]` is
what a client keeps (`what`), how old its stamp is (`at`) and, which no client knows, how
old the data is (`read`). `call` is the one operation in progress, since a context belongs
to one thread: which request it waits for, since when the clock of its stamp runs, the
attempt, what the server has replied and with data how old, what it holds. `Begin` and
`Refuse` are the entry of an operation; `Reply` is the server, `Receive` the client that
parses, keeps and stamps, `Retry` and `GiveUp` the loop of `fetch_json` and of the broker's
`_get`. `AskBroker`, `SpecArrives` and `SpecFails` are `margin_for_symbol` for the contracts
nearest to the price, `NameOthers` the second look at the rows for an error message, `Return`
the answer. Only waiting takes time (`Tick`), at most `AttemptTicks` for one attempt: every
request has a timeout and a fixed pause after it.

### Shared files

The IV history has contexts (`alive`, `memory`) of the bot and of the dashboard's requests,
settings.yaml has requests (`stage`, `base`, `patch`). Truncating and writing are two steps,
reading happens at any of them, and contexts and requests die anywhere; the disk may be full.
`orderly` and `inTurn` say whether the behaviour so far had no overlap and no interrupted
write. Behaviours without them lose data, as the code does, and the properties ask nothing
of those: no lock and no promise exists. What they show is that nothing *else* loses data:
neither the pruning, nor a failed open, nor a death between two writes, nor the merge.

## 3. Runs

All bounds are constants, named in the modules, and given in the `.cfg`.

| run | bounds, and why they are enough | shows |
|---|---|---|
| `paper_serial` | two symbols, one request at a time of every kind, one contract each. Two symbols are what a settlement loop needs to have one row due and one not | **`RefinesLedger`**: every operation is one posting of `PaperLedger` and every other step leaves the account alone. `ExpiredIsSettled`: an expired row that can be settled is, as long as requests keep coming, whatever rows stand beside it |
| `paper_crash` | one symbol, up to three contracts, orders of two, two requests that die | `BooksBalance`: double entry through partial fills, sells and settlements, as long as no request dies. `DeathCostsOnePosting`: a request that dies after the credit and before the row is deleted leaves a row the next one credits **again**; the books are wrong by at most one posting for each death, and a settlement that went through is never repeated. `FilledOrdersAreApplied` |
| `paper_concurrent` | two requests at a time, orders only, chain re-fetched between their steps. Two are enough for a stale row, and the cash, which no guard reads, is left out of the fingerprint (`VIEW`) because neither property mentions it | `RowsCameFromFills`: whatever stale or vanished row a buy averages with, a row holds no more contracts than were debited, at an average between premiums they were really debited at. `FilledOrdersAreApplied` survives overlap |
| `paper_oversell` (violation) | as above, orders of two | see the findings |
| `monitor_loop` | one strategy, all four checks, both periods, waits of one or two ticks (a tick is half a day; two is a laptop asleep), one crash at any step | `NoFlood`, `FreshAlertsAreAnnounced`, `ReportsAreSpaced` as action properties, restarts and half-written files included; `OutageIsRepeated` and `ReportsKeepComing` under fairness |
| `telegram_bot` | three updates of every kind in every order, batches of two, one restart at any step. Three updates make a full batch and a rest, which is what cutting a batch short needs | `NoUpdateIsSkipped`, `CaughtUpMeansLastWish`, `EveryUpdateIsHandled` |
| `telegram_mute_stale` (violation) | two updates, no crash | see the findings |
| `signal_life` | one single idea and one structure of two legs in ratio 1:2, sizes 0, 1 and 4, window of two ticks, three signals, one failure, both processes, **two evaluations** at once: two are enough for one to list a row before and to write it after the other. The size of a single idea and the profit of an outcome, which no guard and no property of the run reads, are left out of the fingerprint (`VIEW`) | `LoggedStructuresAreWhole`, `ToldIsLogged`, `NoRepeatInOneLife`; `DecidedIsFinal`: a decided row is listed by no further evaluation, and each that had listed it before replaces the result at most once |
| `desk` | books of up to three rows, empty and unsorted ones included, and orders of one to six; budgets, stops, fees and premiums at and beyond the caps, stops half way between two tenths included; chains of six contracts over three quotes, any of the nearest to the price at another size, which hold every structure the scanner knows, sound and unsound; thirteen Jalali years, three of them leap; every set of shut days over two weeks across a new year, learnt in two processes; up to four rows of share counts with repeats and holes, a dividend in between; three days of volatilities; every subset of nine contracts; nine bars, enough for two folds | the thirteen properties of `DeskProps` and `ResearchProps`, one per question a user would ask of an answer |
| `sources` | two contracts of which one is near enough, two attempts of one tick, times to live of two and three ticks, so that an entry goes stale in the middle of a request; the duties of a bot's pass, of an order, of a backtest. Two contexts, four days, a point kept for one day; two requests, three patches, two sections | `AnswersAreFresh`, `CorrectedStaysCorrected`, `FilesKeepWhatTheyAreGiven`; `EveryCallEnds` under fairness |
| `signal_waiting`, `signal_sold` (violations) | as `signal_life`, with one evaluation | see the findings |

`CHECK_DEADLOCK FALSE` stands in the three `signal` configurations: when
`MaxSignals` is reached, everything has aged out and no row waits for a measurement,
there is nothing left to do; and in `sources`, where after `MaxPatches` nobody patches
the settings any more. All other runs check deadlock.

The feeds and the two files share no variable, so `Sources` lets a behaviour follow one
of the three (`scene`): checking their product would cost far more and show the same.

### Fairness

- `paper_serial`: weak fairness of each request's next step, starting the next one
  included: an endpoint that runs goes on running, and the user keeps using the page.
  Nothing else of the market is fair.
- `monitor_loop`: weak fairness of the loop (`while True` in `run_loop`); strong
  fairness of `RunPass` (the market opens again and again) and, for each period, of
  sending a report that is due (no report is unbuildable for ever). Neither the feed
  nor crashes are fair; `OutageIsRepeated` assumes in its statement that the feed is
  down for good.
- `telegram_bot`: weak fairness of the bot's thread and strong fairness of a
  successful `getUpdates`. Nothing is assumed of replies, which may all fail.
- `sources`: weak fairness of `Proceed`, what the network and the thread do with an
  operation that has begun. Every request has a timeout and every loop of attempts a
  bound, so it cannot stand still; that anybody begins an operation is not assumed.

### Findings

Four runs show the code doing other than what the repository says.

1. **Sold twice** (`paper_oversell`). Buy one contract; two sell requests arrive
   together; both read a held quantity of one and pass the check; both read the
   position row before either has written it back; both sell and both orders are
   recorded as filled. The message the code itself prints says this broker does not
   support short selling.
2. **Muted, and still talking** (`telegram_mute_stale`). The dashboard scans, which
   reads the mute file; `/mute` reaches the bot; the dashboard's copy stays as it was.
   The comment in `bootstrap.py` requires one instance for the whole program; it is
   one per process.
3. **Measured once** (`signal_waiting`). A signal is evaluated between its stop and
   its target and stored as `pending`. `pending_signals` selects signals *without* an
   outcome row, so no later evaluation sees it: it counts as open for ever.
4. **A win that loses** (`signal_sold`). A covered call is logged as a SELL; the
   premium rises to the level where its stop is; `evaluate_signal` compares as for a
   buy and records a win. The comment beside it assumes there are no sell signals;
   two strategies emit them.

Smaller things met while modelling, for which there is no run. The models do what the
code does, and the properties are stated around them:

- `evaluate` divides the budget by the loss at the exact stop, and the stop that is printed, sent
  and evaluated is rounded to a tenth of a rial. For cheap options a tenth is much: at a premium of
  2 and a stop of 33 %, a budget of 47 buys seven contracts of ten, which lose 49 at 1.3.
  `StopKeepsTheBudget` says how far it can go: by half a tenth on every unit, with its fee.
- `net_take_profit` reckons the fee of the way out on the premium, where it is charged on the
  target, and leaves out the fee per order; the target is then rounded to a tenth. A buyer who sells
  at 34.2, the target of 70 % over 20 at a selling fee of 9 in 1000, has made 13.89 and not the 14
  the docstring promises after the fees. No property speaks of the target.
- Whether a profit or a loss is unlimited is decided by counting contracts (`payoff.py:272-304`),
  and the broker corrects the sizes of the nearest ones only: a spread whose two calls differ in
  size goes on rising or falling and reports a finite extreme. The chains of the run mix
  sizes; `ExtremesAreTrue` and `CapitalCoversTheLoss` speak of the structures whose calls (for the
  capital, puts too) have one size each.
- `neutral_strategy.py:202` tells how many calls the shares cover, but only in the
  metadata: the risk calculator may size a covered call above it. The collar asks for no
  holding at all. `SoldCallsAreCovered` therefore speaks of one contract.
- The put of the neutral straddle is the nearest strike of the unfiltered chain, so it
  need not be liquid nor share the call's strike (`LegsCanBeTraded` excepts it).
- `scan_iron_condor` has no gate on the maximal profit, as the spreads have; a condor whose
  commission eats its credit asks for less capital than it can lose (`CapitalCoversTheLoss`
  excepts it).
- With the defaults of the walk-forward search a test of 40 days is used up by 30 days of
  warm-up and a horizon of 10: no fold has a test, and `best` answers None.
- `max_drawdown` starts its peak at the first return, so a first loss is no drawdown.
- A chain that takes longer to fetch than its time to live is stale at birth and fetched
  again by the next call. The directory a quote comes from is kept for up to an hour while
  the quote carries the time of now (`bootstrap.py:90` speaks of one response and moment).
- A failure of the broker, an expired token included, leaves a contract uncorrected for the
  life of the context; one that was corrected leaves the corrected ones when the price moves
  away from it. `CorrectedStaysCorrected` is what remains true.
- Days before the first one observed count as trading days whatever the fixed table says,
  and so does a gap between two ranges observed in different processes.
- Each endpoint calls `create_app`, so the caches of the dashboard last for one request.
- Writers of `settings.yaml` and of the IV history that overlap undo each other; a torn IV
  history is read as empty and the next save makes that final; a settings patch that reads
  while another has truncated the file writes back only itself.

## 4. Proofs

Checked by TLAPS for **any** values of the constants that satisfy the modules' named
assumptions, which TLC evaluates in the runs.

`PaperBrokerProof`, for any symbols, requests, premiums, fees and bounds
(`MoneyAssumption`, `BrokerAssumption`: premiums and contract sizes are positive, fees
are not negative):

- `TypeCorrect`: `Spec => []TypeOK`. Inductive as it stands, thanks to the
  conjunct that only an order reaches the check.
- `AveragesAreFair`: `Spec => []RowsCameFromFills`, for **overlapping** requests that die
  anywhere, when there is one request or none is a reset (a reset forgets what was debited, and
  an overlapping order writes its row afterwards). Not inductive by itself: a request holds
  copies of rows and writes them back later, and what is debited is not yet written. `FairInv`
  says of the table *and* of every copy (`row`, `rows`) that it leaves room for all buys that are
  debited and still to be written: it holds at most `Free(s)`, the contracts debited less
  `UnwrittenBuys`. A debit leaves `Free` alone, writing a row frees exactly what it adds
  (`FreeGrows`), and dying frees what will not be written. The averages rest on `MeanBetween`:
  the weighted mean of two numbers lies between their bounds, integer division included.
- `SerialUnitsArePaidFor`: with one request (`OneRequest`), `Spec => []UnitsArePaidFor`,
  however many requests die: no contract is both in a recorded trade and in a row. No run repeats it: the cash is what a death
  puts at risk, and `DeathCostsOnePosting` asks for that. The strengthening `PaidInv` adds `LegSound`: at each step
  of a posting, what a request has read still is what the table holds, and
  after the row is closed the contracts of the trade still to be recorded are counted.
  The assumption is needed: `paper_oversell` is what happens without it.

The second half of `PaperBrokerProof` goes on from there:

- `BooksHold`: with one request at a time and a chain that is fetched once per request
  (`~ChainExpires`), what an order has in hand is what the tables hold at every step between
  two commits, crashes included. `BooksInv` is `PaidInv` with, for each request,
  `LegFilled` (a leg is a fill of the order), `CashSound` (the cash it read is the cash of the
  account) and `RowSound` (the row it read is the row of the table). The next two rest on it.
- `BrokerImplementsLedger`: `Spec => RefinesLedger` for one request that nothing cuts
  short (`SerialRequests`). Every step of the broker is a stutter of the ledger or *one*
  posting. The hypotheses are needed: a crash leaves half a posting, and two
  requests post from the same row.
- `SerialBooksBalance`: `Spec /\ []MeansAreExact => []BooksBalance`, one request at a time.
  The strengthening `Balanced` says it at every step and not only at rest: with the tables read as
  the ledger reads them, half-written postings taken back, the books balance.
  `MeansAreExact` says that the division in `AfterBuy` leaves no remainder: the code
  divides floats, the model integers, and the books balance as far as a mean is exact.
- `FilledOrdersHold`: `Spec => []FilledOrdersAreApplied` for **overlapping** requests that die
  anywhere, when there is one request or none is a reset. A fill is debited, or its
  trade recorded, before its order is saved, so the sums `UnsavedBuys` and `UnsavedSells` over
  the requests count what is in between (`AppliedInv`). A reset that overlaps an order
  deletes what the order has already applied, hence the hypothesis.

The sums over symbols and requests are folds over finite sets. What they need (`SumPicks`,
`SumSame`, `SumChange`, ...) is proved by induction over sets, in the form of a smallest
counterexample: `WFMin` of the library takes a *set*, so the prover can instantiate it where
it cannot instantiate the induction rules, which take an operator.

`MonitorLoopProof`, for any strategies, thresholds, cooldown, periods, waits and number
of restarts (`LoopAssumption`: thresholds and lengths are positive and a warning comes
no later than its critical):

- `LoopTypeCorrect`: `Spec => []TypeOK`.
- `AlertsDoNotFlood` (`NoFlood`) and `AlertsAreAnnounced` (`FreshAlertsAreAnnounced`),
  the two halves of the throttle, from one invariant: `HeardInv` says that the
  throttle's memory and file agree, and that for every check the throttle remembers what
  the user heard, except the alert just sent and not yet recorded. The exception is
  why neither property is inductive alone; a restart turns it into an age of one cooldown.
- `ReportsAreAPeriodApart` (`ReportsAreSpaced`), from `SpacedInv`: the schedule never
  thinks a report older than it is, except the one being marked.

`TelegramBotProof`, for any signals, any limit and any number of updates and restarts
(`BotAssumption`):

- `BotTypeCorrect`: `Spec => []TypeOK`; its lemma `FetchedIds` says what one getUpdates
  returns.
- `BotSkipsNothing` (`NoUpdateIsSkipped`). Telegram forgets what the offset has passed,
  the offset is set from the batch, and a restart goes back to the saved offset; so
  `SkipInv` says that everything before each of the three was handled, and
  that a batch has no gap.
- `BotKeepsLastWish` (`CaughtUpMeansLastWish`): a bot that has handled every update has the mute
  state and the acknowledgements last asked for, although a restart repeats a part of the
  updates. Not inductive: while older wishes are repeated, the files really hold an
  older one. `WishInv` says the same for each kind of wish by itself and relative to where the
  bot goes on, from its offset or, after a restart, from the saved one: as soon as no
  update of the kind is still to come (`Settled`), what is held is the last wish, save for a mute
  that could not be written (`unsaved`) and presses that could not be recorded (`Repeats`).

`SignalLifeProof`, for any signals, structures, sources, windows and number of restarts
(`SignalAssumption`). One invariant, `LifeInv`, is inductive and carries the first four:

- `SignalsAreTyped` (`TypeOK`).
- `StructuresAreWhole` (`LoggedStructuresAreWhole`): a logged leg has every leg of its structure,
  in their ratio, in the log, on the way there or lost to a failure. `Structures` says that
  legs are generated together, `Queues` that a signal is in exactly one place.
- `TellingIsLogging` (`ToldIsLogged`): what a user was told is in the log, except the one a
  process is about to save and at most one per failure (`Telling`).
- `IdeasAreNotRepeated` (`NoRepeatInOneLife`): within the dedupe window, one life of a process
  emits an idea once. `Emissions` ties the history of emissions to the memory of the generator;
  it is per life because the memory dies with the process.
- `DecisionsAreFinal` (`DecidedIsFinal`), for any number of evaluations at once. An evaluation lists
  what is undecided, asks for prices and writes later, so another's result may be replaced; but the
  evaluations that hold a decided row only get fewer, and each replacement takes one away
  (`DecidedRowsAreKept`, action by action, on the types of `LifeInv`).

`SourcesProof`, for any contracts, times to live, numbers of attempts and timeouts
(`FeedsAssumption`: times to live and attempts are positive), and for any contexts, symbols,
days, requests and settings (`SharedFilesAssumption`):

- `AnswersStayFresh` (`AnswersAreFresh`). Not inductive: an answer is built from an entry
  filled long before, and a chain ages while the broker is asked. `FreshInv` adds that a
  trusted entry is no older than its stamp (plus an attempt where the stamp is late), that
  a reply is no older than the wait for it, and that what is in hand is no older than
  the trust in its cache and the time the broker has taken so far. That time is
  counted contract by contract (`Asked`): `AskedNext` shows that an answer about one
  contract frees at least what its attempts took, `AskedTick` that waiting counts one by one.
- `SizesStayCorrected` (`CorrectedStaysCorrected`), from `CorrectedInv`: whatever was
  served at the broker's size is known, and only unknown contracts are ever asked about.
- `HistoryKeepsItsPoints` and `SettingsKeepEveryPatch`, from `HistoryInv` and `SettingsInv`,
  which say that an orderly behaviour has one writer at a time and that its memory holds what
  the file, or the truncated file, held.
- `FilesKeepTheirs`, `SourcesAnswerFresh`, `SourcesStayCorrected`: the four carried over to the
  specification of the run. Every step of `Sources` is a step or a stutter of each of the
  three parts (`SceneSteps`), so the invariants of the parts are invariants of the whole.

### Calculations

`DeskProof` and `ResearchProof`, for any limits, fees, premiums, rows of a book, contracts,
quotes, contexts, open days, closes and days of volatilities (`DeskAssumption`,
`ResearchAssumption` and `FoldAssumption`: they are numbers, fees, stops and sizes of levels are
not negative, the lengths of a fold are positive).
A step asks for one calculation, so the invariant is only `Asked`: what is asked is an input
the constants allow. The work is in the operators.

Most of them fold over a sequence or a set. The library's theorems on folds take an operator as
a parameter, which no prover here can instantiate, so `SequenceFacts` has the operator as a
*constant* and is instantiated once for each fold (`Adds`, `Eats`, `Passes`, `Joins`, `Falls`,
`Streaks`, `Means`, `Keeps`): a fold goes through a sequence of values, each made from the one before
(`FoldLeftWalks`), two folds that agree at every step end alike (`WalksAgree`). Induction is
over a *set* of counterexamples throughout (`UpTo`), for the same reason. Sorting is
`Ordering`: the one permutation that is in order and keeps equal elements as they came.

- `StopsKeepTheBudget` (`StopKeepsTheBudget`): `QuotientFits` (so many times the divisor
  fit), `SizeFits` (what the size stays within) and `SizedLossFits` (the loss at the stop that is
  printed is no more than the risk the size was divided by, and what rounding moved the stop). The code takes a seller to risk
  twice the premium, whatever the stop, so the theorem assumes `StopsAreNear`: the stop,
  with the fee of buying back at it, is within that. A stop of 200 % on a sold option would
  break the budget; the settings of the repository and of the run are far from it.
- `OrdersAreFilledBest` (`FillsAreTheBest`): `WalkFills` says what the walk over the levels
  has taken: all of every level better than some price, nothing of any worse one, and what it
  adds up to in units and money (`Filled`). That no
  other way to take as many units is better is an exchange argument (`CheaperCostsLess`): levels
  taken are no worse than levels left, so any unit moved from one to the other costs.
  The sums are compared after rearrangement (`SumOfRearranged`), as the sort is one.
- `ExtremesAreThose` (`ExtremesAreTrue`), for the structures the scanner finds in any chain, whatever
  the sizes of its contracts, that have calls of one size. A payoff is a sum over its legs, and each leg bends only at its
  strike (`LegBends`, `PayoffBends`), so the first price with the highest payoff is 0, a strike or the
  end of the range (`TopIsAtABend`). Whether the code sees a rise or a fall without
  end is compared with the slope beyond the last strike, for each of the five shapes a
  structure can have (`FlagsMean`).
- `CapitalIsEnough` (`CapitalCoversTheLoss`), with calls of one size and puts of one: beside its net cost, a structure either brings something
  at every price or at none (`Brings`, `Owes`). What brings something loses at most its cost. What
  only owes has a profit only if it was paid for (`ProfitIsCredit`), and the gates of the
  scanner ask for a profit; then the capital is the reported loss, which `ExtremesAreThose` says
  is the true one. The condor that the property excepts has no such gate.
- `SoldCallsHaveCover` (`SoldCallsAreCovered`), when the settings require the shares, and
  `ProposalsCanBeTraded` (`LegsCanBeTraded`): `ProposedIs` says that a proposal of any
  strategy has one of five shapes, and each shape answers both.
- `CalendarIsTrue`: `Spec => [](OpensInTime => CalendarTellsTheMarket)`. `Faithful` says that a
  calendar knows nothing, or exactly the shut days between two open ones, and
  `LearningIsFaithful` that a process that learns keeps it so, whatever an earlier one left in the
  file. `OpensInTime` is what the code takes for granted: `next_trading_day` searches 60 days,
  the market never being shut longer.
- `ReplaysAreCausal` (`BacktestIsCausal`): the outcomes of a replay are those of its decisions, joined
  in order, and a decision reads only the bars before it; so the outcomes of a longer history
  begin with those of the shorter one.
- `FiguresMeanWhatTheySay` (`FiguresAreTrue`): one walk each for the curve, its peaks and the streak. The
  drawdown is reached at some pair of points and exceeded at none; the streak in hand is the
  number of losses since the last gain; the median is an element of the sorted returns, which
  has as many before it as after it.
- `TestsStandAlone` (`TestsUseOnlyTheirBars`), for a history with room for a fold
  (`HistorySuffices`; for a shorter one the code gives no result). `FoldsFollow`: the bounds of every fold are inside the
  history, each test after its training and before the next one. A test replays the slice of its
  own bars, so two histories that agree there agree on it (`TestsIgnore`). That nothing robust
  has a better mean than what is recommended needs the means to be fractions with
  positive denominators (`MeanIs`), their order to be strict (`RanksAreStrict`), and the
  ranking to be a rearrangement in that order (`RankedIs`, on `Ordering`).
- `RanksAreOfTheLastYear` (`RankIsOfTheLastYear`): the history after any number of recorded days is exactly
  one point for each day of the last year that had one, its last reading, whatever days were
  missed or read twice; pruning forgets nothing a later rank would need.
- `DatesRoundTrip` (`JalaliRoundTrips`), for the years 1210 to 1633 (`Pattern`), which the table
  of the code gives one pattern of leap years; the run's 1400 to 1412 are among them. The
  code's chain of divisions has a closed form there: the n-th year begins on day
  `365 * (n + 1830) + 523 + LeapsBy(n)`, the Gregorian leap years having cancelled out
  (`ShapeIs`, `MarchIs`, `NewYearIs`), and `LeapsBy` grows by one exactly in a leap year
  (`LeapsGrow`, `YearEnds`). `YearOfIs` shows that the year of a day, which the model looks for
  among three, is the one whose days hold it; then a date and the place of its day in the
  year determine each other (`DatesMatch`).

### Only model-checked

- Liveness: `ExpiredIsSettled`, `OutageIsRepeated`, `ReportsKeepComing`, `EveryUpdateIsHandled`,
  `EveryCallEnds`. It is outside the prover.
- `DeathCostsOnePosting`: it needs a measure of what each death left behind, posting by posting,
  beside the sums of `SerialBooksBalance`.
- `ActionsCountOnce`: products of the ratios of the capital increases, which is multiplication of unknowns
  along a fold.

## 5. What the models leave out

- **Paper broker**: wording of rejections, order ids and times, the order book behind
  a fill. Settlements and resets that overlap an order are in the model and in the
  proofs, but the runs with two requests use orders only. `cancel_order` and `modify_order` change no state. The
  lost update of cash by two requests is in the model, but no run asks about cash
  under overlap: no document promises anything there.
- **Loop**: whether an alert was *delivered* (the code records the attempt), write
  errors of the two files (caught and logged, the memory half goes on), the ratio of
  missing quotes (the loop never passes it, so that check is always fine), several
  strategies failing at once (one strategy in the run, so that check never gets
  critical; the escalation from warning to critical is exercised by the data source).
- **Bot**: texts of the answers; the "read" commands are one kind.
- **Signals**: how a strategy finds an idea and how the risk calculator limits it
  (inputs here); time stands still while a process passes over the market. A structure takes
  two of the three signals of a run, so a repeated structure is not reached: the
  dedupe window is exercised by the single idea, and both use the same test.
- **Feeds**: the numbers in a response; a response is malformed, empty, lists the symbol
  or does not. One underlying, one thread. Time passes in ticks and an attempt lasts at most
  `AttemptTicks`, its pause included; ages beyond the trust in an entry are not told apart
  (`Aged`). The adapter of the pytse library and the quality gates are not modelled.
- **Shared files**: one leaf of the settings is an entry, a section a first component; what
  a value means is left out. The mute file is in `TelegramBot`, the throttle's and
  the schedule's in `MonitorLoop`, the holidays' in `TradingCalendar`.
- **Calculations**: score and ranking of the scanner, break-evens and probability of profit,
  skew and term structure of a surface (further means of the same points), texts of signals
  and reports. In the run a replay starts at the close `FirstPrice` and the prices divide 100.
- **Not modelled at all**: components with status `not_modelled`, each with its
  reason in `PROJECT.json`. Black-Scholes and implied volatility are real analysis and
  stay out; parsing is I/O.

## 6. Plan

Done, most important first: paper account with its abstract ledger; loop; bot; signals; the
calculations behind orders, signals and backtests; the caches of a context and the files
several processes write; proofs about all of these. What remains open:

1. **The safety properties that only TLC checks**: `ActionsCountOnce`, which would have to be
   stated for ratios other than those of the run first, then proved by a walk as in
   `SequenceFacts`; and `DeathCostsOnePosting`, for any number of deaths.
2. **The hazards without a property** (`hazards` in `PROJECT.json`): they are gaps in the code
   for which no document promises anything; a promise would be the first step.
3. The project keeps to a dozen runs, so that all of it can be checked again; new
   properties join the runs there are.
