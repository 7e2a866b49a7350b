# TLA+ project of quant_signal_system

TLA+ modules, TLC configurations and TLAPS proofs about the research system in
`src/src/quant_signal_system`: market bars come in, strategies make signals of
them, signals are evaluated later and may become orders of a paper portfolio.
Paths below are relative to `src/src/quant_signal_system` unless they begin
with `docs` or `tests` (those are under `src/`).

## 1. The system

| Component | State it keeps | Operations | What is hard |
| --- | --- | --- | --- |
| Evaluation task store (`signals/sqlite_repository.py`, in-memory twin `signals/repository.py`) | rows of `evaluation_tasks` and `signal_evaluations` | `upsert_task`, `find_due_tasks`, `find_expired_leases`, `claim`, `complete_task`, `postpone_task`, `upsert_evaluation` | every method opens its own connection and reads before it writes: steps of several workers interleave, rows are written back stale |
| Evaluation scheduler and evaluator (`evaluation/`) | none | `create_tasks_for_signal`, `evaluate` | bars may be late; an evaluation carries the time it was made |
| Portfolio ledger (`portfolio/`) | cash, positions, settlement records, fills | `apply_fill`, `get_sellable_quantity` | T+1; `apply_fill` may raise half-way; fills may come twice |
| Market rules (`execution/market_rules.py`) | none | `validate` | a decision on a ledger that changes before the fill |
| Backtest orchestrator (`backtest/`, `time/clock.py`) | virtual clock, slots of binding and symbol, universe versions, counters | `run` | order of the bars, universe switches, exceptions in mid-run |
| Universes (`universe/`) | published snapshots | `save`, `latest_visible`, `resolve` | look-ahead: `available_at` and `effective_time` |
| Feature engine, strategies (`features/`, `strategies/`) | windows of bars | `update_closed_bar`, `on_bar` | which bars a window holds; thresholds |
| Strategy composer (`strategies/composer.py`) | its runtimes and weights | `decide` | weights go by position, candidates are some of the runtimes' |
| Strategy registry, versions (`strategies/registry.py`, `config/versions.py`) | registrations; frozen identities | `register`, `get`, `resolve_many`, `freeze_strategy` | parameters are validated and hashed twice; several registries, one version registry |
| Backtest runner (`backtest/runner.py`) | engine, composer, repository | `run_bars` | repeated calls, bars out of order |
| Evaluation algorithms (`evaluation/evaluator.py`, `fill_model.py`, `triple_barrier.py`) | none | `evaluate`, `detect_first_barrier_hit` | several barriers in one bar; horizons of one signal |
| Paper portfolio (`portfolio/paper.py`) | one position and its fills for each symbol | `apply_signal` | signals in any order, applied again |
| Signal service (`signals/service.py`, `contracts/signals.py`) | none | `create_event`, `deterministic_signal_id` | what the id is made of |
| Market data stores (`market_data/repository.py`, `sqlite_repository.py`) | bars by version key | `save_bar`, `read_bars` | revised bars; two runs that insert the same one |
| Market data sources (`market_data/sina_source.py`, `akshare_source.py`, `normalizer.py`) | none | `read`, `read_with_quarantine`, `normalize` | failures, gaps, revisions, bars that are still open |
| Reconciliation (`market_data/reconciliation.py`) | none | `compare_bars` | which differences it sees |
| Shadow runs (`dashboard/shadow.py`, `server.py`) | status, stop flag and counters of each run | `start_run`, `stop_run`, the thread of a run | threads, handlers, a crash of the server, two shared stores |
| Trading calendar (`time/trading_calendar.py`) | none | `next_session_time`, `next_evaluation_time` | boundaries of the sessions |
| Command line (`cli/`) | output files | `run_backtest --resume`, `compare_runs`, `validate_backtest` | files written one after the other |
| Run specification, manifest, configuration (`backtest/run_spec.py`, `manifest.py`, `config/`) | frozen records | validation, hashing | - |
| Observability (`observability/`) | event buffer and file; samples; alert handlers | `emit`, `flush`; `inc`, `set`, `reset_metrics`; `evaluate_all`, `route` | a flush that raises; an evaluator with an old collector; a handler that raises |
| Regimes, reporting | files | - | - |

How they interact: the orchestrator (offline) and the shadow runs (online)
both drive the pipeline *bar -> store -> features -> strategies -> signal ->
store*. Signals become tasks (`create_tasks_for_signal`), which workers drain by
the sequence of `docs/architecture/module-design.md` 5.2 and
`tests/integration/test_research_pipeline.py:91`; the package has the calls, not
the loop. The ledger and the market rules meet in the tests
(`tests/backtest/test_market_rules.py`, `tests/golden/test_golden_cases.py`); the
orchestrator does not call them yet. `dashboard/server.py` imports
`dashboard/watchlist_repository.py`, which the repository does not contain.

What makes each correct:

- tasks: completed only with a final evaluation, evaluations written once, never
  early, from stored bars, and in the end for every task;
- ledger: cash and shares are what the fills make of them, T+1, no sale without
  shares, no half-applied fill;
- shadow runs: a status that says what happened, a stop that is not lost, signals
  made of stored bars only;
- orchestrator: exactly the signals that the bars and the published universes
  call for, nothing from the future;
- registry and signals: what a signal carries is frozen, and stays so; a replay
  stores the same signals once;
- evaluation: due in a session; label, excursions and horizons tell one story;
- command: `--resume` says OK only for what a run of the same hash has finished;
- ingest: the first closed bar stays, and every contradiction leaves a record;
- event chain and alerts: nothing accepted is lost, nothing is counted twice;
- hazards in full, each at its line: `PROJECT.json`, `hazards`.

## 2. Modules

| Module | Models |
| --- | --- |
| `EvaluationFacts` | abstract: at most one evaluation for each task, written once; finished tasks have a final one |
| `EvaluationTasks` | the store, the workers, crashes, time, late bars; implements `EvaluationFacts` |
| `RecordedRuns` | abstract: what runs over market data promise to the readers of their stores: bars and signals written once, as planned, and nothing left out by a run that completed |
| `PortfolioLedger` | the ledger: what each branch of `apply_fill` does |
| `MarketRules` | which orders `validate` accepts |
| `OrderFlow` | composes the two: orders validated, filled later, time |
| `ShadowRuns` | threads, handlers, stores and restarts of the dashboard; implements `RecordedRuns` |
| `BacktestRun` | one run of the orchestrator with its universes, slots and stores; implements `RecordedRuns` |
| `RunSpec` | a run specification: what is valid, what is hashed, the manifest made of it |
| `RunCommand` | invocations of `run_backtest` that share directories and may be killed |
| `EventChain` | the exporter of events: buffer, flush, file, restarts |
| `AlertFlow` | metrics, the evaluator of rules, the router of alerts |
| `MarketIngest` | rows of a provider, made bars or quarantined, saved, reconciled |
| `ParamSchema` | coercion, validation and hash of strategy parameters |
| `StrategyRegistry` | registries that freeze identities in one version registry |
| `RuleStrategies` | the feature engine of a symbol and the four shipped strategies |
| `StrategyComposer` | the decision of a composer under its three policies |
| `ResearchRun` | composes the four: register, compose, `run_bars`, again; implements `RegistrySpec` of `StrategyRegistry` |
| `SessionCalendar` | the trading calendar: sessions, lunch, holidays |
| `PathEvaluation` | what an evaluation makes of a path of bars |
| `SignalJourney` | a signal's tasks, the bars that come, its evaluations |
| `PaperBook` | the paper position of a symbol |
| `MCResearchRun`, `MCAroundBacktest` | instances of several modules at a time |
| other `MC...` | instances of one module |
| `Sorting` | what `sorted` and `ORDER BY` return: a set in any strict order, numbers, bars by their times, the elements at some places |
| `SumLemmas` | no component: lemmas on sums, extremes, sequences, sorting and smallest counterexamples |
| `..._proofs` | theorems about the module of the same name; `ResearchRun_proofs` also about `StrategyRegistry`, `RunCommand_proofs` about `EventChain` and `AlertFlow`, `SignalJourney_proofs` about `PathEvaluation`, `SessionCalendar` and `PaperBook` |

### EvaluationTasks

`task` and `evaluation` are the two tables. A worker has a program counter `pc`,
the task in its hands `cur`, the `EvaluationTask` object it read `held` and the
`SignalEvaluation` it made `result`. The methods that read and then write are two
actions (`ClaimRead`/`ClaimWrite`, `UpsertRead`/`UpsertInsert`,
`CompleteRead` or `PostponeRead`/`FinishWrite`), as each opens a connection for the
SELECT and another one, or an autocommitted statement, for the write.
`_replace_task` writes the whole row whatever it has become, and so does
`FinishWrite`. `UpsertInsert` fails on the primary key.

Time. A row has what is left until `due_time`, `lease_expires_at` and
`next_retry_at`; "deadline <= now" is "counter = 0", and `Tick` counts all of them
down, those of the objects in the workers' hands too. So time needs no bound. The
clock reading itself matters only to `created_at`, which is compared for
equality: `clock` takes the smallest reading that nothing remembers, so that
`LastStamp` readings are enough once it is at least the number of evaluations
stored or in hand.

External, after the tests and the design: the worker stores its evaluation and
then completes the task if it is final, postpones it if not. Whether it also
stores the POSTPONED evaluations that `evaluate` returns without bars is a
constant, `PersistUnavailable`: the tests do not, nothing forbids it.
`SignalConflictError` ends the attempt. A crash may come at any step.

Abstracted: the figures of an evaluation are the number of bars it was made of;
whether the first bar can be traded is fixed for each task (`Fillable`); attempts,
worker ids and error texts are read by no guard. SQLite's "database is
locked" after five seconds is left out: it would end an attempt as a crash does.

### RecordedRuns

What the dashboard's readers and the users of a backtest may rely on, without loops,
threads, universes or an order of the work. A run learns its `plan`, once: the bars it
has to store, and the signals they call for. Bars and signals are stored one at a
time, under a key or an id that has none, a signal only after the bars it is made of. A
run may fail at any point, and a process may die, which leaves the stores;
`COMPLETED` means that the plan is stored and that nobody asked the run to stop. The two
pipelines implement it in different ways:

| | `ShadowRuns` | `BacktestRun` |
| --- | --- | --- |
| `Run` | every run of the dashboard | the one run |
| `phase` | idle until its thread is created, running until it is done, then its status | idle, running, `FAILED` by one of the exceptions, or `COMPLETED` |
| `asked` | the runs whose stop flag is set | nobody |
| `plan` | known when the provider has answered: its bars, and a signal for every window that makes one | known when the universes are found: the bars given, and a signal for every prefix of what a binding follows that makes one |
| `bars`, `signals` | the two SQLite tables | the two repositories |

### PortfolioLedger, MarketRules, OrderFlow

`Bought`, `Sold`, `BuyRaises` and `SellRaises` are the outcomes of `apply_fill`,
in the order of its statements: the fill id is recorded first, the proceeds of a
sale are credited before its fee is debited and its shares are subtracted. A
settlement record is kept in the slot of time in which it falls due; records are
never removed in the code, so `settled` only grows. `MarketRules!Accepts` is the
conjunction of what `validate` does not reject. In `OrderFlow` a `serial` caller
has one accepted order at a time, an `overlapping` one several; the fill comes at
any price and fee of the instance, not the price it was validated at. The code
leaves the caller open, and so each property says which one it needs.

### ShadowRuns

`_run_shadow` and `_process_bars` are one action for each stretch between two
accesses to something shared: the status under the lock, `save_bar` and
`append_signal`, each SELECT and INSERT apart. The request to the provider
answers with any set of bars, of any content (revisions between runs), or fails.
`Restart` takes threads and run states away and leaves the stores. Runs over
other symbols or versions share no key and are left out. `event_time` is the
run and the server's life: two runs do not read the same microsecond, which is
what the two events of one id would need to be equal.

### BacktestRun

A run is one thread; its variety is in its input, chosen in `Init`: bars missing,
repeated, revised or before `from_time`, versions of a universe published before,
at or after they take effect. `TakeBar`, `SaveBar`, `CheckUniverses`, `CountBar`
and, for each binding in turn, `SkipBinding` or `ProcessBinding` are the calls of
`_process_bar`. An exception is a status from which nothing follows: `early`,
`revised`, `refused`, `unknown`. `history` holds the windows of the feature engines
as times of bars, and `Snapshots(b)` is what `UniverseRepository` keeps of the universe
that binding `b` follows. What the run *should* make of its input is defined apart from
its steps, from the bars and universes alone (`Followed`, `SignalsOf`,
`Switches`), and `FinishedRunIsComplete` compares the two.

### RunSpec, RunCommand

An invocation goes through the stages of `_run`: load, with `--resume` look at the
manifest in the directory, run, write the manifest, the trace, the manifest again.
`open(path, "w")` and the text reaching the file are two steps, as another process
may come in between; a shorter text over a longer one leaves the end of the longer
one, which is no JSON. `Kill` may come at any stage. `ResolvedHash` is the spec
without what `compute_resolved_hash` leaves out, and SHA-256 is taken to be
injective. The history variables `ran`, `found`, `alone` and `latest` are read by
properties only.

### ParamSchema, StrategyRegistry, RuleStrategies, StrategyComposer, ResearchRun

`Coerce` and `Validate` do what `strategies/schema.py` does to the values that
matter (texts that read as numbers, floats cut off to integers, unknown and
missing fields). A registration keeps the identity that was frozen, and `Get` builds
an instance of it, validating and hashing the parameters anew. `register` is one
step, under the lock of its registry. `OnBar` is the rule of each shipped strategy,
with its default thresholds; quotients are compared as numerator and denominator.
`Decide` is `StrategyComposer.decide`: who won, who was rejected and why. The loops of
the code that pick, sort and filter are the operators of `Sorting`, which say what
comes out and not how; `Candidates` keeps the order of the runtimes and forgets who
was silent, and `WeightedScore` pairs the weights with what is left, as `zip` does.
`ResearchRun` composes them into a `BacktestRunner`: strategies are registered
(`Prepare`), composed, and lists of bars are run, on the same runner or on a new one,
with the clock moved or not. The properties ask what each policy would have decided of
the same answers (`Under`), with the weights of the composer if SCORE_WEIGHTED takes
them, and with equal ones otherwise (`Weights`).

### SessionCalendar, PathEvaluation, SignalJourney, PaperBook

Pure operators (`NextSessionTime`, `EvaluationOf` and what it calls) and a small
state machine around them: a signal is scheduled for every horizon, bars of its window
are saved on time, late (`SaveBar` takes any tick that is over, in any order) or never,
and due tasks are evaluated, postponed ones again. The history variable `observed` has
the bars an evaluation was made of, and is read by properties only. A COMPLETED
evaluation is not made anew when a gap in its window is filled, so two horizons may have
read different bars; `LongerHorizonAgrees` compares those for which no bar of the
shorter window was saved in between (`SameBars`). `First` and `Min` stand for
the loops of the code that stop at the first day, and the first bar, that fits. A path
is a function from the times of its bars, which the code has sorted, and "the bar
before" another one is the one with the greatest earlier time.
`PaperBook` is the position of one symbol under repeated and reordered signals.

### EventChain, AlertFlow, MarketIngest

`Flush` writes the entries up to the first that cannot be written, and empties the
buffer only if there is none. In `AlertFlow` an evaluator holds the collector it was
made with, whatever `reset_metrics` does later; `handlers` and `added` are the two
lists of the router, and `Evaluate` fires the rules of `Breached` in their order. `MarketIngest` takes a row through
`_canonical_row`, `BarNormalizer` and `save_bar` under either duplicate policy, with
the wall clock moving between rows; `read_with_quarantine` and `validate_window` are
the second kind of call. `Issues` is `compare_bars`.

## 3. Runs

| Run | Instance | Shows |
| --- | --- | --- |
| `evaluation_safety` | 1 task, 3 workers, 2 bars, 1 crash; 1.3 million states up to symmetry | the four invariants, `TasksAreNeverReset`, and that `EvaluationTasks` implements `EvaluationFacts` |
| `evaluation_liveness` | 1 task, 2 workers, 1 crash | `EventuallyEvaluated` |
| `evaluation_retry` | 1 worker, 1 crash | violated: a task whose evaluation is stored is not always completed |
| `evaluation_lease` | 2 workers, no crash | violated: the lease is not exclusive |
| `order_flow_atomic` | 3 orders | violated: a fill that raises may leave the proceeds |
| `order_flow_t1` | 3 orders | violated: shares bought today can be sellable |
| `shadow` | 2 runs, 2 bars, 2 contents, 1 restart; 0.3 million states | stores, counters and status agree; stops are not lost and runs end; that `ShadowRuns` implements `RecordedRuns` |
| `shadow_rerun` | 2 runs, one content | violated: a repeated signal is refused, not deduplicated |
| `backtest` | 2 bindings, 2 symbols, times 0 to 4, all pairs of 12 snapshots, one irregular bar; 0.3 million states | the run follows its universes and makes exactly the signals called for; that `BacktestRun` implements `RecordedRuns` |
| `backtest_universe` | the same | violated: universes that are not in effect are followed |
| `around_backtest` (`MCAroundBacktest`) | six parts side by side, 1 million states up to symmetry: 3 invocations of 6 requests; an event chain, metrics, routing; two calls to a provider; 4 orders, prices 1 and 2, fees 0 and 1, both callers | what `--resume` finds and what a command leaves; what chain, alerts and ingest keep; the ledger is what the fills make of it, sales are covered, the overdraft is bounded, no shares stay locked |
| `research` (`MCResearchRun`) | three parts side by side, 1.1 million states: 4 strategies, 2 registries, 11 requests, 6 composers, 2 calls over 6 lists of bars; a signal with 3 horizons over 3 days, 6 kinds of bars, saved in any order and at any time; 6 paper signals | what is registered, stored and composed agrees; replay; due times; labels, excursions and horizons agree; the paper position |

In `around_backtest` and `research` the variable `part` picks the component that moves in
a behaviour. The parts share no state in the code either, or only what one hands over
when it has ended, so no interleaving of them is left out.

Why the bounds are enough.

- Tasks share nothing but the workers' attention: one task, and a third worker,
  which is the first that can meet two stale writers. Two bars let a window grow
  between two evaluations. Lease and retry delay of one tick make every deadline
  expire while any step is outstanding; in the lease run a lease of two
  ticks outlives the whole evaluation, so that expiry is no excuse.
- Four orders allow buy, sell, buy, sell with stale validations in between; a lot
  of two and quantities 0, 1, 2 and 4 hit the lot rule from both sides; a day of
  two slots separates "due the next day" from "due 24 hours later".
- Two shadow runs are all that can race for one key; lookback 2 over two bars gives
  windows that mix a run's own bars and another run's.
- The irregular bar of a backtest meets every pair of versions of one universe,
  the other universe being steady; with lookback 2, symbol 2 gets another
  direction when its window has a gap.
- Three invocations: one that is killed or overwrites, one whose manifest is found,
  one that finds it. Between them the requests change a field that the hash
  has, fields that it leaves out, and what each exit of the command looks at.
- Two registries and a direct freeze are all that can dispute a name; each payload
  meets another branch of `coerce`. Lookback 3 with four bars has a window that is
  too short, full, and moving. Four composers of two strategies and two of three
  let a silent runtime come before, between and after ones that answer; weights
  of 1 and 2 turn a sum.
- A day of nine ticks has each boundary of the two sessions, the break and the
  night; day 1 is a holiday. The kinds of bars lie on either side of both barriers,
  on both at once, and gap past one. Horizons of one to three ticks have up to three
  bars in a window, so that a bar may be missing before, between and after others when
  the shorter horizon is evaluated and there when the longer one is.
- A buffer of two entries, and two processes; two collectors and two rules on one
  metric; two calls over answers that repeat, revise, leave open and garble a row.

`CHECK_DEADLOCK FALSE` is set where a run ends by design (`backtest`,
`backtest_universe`, `around_backtest` and `research`). All other instances can always take a step: time passes,
bars arrive or handlers answer.

Violation runs state what the documents promise; the quotes are in
`PROJECT.json`, `findings`.

## 4. Fairness

`EvaluationTasks!Fairness`: weak fairness of `Tick`, of the arrival of bars and of
the steps of a worker that has a task, and strong fairness of some worker
discovering a task: a loop over the whole list of `find_due_tasks` and
`find_expired_leases` comes to every task that is returned again and again. A crash
and the creation of a task are not forced. The arrival of the missing bars
is what evaluation waits for and cannot be done without.

`ShadowRuns!FairSpec`: weak fairness of each thread. The operating system
schedules it, its lock is held for single assignments only and its request
has a timeout. Nothing forces handlers or a restart.

## 5. Theorems

All proofs are for arbitrary constants under the named assumptions of the
modules (`TasksAssumption`, `LedgerAssumption`, `RulesAssumption`,
`FlowAssumption`, `RunsAssumption`, `EventAssumption`, `RunAssumption`,
`InputAssumption`, `CommandAssumption`, `RequestsAssumption`, `ChainAssumption`,
`AlertAssumption`, `RegistryAssumption`, `AbsentAssumption`, `CalendarAssumption`,
`JourneyAssumption`, `PaperAssumption`, `IngestAssumption`, `ListsAssumption`,
`ComposersAssumption`), which TLC evaluates in the runs. All of them
are proved except what is listed at the end of this section.

**Tasks** (`EvaluationTasks_proofs`). The inductive invariant `TasksInv` is the type
invariant, the three invariants of the runs, and two facts they need: a
stored evaluation belongs to a task that has a row (`EvaluationsHaveTasks`), and
what a worker knows at each program counter (`WorkersKnow`): a worker about to
complete a task has its final evaluation in the store, the row in its
hands was due when it was read, its result was made of bars then persisted. It is
needed since a stale row in a worker's hands is written back later: what was
true of it when it was read must be shown to be true still. The type invariant has, of
each worker, that the object in its hands fits its evaluation (`HandsFit`): the row it
is about to write back says COMPLETED exactly if that is final. From it follow `TypeCorrect`,
`CompletedOnlyWithEvaluation`, `NothingEvaluatedEarly`,
`FinalEvaluationsComeFromBars`, the action property `TasksNeverReset`, and
`TasksImplementFacts`, the refinement of `EvaluationFacts` step by step.

**Orders and ledger** (`OrderFlow_proofs`).

- `TypeCorrect` (positions stay natural numbers although sales race),
  `OverdraftIsBounded` (a debit needs cash, so only the unchecked fee of one booked
  purchase can go below zero, and what comes after either fails, pays in, or is again
  such a purchase) and `SerialSalesAreCovered`, which needs that a serial caller has at most one
  order on its way.
- `BooksBalance` has two halves. `BookedFillsAlwaysAddUp`: cash and positions are the
  sums of what the booked fills bring in. The invariant `BooksInv` says the same of sums over a finite set, `Total`, which a
  fill changes by one term; cash is only claimed for a serial caller with small fees,
  as a sale that raises half-way leaves its proceeds. `CashSum` and `SharesSum` lead
  from there to the folds of the property.
- `CashIsAlwaysAccountedFor` claims the cash for every caller and every fee. Half of a
  sale may stay behind when `apply_fill` raises, and the theorem says that this is all
  that can: `CashInv` keeps the set of sales that raised after their fee was taken,
  which the state does not record, as a witness. `Accounts` has two sums, and
  `FillAccounts` says to which one each branch of the ledger adds the order; a purchase
  that raises and a fill that is delivered again add to neither.
- `SharesUnlock`: in a day without trades every share becomes sellable. The invariant
  `HeldSharesHaveRecords` bounds a position by what is settled and what waits in the
  slots of a day; a sale takes shares and no records. As `Elapse` only moves records
  on, nothing waits after as many quiet slots as a day has.

**Shadow runs** (`ShadowRuns_proofs`).

- `RunsInv` adds to the type invariant that a run counts bars
  and signals only after it went to them (`CountersFollow`, which bounds the
  counters), that what a run has passed is stored as it fetched it
  (`BarsBehindAreStored`), that the event in its hands is made of such bars, that a
  thread that has not fetched is at no bar, and that a thread that is done has a final
  status. It rests on the lemma `StoredBarsStay`: `save_bar` only ever adds. A
  window reaches back over bars the run stored itself or found stored with the same
  content, so none of this needs the other runs to behave. From it:
  `SignalsHaveTheirBars`, `EndedRunsStayEnded`, `StopsAreNotLost`.
- `CompletedRunsAreComplete` and `CountersAreRight` compare a run with what it has in
  the stores. `WorkOf(r)` follows the run through its program counter: the bars behind
  it are those it has seen, and their signals are stored under its name
  (`SignalsAreStored`); it has stored none of a bar it has still to handle
  (`MineAreBehind`), so that the next signal is a new one, and `created` is the number
  of its signals, less the one that is just being counted (`MineAreCounted`); it
  leaves the loop before the last bar only when told to stop (`NothingLeftOut`).
  Steps of other runs leave all of this alone because the stores are only added to
  (`StoresGrow`).
- `ShadowRunsKeepTheContract`: `ShadowRuns` implements `RecordedRuns`, with one lemma
  for each kind of step. A SELECT, a move of the loop or a counter is a stutter;
  an answer of the provider is `Fetch`, each INSERT that succeeds a `StoreBar` or a
  `StoreSignal`, the except clause after one that hits the primary key a `Fail`. `ReadersInv` has what the
  mapping needs beyond the invariants above: what a thread knows where it is
  (`ThreadKnows`), that the signals of a run are those of its own bars
  (`MineAreOfTheFeed`) and lie under their ids (`SignalsKeepTheirIds`). The hard steps
  are `AppendInsertIsOfContract`, as the event was made before another run's steps, and
  `EndIsOfContract`, as COMPLETED must leave nothing of the plan out. A restart is
  `Forget`.

**Strategies and registries** (`ResearchRun_proofs`).

- Of `StrategyRegistry`: validation is idempotent
  (`ValidatedTwice`), as `get` validates and hashes the stored parameters once more,
  and what it builds must still have the identity that was frozen. With
  `RegistrationsAgree`, which keeps what a registration knows of its parameters,
  it gives `RegisteredStaysFrozen`; `IdentitiesAreFrozenForever` is the action
  property of the version registry.
- `RunImplementsRegistry`: each step of the pipeline is a step
  of `RegistrySpec` or leaves its variables alone, so that the theorems above hold
  of it. `StoredSignalsStayFrozen` follows, because a signal is stored only if its
  identity is frozen and no identity is ever replaced.

**Composer and `run_bars`** (`ResearchRun_proofs`). `ComposersAssumption` says that the
strategies are the shipped ones, and that a composer has a policy of the enumeration,
integer weights, and sources that exist or may come to exist; `ListsAssumption` that
lists of bars are sequences and times are integers. How many strategies, names,
weights and bars there are, and what the bars say, is left open.

- `PoliciesDifferOnlyOnConflicts`: of candidates of one direction, every policy makes
  one of that direction, from the strategy that comes first, or none under UNANIMOUS; of
  candidates that disagree, UNANIMOUS and PRIORITY_MAX_CONFIDENCE make none, and
  SCORE_WEIGHTED what the signed sum says if the silent runtimes come last (otherwise
  the weights go to the wrong candidates, and nothing is claimed). `VerdictInv` keeps
  that the runner is built of registered or shipped classes, and that the answers are
  those of its runtimes, in their order. From there it is arithmetic on candidates:
  `CandidatesArePicked` gives the places they come from, `BestComesFirst` the winner of
  PRIORITY_MAX_CONFIDENCE (the order by priority, confidence and place is strict and
  total, so something is first), `SumOfOneDirection` the sign of a sum, and
  `AgreedDecision` and `DisputedDecision` the two halves of the theorem.
- `FailuresAreCaused`: a call ends early only for one of the causes that
  `FailuresHaveCauses` names. `DecisionIsLike` is what the composer does to a candidate:
  it comes from one of the runtimes, and only SCORE_WEIGHTED turns it, which is how a
  valid candidate becomes an invalid one. For conflicts the invariant `FailureInv` adds
  that the queue has bars of the list of the latest call (`CallIsOnItsList`), and that
  in a first call over bars of distinct times nothing in the queue is stored
  (`FirstCallIsFresh`).
- `ReplaysAreIdempotent`: one runner, one set of bars, one time of the clock, lists in
  any order, calls ended or broken off. `Progress` says how far a call is: sorted, the
  bars are one sequence (`SortedProperties`), the engine has the first `k` of them, the
  rest is the queue, and what the first `k` call for is stored. A bar is then given to
  an engine that has just the bars up to its time (`ObservedInOrder`), which is how
  `EventsOf` defines its event without any run; so an event of the same identity that
  is already stored is that event.

**A run of the orchestrator** (`BacktestRun_proofs`).

- `TypeCorrect` needs that the bars come in order
  (`BarsComeInOrder`): it also shows that the scheduler's branch for a bar out of
  order is never taken, as the orchestrator sorts. `DecisionsUseThePast` adds that a
  bar is stored before it is offered (`BarIsStored`) and that engines hold stored
  bars not after the clock; the window is a part of them, whatever
  `update_closed_bar` sorts. `DistinctStrategiesStayApart` adds that every signal is
  of a bar that its binding has been offered (`SignalsAreOfOfferedBars`), so that a
  bar that is offered next makes a new `signal_id`.
- `EnginesFollowUniverses` and `FinishedRunsAreComplete` compare what the loop did with
  what the input calls for, which is defined without the loop. The invariant is
  `RunInv`. Its core is `EnginesFollow`: what the engine of a slot holds, with the bar
  that its binding has yet to take, is the concatenation (`Concat`) of the bars
  taken at each time at which the universe has the symbol. It needs that
  the bindings have the versions of the clock, or still those of the bar before
  while a new bar is on its way to `CheckUniverses`, and that the changes counted are the
  switches up to there (`VersionsAreCounted`); that the symbols of these versions
  have slots (`SlotsAreMade`), as a bar without a slot would be skipped; that a
  symbol's bar is counted before a binding takes it (`CountsSuffice`); and
  that the signals stored and counted are those that the engines call for
  (`SignalsAreCalledFor`). When no bar waits any more, what was taken is all there
  was (`LoopFacts`). Repeated bars are covered: the segment of a time is as long as the
  bars taken then.
- `BacktestsKeepTheContract`: `BacktestRun` implements `RecordedRuns`. The plan is what
  the whole list of bars calls for, and the run is compared with it in its middle:
  what an engine has seen must be a beginning of what its binding follows in the end
  (`SeenIsPlanned`), or a signal could be stored that the plan does not have. This
  needs `StoreInv`: the bars saved so far agree with every content given for them
  (`ContentsAgree`, else the run has failed), and no bar is left behind by a later
  one (`NothingIsSkipped`). A bar that is given again with the same content is a
  stutter, with another one a `Fail`. When the list is empty the engines hold the whole
  plan (`EnginesHoldThePlan`), which makes `finished` a `Complete`.

**Command, event chain, alerts** (`RunCommand_proofs`).

- `CommandInv` says who can have written what: a writer's
  orchestrator has returned, with a spec that was loaded; a manifest is of such an
  invocation and of its directory. With the lemma `FoundManifestIsComparable` (specs
  of one hash make manifests that differ in the `run_id` alone) it gives
  `ResumeJustified`. `OwnersInv` adds `Undisturbed`: what is in the directory at each
  stage of an invocation that has been alone there, and that no one else is writing.
  It gives `LoneRunKeepsItsManifest`.
- `ChainsAreComplete`: every event emitted is in the buffer or in the file, and while
  no flush has raised the file ends with this process's events in order. `ChainInv`
  states the latter as a decomposition of the file into what earlier processes left
  and what this one has written, `FileIsInOrder`.
- `ReadingsAreSums` and `AlertsReachHandlers` rest on `AlertsAreRight`: the
  samples of each counter add up to what was counted since its collector began
  (`SamplesAddUp`), and the handlers of a severity are those that `add_handler` was
  given for it (`HandlersAreListed`). Each is more than what an alert that is being
  routed can see, and is kept by all steps.
- `FirstReadsAreKept` (`MarketIngest`, `IngestAssumption`: the latest time is a natural
  number): the first closed bar read of each key is what the repository has of it, under
  both duplicate policies. `IngestInv` consists of this and of the count of
  contradictions, each of which is in the quarantine or has ended the call. That
  `read_bars` is strictly ordered, that `query_missing` is its complement, and that the
  reconciler reports contradictions and nothing else are consequences (`StoredIsFirst`,
  `ReplayIsInOrder`, `IssuesAreContradictions`).

**Evaluations of a signal** (`SignalJourney_proofs`).

- `DueInNextSession`: `next_session_time` returns the first
  session time that is not before the target, for all session times and holidays, and
  is monotonic. The lemma `EarlierByDay` replaces times by days and ticks, so that
  no product is left. The assumption that a trading day follows every target is what
  makes the loop of the code end.
- `LabelsFitExcursions`: label, `mfe`, `mae` and `time_to_mfe` tell one story, for
  all barriers and paths (`LabelFitsPath`). The walk of `detect_first_barrier_hit`
  and the extremes that are computed beside it see the same prices. A PROFIT_TAKE is of
  a bar up to which nothing stops a loss, so a bar that reaches both barriers cannot be
  labelled as one; a STOP_LOSS under AMBIGUOUS is of one up to which nothing takes a profit.
- `HorizonsAgree`: what a shorter horizon has read is the beginning of what a longer one
  has, if no bar of the shorter window was saved between the two evaluations
  (`SameBarsPrecede`); then a barrier that is hit is hit alike, and the excursions
  only widen (`PrefixHitIsHit`, `PrefixExcursions`). It needs `EvaluationsAreRepeatable`:
  an evaluation that is stored would come out the same now of the bars it was made of,
  whatever was saved since, because `save_bar` never replaces a bar.
- `PaperBookBalances`: the position of a symbol is what its fills add up to, as each
  signal is filled once (`PaperInv`).

**Common lemmas** (`SumLemmas`). The induction theorems of the library take operators,
which the installed provers cannot instantiate. Every induction here is a smallest
counterexample instead: the least number (`LeastNatural`, `UpToNumber`) or the
smallest set (`SmallestSet`) for which something fails, by the minimal element of a
well-founded order. The folds of the community modules are reached the same way:
`TotalIsSum` says that `MapThenSumSet` is `Total`, which is determined by its
values at the empty set and at a set less one element, and `FlattenIsLast`,
`FlattenOne` and `FlattenMore` give `FlattenSeq` its equations. `Ranked` puts a finite set in
any strict total order (`RankedSorts`: the place of an element is after as many as
come before it), and there is only one way to put integers, or bars by their times,
in order (`AscendingIsUnique`, `ByTimeIsUnique`). The rest are extremes of finite
sets and facts on sequences.

Only model-checked: the liveness properties `EventuallyEvaluated` and `StartedRunsEnd`,
as the prover has no ENABLED and fairness is out of its reach. The abstract
specifications of the refinements have no fairness and are proved in full. Every other
property of a passing run is stated by a theorem.

Only proved: the type invariants of `RunCommand`, `EventChain`, `AlertFlow` and
`StrategyRegistry`; `IdentitiesAreFrozenForever`, which TLC sees through
`StoredSignalsAreFrozen`; `EndedRunsStayEnded`, which the contract of `RecordedRuns`
contains.

## 6. What was met on the way

The six disagreements that runs show are in `PROJECT.json`, `findings`. Others, which
the models have as the code does and no property denies:

- `AlertRouter.route` calls a handler of a severity, and then again in the list of
  all handlers, to which `add_handler` adds every handler.
- A strategy registered with a version but without parameters is built with the
  version of its class, and `_verify_strategy_frozen` then refuses its signals; so
  `RegisteredIsFrozen` excepts it.
- `apply_fill` takes the fee of a purchase without looking at the cash, which may go
  below zero; `docs/architecture/backtest-testing-strategy.md:339` asks for `cash >= 0`
  after any random sequence of orders (`:331`). `OverdraftIsOneFee` is what the code keeps
  instead, and is weaker than the document. The trace of `order_flow_atomic` passes
  through such a state.
- `COMPLETED` evaluations are not made anew when a gap in their window is filled later
  (`docs/architecture/testing-and-evaluation.md:125` has missing bars pulled again), so
  the horizons of one signal, evaluated before and after, may differ in entry price,
  excursions and barrier hit. No document says that they may not;
  `LongerHorizonAgrees` excepts it.
- The docstring of `_time_to_extreme` (`evaluation/evaluator.py:119-120`) says that it
  returns None "when no bar advances beyond the executable price"; the code returns the
  time of the best bar of every path. `LabelFitsExcursions` and `LongerHorizonAgrees`
  are about the numbers that the code stores.
- `_time_to_extreme` with "min" looks for the lowest favourable price, while
  `mae` is of the worst one.
- A run that is killed between its first manifest and the second one leaves a
  manifest with status "success" that `--resume` accepts, without trace or artifacts.
- A spec without `data_source_version` runs and ends with OK, and `validate_backtest`
  refuses its manifest; one without `as_of_version` fails for an unknown universe,
  since `_seed_empty_universes` swallows the error of `save`.
- A run without `--debug` leaves the trace of an earlier run beside its own manifest.
- `MarketDataReconciler` does not compare status and amount, and its
  TIMEFRAME_MISMATCH cannot occur, as the timeframe is part of the key it pairs by.

## 7. Not modelled

- `regimes/`, `reporting/`, `evaluation/metrics.py`: Decimal statistics over finished
  evaluations, without state or concurrency. `evaluation/cost_model.py` is one
  multiplication.
- The dashboard's read handlers and formats; `server.py` imports
  `dashboard/watchlist_repository.py`, which the repository does not contain.
- Parsing and serialised forms (YAML, JSON, SQL text, time zones, symbol prefixes)
  where they are inverse to each other; hashes are injective.
- Disk errors; SQLite's lock timeout; an event chain without a path or disabled;
  alert rules without a calibrated threshold, and conditions other than ">".
- Tests of `SignalCandidate.validate` that `reference_price` and `horizon_seconds` are
  positive: the candidates of `ResearchRun` carry neither.
- `PaperPolicy`, whose numbers are fixed, and the warnings of a run specification.

## 8. Left for later

In this order: `UniverseRepository.save` with its duplicate check between runs; the
shadow runs over `MarketIngest`'s policy instead of RAISE; what SCORE_WEIGHTED makes of
silent runtimes that come first, which `PoliciesDifferOnConflictsOnly` excepts.
