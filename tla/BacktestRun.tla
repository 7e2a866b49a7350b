--------------------------- MODULE BacktestRun ---------------------------
(***************************************************************************)
(* One run of BacktestOrchestrator: the bars are sorted, each advances the  *)
(* virtual clock, is saved, makes the bindings look for a new version of    *)
(* their universe, and is offered to each binding in turn, whose feature    *)
(* engine and strategy for that symbol may make a signal of it.             *)
(*                                                                         *)
(* One thread runs all of it: what varies is what it is given, the bars     *)
(* (missing, repeated, revised, too early) and the published versions of    *)
(* the universes, which become visible before they take effect.  Init picks *)
(* them.  An exception anywhere ends the run.                               *)
(*                                                                         *)
(* Symbols and versions are numbers: symbols in the order of their codes,   *)
(* the versions of a universe in the order of UniverseRepository.save.  The *)
(* market repository has its default policy RAISE, the signal service the   *)
(* clock of the orchestrator, and no two bindings have the same id.         *)
(***************************************************************************)
EXTENDS Naturals, FiniteSets, SequencesExt

CONSTANTS
  LastTime,     \* market_data_times are 0..LastTime
  FromTime,     \* spec.from_time
  Symbol,       \* symbols, as numbers
  Bindings,     \* number of strategy bindings of the spec
  UniverseId,   \* universe_ids
  UniverseOf,   \* universe_id of each binding
  Assignments,  \* strategy identities that the bindings may have
  Publications, \* what may be published of each universe: sequences of snapshots
  Inputs,       \* bars the run may be given: contents in order, for each key
  NoBar,        \* no bar is stored
  Lookback,     \* lookback of the feature engines
  Decide(_, _)  \* direction a strategy gives a window of a symbol, if any

Time == 0..LastTime
Binding == 1..Bindings
Key == Time \X Symbol

ASSUME RunAssumption ==
  /\ LastTime \in Nat /\ FromTime \in Time
  /\ Bindings \in Nat \ {0}
  /\ Symbol \subseteq Nat
  /\ UniverseOf \in [Binding -> UniverseId]
  /\ Lookback \in Nat \ {0}
  /\ \A a \in Assignments : DOMAIN a = Binding

Snapshot == [available : Time, effective : Time, symbols : SUBSET Symbol]

ASSUME InputAssumption ==
  /\ \A u \in UniverseId : Publications[u] \subseteq Seq(Snapshot)
  /\ \A g \in Inputs :
       /\ DOMAIN g = Key
       /\ \A k \in Key : /\ Len(g[k]) \in Nat
                         /\ g[k] = [i \in 1..Len(g[k]) |-> g[k][i]]
                         /\ \A i \in DOMAIN g[k] : g[k][i] # NoBar

VARIABLES
  given,      \* the list of bars: for each key the contents, in list order
  published,  \* the UniverseRepository
  strategyOf, \* strategy_name, version and parameter_hash of each binding
  status,     \* where the run is
  taken,      \* bars of each key that the loop has taken
  bar,        \* the key of the bar it is at
  todo,       \* the binding that is next to process it
  clock,      \* VirtualClock.current_time
  lastTime,   \* _last_time of the scheduler; 0 for none
  outOfOrder, \* _out_of_order_count
  stored,     \* market_repo
  versions,   \* _universe_versions; 0 for none
  slots,      \* StatePartition: the pairs of binding and symbol with a slot
  history,    \* the bars (their times) in the feature engine of each slot
  counts,     \* _bars_by_symbol
  changes,    \* len(_universe_changes)
  signals,    \* signal_repo: a set of events
  generated   \* len(_signal_ids)

inputs == <<given, published, strategyOf>>
loop == <<status, taken, bar, todo>>
scheduler == <<clock, lastTime, outOfOrder>>
state == <<versions, slots, history, counts, changes>>
vars == <<inputs, loop, scheduler, stored, state, signals, generated>>

Status == {"new", "sorted", "saving", "switching", "counting", "binding",
           "finished", "early", "revised", "refused", "unknown"}

Direction == {"BUY", "SELL"}

\* What deterministic_signal_id hashes (the data versions are the run's) and
\* a SignalEvent: all else in it follows from its feature window.
SignalId == [strategy : UNION {{a[b] : b \in Binding} : a \in Assignments},
             symbol : Symbol, time : Time, direction : Direction]

SignalEvent == [id : SignalId, window : Seq(Time)]

-----------------------------------------------------------------------------
(* Universes *)

\* The versions of the universe that binding b follows.
Snapshots(b) == published[UniverseOf[b]]

\* is_visible_at: available_at counts, effective_time does not.
Visible(p, t) == {v \in DOMAIN p : p[v].available <= t}

\* The greatest effective_time in a set of versions.
Latest(p, V) == {v \in V : \A w \in V : p[w].effective <= p[v].effective}

\* resolve(require_strict=False): latest_visible, the first of equals; without
\* one the last of get_by_id.
Resolve(p, t) == IF Visible(p, t) # {} THEN Min(Latest(p, Visible(p, t)))
                 ELSE Max(Latest(p, DOMAIN p))

\* UniverseNotFoundError
Unknown(b) == Snapshots(b) = <<>>

\* The symbols of the snapshot that binding b resolves at time t.
SymbolsAt(b, t) == Snapshots(b)[Resolve(Snapshots(b), t)].symbols

-----------------------------------------------------------------------------
(* Windows and signals *)

Window(h) == SubSeq(h, Len(h) - Lookback + 1, Len(h))

\* RuleStrategyRuntime.on_bar: nothing on a window that is too short.
HasCandidate(h, s) == Len(h) >= Lookback /\ Decide(s, Window(h)) \in Direction

\* Mutant of IdOf: the symbol is not hashed.
IdOfAnySymbol(b, k, d) == [strategy |-> strategyOf[b], symbol |-> CHOOSE s \in Symbol : TRUE,
                           time |-> k[1], direction |-> d]

\* The binding is not part of a signal_id.
IdOf(b, k, d) == [strategy |-> strategyOf[b], symbol |-> k[2], time |-> k[1],
                  direction |-> d]

\* The key of StatePartition.
Slot(b, s) == <<b, s>>

\* update_closed_bar: the bar is appended and the bars, which were in order, are
\* sorted by time again: it comes after the n that are not later.
Observed(h, t) ==
  LET n == Cardinality({i \in DOMAIN h : h[i] <= t}) IN
    SubSeq(h, 1, n) \o <<t>> \o SubSeq(h, n + 1, Len(h))

-----------------------------------------------------------------------------
(* The run *)

Init == /\ published \in {p \in [UniverseId -> UNION {Publications[u] : u \in UniverseId}] :
                            \A u \in UniverseId : p[u] \in Publications[u]}
        /\ given \in Inputs
        /\ strategyOf \in Assignments
        /\ status = "new"
        /\ taken = [k \in Key |-> 0]
        /\ bar = <<>>
        /\ todo = 0
        /\ clock = FromTime
        /\ lastTime = 0
        /\ outOfOrder = 0
        /\ stored = [k \in Key |-> NoBar]
        /\ versions = [b \in Binding |-> 0]
        /\ slots = {}
        /\ history = [c \in Binding \X Symbol |-> <<>>]
        /\ counts = [s \in Symbol |-> 0]
        /\ changes = 0
        /\ signals = {}
        /\ generated = 0

\* The slots of the snapshots that the bindings in B resolve at time t.
SlotsOf(B, t) == UNION {{Slot(b, s) : s \in SymbolsAt(b, t)} : b \in B}

\* _initialize: the bindings in turn, up to one whose universe is unknown.
Initialize ==
  LET reached == {b \in Binding : \A c \in 1..b : ~Unknown(c)} IN
  /\ status = "new"
  /\ status' = IF reached = Binding THEN "sorted" ELSE "unknown"
  /\ versions' = [b \in Binding |->
       IF b \in reached THEN Resolve(Snapshots(b), FromTime) ELSE 0]
  /\ slots' = SlotsOf(reached, FromTime)
  /\ UNCHANGED <<inputs, taken, bar, todo, scheduler, stored, history, counts,
                 changes, signals, generated>>

\* The keys of the bars that the loop has not taken yet.
Waiting == {k \in Key : taken[k] < Len(given[k])}

\* Mutant of IsNext: the bars are not sorted.
IsAny(k) == k \in Waiting

\* stable_sort_bars: by market_data_time, then by symbol.
IsNext(k) == /\ k \in Waiting
             /\ \A l \in Waiting : k[1] < l[1] \/ (k[1] = l[1] /\ k[2] <= l[2])

\* Mutant of MovesBack: the clock jumps to any time.
NeverMovesBack(t) == FALSE

\* VirtualClock.advance_to refuses: a bar before from_time.
MovesBack(t) == t < clock

\* advance_to_bar: a bar before the last one leaves the clock alone.
AdvanceToBar(t) ==
  IF t < lastTime
    THEN /\ outOfOrder' = outOfOrder + 1
         /\ lastTime' = t
         /\ UNCHANGED clock
    ELSE /\ clock' = t
         /\ lastTime' = t
         /\ UNCHANGED outOfOrder

\* The loop takes the next bar and advances the clock.
TakeBar(k) ==
  /\ status = "sorted"
  /\ IsNext(k)
  /\ taken' = [taken EXCEPT ![k] = @ + 1]
  /\ bar' = k
  /\ IF k[1] >= lastTime /\ MovesBack(k[1])
       THEN status' = "early" /\ UNCHANGED scheduler
       ELSE status' = "saving" /\ AdvanceToBar(k[1])
  /\ UNCHANGED <<inputs, todo, stored, state, signals, generated>>

\* Mutant of SaveBar: a revised bar takes the place of the first.
SaveBarOver ==
  /\ status = "saving"
  /\ stored' = [stored EXCEPT ![bar] = given[bar][taken[bar]]]
  /\ status' = "switching"
  /\ UNCHANGED <<inputs, taken, bar, todo, scheduler, state, signals, generated>>

\* save_bar: new, a duplicate, or other content under the same version key.
SaveBar ==
  LET content == given[bar][taken[bar]] IN
  /\ status = "saving"
  /\ \/ /\ stored[bar] \in {NoBar, content}
        /\ stored' = [stored EXCEPT ![bar] = content]
        /\ status' = "switching"
     \/ /\ stored[bar] \notin {NoBar, content}
        /\ status' = "revised"
        /\ UNCHANGED stored
  /\ UNCHANGED <<inputs, taken, bar, todo, scheduler, state, signals, generated>>

\* Mutant of NewSlots: a switch makes no slots.
NoNewSlots(B) == {}

\* _initialize_binding_from_spec
NewSlots(B) == SlotsOf(B, clock)

\* _check_universe_changes: slots of the version before are kept.
CheckUniverses ==
  LET changed == {b \in Binding : Resolve(Snapshots(b), clock) # versions[b]} IN
  /\ status = "switching"
  /\ versions' = [b \in Binding |-> Resolve(Snapshots(b), clock)]
  /\ slots' = slots \cup NewSlots(changed)
  /\ changes' = changes + Cardinality(changed)
  /\ status' = "counting"
  /\ UNCHANGED <<inputs, taken, bar, todo, scheduler, stored, history, counts,
                 signals, generated>>

\* _symbol_in_any_universe looks at the slots.
CountBar ==
  LET active == \E b \in Binding : versions[b] # 0 /\ Slot(b, bar[2]) \in slots IN
  /\ status = "counting"
  /\ counts' = [counts EXCEPT ![bar[2]] = IF active THEN @ + 1 ELSE @]
  /\ status' = "binding"
  /\ todo' = 1
  /\ UNCHANGED <<inputs, taken, bar, scheduler, stored, versions, slots, history,
                 changes, signals, generated>>

\* The next binding, or the next bar.
GoOn == IF todo < Bindings
          THEN todo' = todo + 1 /\ UNCHANGED status
          ELSE todo' = 0 /\ status' = "sorted"

\* Mutant of Takes: "if bar.symbol not in snapshot.symbols" is missing.
TakesAny(b) == versions[b] # 0

\* The binding's snapshot is still that of its version and has the symbol.
Takes(b) == /\ versions[b] = Resolve(Snapshots(b), clock)
            /\ bar[2] \in SymbolsAt(b, clock)

SkipBinding ==
  /\ status = "binding" /\ ~Takes(todo)
  /\ GoOn
  /\ UNCHANGED <<inputs, taken, bar, scheduler, stored, state, signals, generated>>

\* append_signal: new, an equal event, or another event with the same id.
AppendSignal(event) ==
  IF \E e \in signals : e.id = event.id /\ e # event
    THEN /\ status' = "refused"
         /\ UNCHANGED <<todo, signals, generated>>
    ELSE /\ signals' = signals \cup {event}
         /\ generated' = generated + 1
         /\ GoOn

\* _process_binding: features, strategy, signal.
ProcessBinding ==
  LET slot == Slot(todo, bar[2])
      seen == Observed(history[slot], bar[1]) IN
  /\ status = "binding" /\ Takes(todo)
  /\ slots' = slots \cup {slot}
  /\ history' = [history EXCEPT ![slot] = seen]
  /\ IF HasCandidate(seen, bar[2])
       THEN AppendSignal([id |-> IdOf(todo, bar, Decide(bar[2], Window(seen))),
                          window |-> Window(seen)])
       ELSE GoOn /\ UNCHANGED <<signals, generated>>
  /\ UNCHANGED <<inputs, taken, bar, scheduler, stored, versions, counts, changes>>

\* The loop ends and the result is built.
Finish ==
  /\ status = "sorted" /\ Waiting = {}
  /\ status' = "finished"
  /\ UNCHANGED <<inputs, taken, bar, todo, scheduler, stored, state, signals, generated>>

Next == \/ Initialize
        \/ \E k \in Key : TakeBar(k)
        \/ SaveBar \/ CheckUniverses \/ CountBar
        \/ SkipBinding \/ ProcessBinding
        \/ Finish

Spec == Init /\ [][Next]_vars

-----------------------------------------------------------------------------
(* What the run should make of its input *)

\* The bars of symbol s from FromTime to t that are offered to binding b while
\* its universe has the symbol, of the first n[k] of each key k: their times, in
\* order.
FollowedOf(n, b, s, t) ==
  FlattenSeq([i \in 1..(t + 1 - FromTime) |->
    LET u == FromTime + i - 1 IN
      IF s \in SymbolsAt(b, u) THEN [j \in 1..n[<<u, s>>] |-> u] ELSE <<>>])

Followed(b, s, t) == FollowedOf(taken, b, s, t)

\* The signals of binding b for symbol s: one for each prefix of the bars
\* followed that gives the strategy a candidate, by its length.
SignalsIn(b, s, followed) ==
  {[binding |-> b, length |-> Len(h),
    event |-> [id |-> IdOf(b, <<Last(h), s>>, Decide(s, Window(h))), window |-> Window(h)]] :
     h \in {p \in Prefixes(followed) : HasCandidate(p, s)}}

SignalsOf(b, s) == SignalsIn(b, s, Followed(b, s, LastTime))

AllSignals == UNION {SignalsOf(b, s) : b \in Binding, s \in Symbol}

BarTimes == {k[1] : k \in {l \in Key : given[l] # <<>>}}

PreviousTime(t) == Max({FromTime} \cup {u \in BarTimes : u < t})

\* The bindings, with the times, at which a bar finds another version of the
\* universe than the bar before it.
Switches == {c \in Binding \X BarTimes :
  Resolve(Snapshots(c[1]), c[2]) # Resolve(Snapshots(c[1]), PreviousTime(c[2]))}

-----------------------------------------------------------------------------
(* Properties *)

\* The run, its stores and its counters are of their types.
TypeOK ==
  /\ status \in Status
  /\ taken \in [Key -> Nat] /\ \A k \in Key : taken[k] <= Len(given[k])
  /\ bar \in Key \cup {<<>>}
  /\ todo \in 0..Bindings
  /\ clock \in FromTime..LastTime
  /\ lastTime \in Time
  /\ outOfOrder \in Nat
  /\ DOMAIN stored = Key
  /\ \A k \in Key : stored[k] = NoBar \/ \E i \in DOMAIN given[k] : stored[k] = given[k][i]
  /\ \A b \in Binding : versions[b] \in 0..Len(Snapshots(b))
  /\ slots \subseteq Binding \X Symbol
  /\ history \in [Binding \X Symbol -> Seq(Time)]
  /\ counts \in [Symbol -> Nat]
  /\ changes \in Nat
  /\ signals \subseteq SignalEvent
  /\ generated \in Nat

\* Between two bars every feature engine holds exactly the bars that its
\* binding should have followed for its symbol, in order: no bar of another
\* symbol or binding, none from a version of the universe without the symbol,
\* whatever versions came and went in between.
SlotsFollowTheirUniverse ==
  status = "sorted" =>
    \A b \in Binding, s \in Symbol : history[<<b, s>>] = Followed(b, s, clock)

\* IF a signal is stored THEN its window is of bars up to its own time, each of
\* them stored: nothing later can have been looked at, in whatever order the
\* list of bars was.
DecisionsUseThePastOnly ==
  \A e \in signals : \A i \in DOMAIN e.window :
    /\ e.window[i] <= e.id.time
    /\ stored[<<e.window[i], e.id.symbol>>] # NoBar

\* IF no two bindings have the same strategy identity and no bar comes twice
\* THEN no signal is refused and every signal_id returned is another signal.
DistinctStrategiesDoNotMeet ==
  /\ \A b, c \in Binding : strategyOf[b] = strategyOf[c] => b = c
  /\ \A k \in Key : Len(given[k]) <= 1
  => status # "refused" /\ generated = Cardinality(signals)

\* A run that finishes has stored every bar and exactly the signals, with
\* their windows, that the bars and the published universes call for, and has
\* counted these, every change of a universe, and at least the bars of a symbol
\* that a binding has taken, although bars are counted before, from the slots.
FinishedRunIsComplete ==
  status = "finished" =>
    /\ \A k \in Key : given[k] # <<>> => stored[k] # NoBar
    /\ signals = {s.event : s \in AllSignals}
    /\ generated = Cardinality(AllSignals)
    /\ changes = Cardinality(Switches)
    /\ \A b \in Binding, s \in Symbol : Len(history[<<b, s>>]) <= counts[s]

\* A binding follows a symbol at a time only if some version of its universe
\* that was visible and in effect then has the symbol
\* (docs/architecture/backtest-domain-model.md:72).
UniversesAreInEffect ==
  \A b \in Binding, s \in Symbol : \A i \in DOMAIN history[<<b, s>>] :
    LET t == history[<<b, s>>][i]
        u == Snapshots(b) IN
    \E v \in DOMAIN u : u[v].available <= t /\ u[v].effective <= t /\ s \in u[v].symbols

-----------------------------------------------------------------------------
(* What readers of the stores rely on *)

\* The bars of a signal, with the content that was given first for each.
BarsOf(e) == {<<<<e.window[i], e.id.symbol>>, given[<<e.window[i], e.id.symbol>>][1]>> :
                i \in DOMAIN e.window}

Recorded(e) == [id |-> e.id, event |-> e, bars |-> BarsOf(e)]

\* What the bindings follow when the whole list of bars is taken, and what that
\* calls for.
Followings ==
  LET all == [k \in Key |-> Len(given[k])] IN
  {<<b, s, FollowedOf(all, b, s, LastTime)>> : b \in Binding, s \in Symbol}

PlannedSignals == UNION {SignalsIn(f[1], f[2], f[3]) : f \in Followings}

GivenBars == UNION {{<<k, given[k][i]>> : i \in DOMAIN given[k]} : k \in Key}

\* The run has a plan once it has found its universes.
Plan == IF status \in {"new", "unknown"} THEN [bars |-> {}, signals |-> {}]
        ELSE [bars |-> GivenBars, signals |-> {Recorded(c.event) : c \in PlannedSignals}]

\* An exception is how a backtest fails.
Phase == IF status = "new" THEN "idle"
         ELSE IF status = "finished" THEN "COMPLETED"
         ELSE IF status \in {"early", "revised", "refused", "unknown"} THEN "FAILED"
         ELSE "running"

StoredBars == {<<k, stored[k]>> : k \in {l \in Key : stored[l] # NoBar}}

StoredSignals == {Recorded(e) : e \in signals}

TheRun == {"backtest"}

Contract == INSTANCE RecordedRuns
  WITH Run <- TheRun, phase <- [r \in TheRun |-> Phase], asked <- {},
       plan <- [r \in TheRun |-> Plan], bars <- StoredBars, signals <- StoredSignals

\* A backtest keeps the contract of RecordedRuns, and is never told to stop: its
\* plan is known before its first bar, nothing is stored twice, against the plan
\* or before its bars, and it fails or completes the plan.
ImplementsContract == Contract!Spec
==========================================================================
