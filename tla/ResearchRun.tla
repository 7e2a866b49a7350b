---------------------------- MODULE ResearchRun ----------------------------
(***************************************************************************)
(* The research pipeline: strategies are registered and frozen, some are    *)
(* composed into a BacktestRunner, and run_bars sends bars through the      *)
(* feature engine, the composer, the signal service and the repository.     *)
(*                                                                         *)
(* One thread runs a pipeline.  Several pipelines may be built one after    *)
(* the other over the same signal repository, and run_bars may be called    *)
(* again on one that has run, whose feature engine remembers what it saw:   *)
(* these, and what was registered how, are the orders that matter.  An      *)
(* exception ends the call of run_bars and leaves engine and repository as  *)
(* they are.  The clock moves between calls (FrozenClock).  The bars are of *)
(* one symbol and one data version.                                         *)
(***************************************************************************)
EXTENDS StrategyRegistry, StrategyComposer

CONSTANTS
  LastTime,  \* times are 0..LastTime
  Clocks,    \* times at which run_bars is called
  Requests,  \* calls of register and freeze_strategy that are made
  Composers, \* what is composed: runtimes, policy and weights
  Lists,     \* lists of bars that run_bars is given
  MaxRuns,   \* run_bars is called at most so often
  NoRunner   \* no runner is built

ASSUME RequestsAssumption == \A request \in Requests :
  \/ /\ request.call = "register"
     /\ request.registry \in Registry /\ request.class \in Class
     /\ request.params \in Payload \cup {NoParams}
     /\ request.version \in Version \cup {NoVersion}
     /\ request.code \in Code \cup {NoVersion}
  \/ /\ request.call = "freeze"
     /\ request.name \in Name /\ request.identity \in Identity

Time == 0..LastTime

ASSUME ListsAssumption ==
  /\ LastTime \in Nat /\ Clocks \subseteq Int
  /\ \A list \in Lists : /\ list \in Seq(ToSet(list))
                         /\ \A bar \in ToSet(list) : bar.time \in Time

\* What StrategyRuntimes and composers pass on; the notes are what composers add to
\* the reason_codes.
Note == ({"AGGREGATED", "UNANIMOUS"} \X Seq(Name)) \cup ({"WEIGHTED_SCORE"} \X Int)
Candidate ==
  [name : Name, identity : Identity, direction : {"BUY", "SELL"},
   action : {"BUY", "REDUCE_LONG", "RISK_AVOID"}, exposure : {"INCREASE_LONG", "DECREASE_LONG"},
   score : 1..100, confidence : 1..100, reasons : Seq(Note)]

\* The strategies are the shipped ones.
ASSUME ComposersAssumption ==
  /\ Class \subseteq DOMAIN ShippedSchema
  /\ NoCandidate \notin Candidate
  /\ \A composer \in Composers :
       /\ composer.policy \in Policy /\ composer.weights \in Seq(Int)
       /\ composer.sources \in Seq(ToSet(composer.sources))
       /\ \A source \in ToSet(composer.sources) :
            \/ source.from = "registry" /\ source.registry \in Registry /\ source.name \in Name
            \/ source.from = "class" /\ source.class \in Class

VARIABLES
  checked,  \* the signal service has the version registry
  runner,   \* the BacktestRunner's composer, with its runtimes
  seen,     \* the bars of its feature engine
  queue,    \* bars that run_bars has still to take
  outcome,  \* how run_bars goes or went
  clock,    \* clock.now()
  signals,  \* signal_repository: SignalEvents
  verdict,  \* history: the latest bar, the answers to it and the decision
  past      \* history: the calls of run_bars

runVars == <<runner, seen, queue, outcome, clock, signals, verdict, past>>
vars == <<registryVars, checked, runVars>>

Outcome == {"none", "running", "returned", "invalid", "unfrozen", "early", "conflict"}

NoVerdict == <<>>

Init ==
  /\ RegistryInit
  /\ checked \in BOOLEAN
  /\ runner = NoRunner
  /\ seen = <<>>
  /\ queue = <<>>
  /\ outcome = "none"
  /\ clock \in Clocks
  /\ signals = {}
  /\ verdict = NoVerdict
  /\ past = <<>>

Idle == outcome # "running"

-----------------------------------------------------------------------------
(* Building a pipeline *)

\* A call of register or freeze_strategy, before the runs.
Prepare(request) ==
  /\ past = <<>> /\ runner = NoRunner
  /\ \/ /\ request.call = "register"
        /\ Register(request.registry, request.class, request.params, request.version,
                    request.code)
     \/ /\ request.call = "freeze"
        /\ Freeze(request.name, request.identity)
        /\ frozen' # frozen
  /\ UNCHANGED <<checked, runVars>>

\* A runtime is taken from a registry, or made by hand.
Available(source) ==
  source.from = "registry" => registrations[source.registry][source.name] # Absent

Runtime(source) == IF source.from = "registry" THEN Get(source.registry, source.name)
                   ELSE Plain(source.class)

\* A composer and a BacktestRunner with a new feature engine.
Compose(composer) ==
  LET runtimes == [i \in DOMAIN composer.sources |-> Runtime(composer.sources[i])]
      built == [names |-> [i \in DOMAIN runtimes |-> NameOf[runtimes[i].class]],
                policy |-> composer.policy, weights |-> composer.weights,
                runtimes |-> runtimes] IN
  /\ Idle /\ Len(past) < MaxRuns
  /\ runner # NoRunner => past # <<>>
  /\ \A i \in DOMAIN composer.sources : Available(composer.sources[i])
  /\ ValidComposer(built)
  /\ runner' = built
  /\ seen' = <<>>
  /\ outcome' = "none"
  /\ verdict' = NoVerdict
  /\ UNCHANGED <<registryVars, checked, queue, clock, signals, past>>

\* Time passes between two calls.
Advance ==
  /\ Idle /\ past # <<>>
  /\ clock' \in {t \in Clocks : t > clock}
  /\ UNCHANGED <<registryVars, checked, runner, seen, queue, outcome, signals, verdict, past>>

-----------------------------------------------------------------------------
(* run_bars *)

\* Mutant of Sorted: the bars are taken as they come.
AsGiven(list) == list

\* sorted(bars, key=market_data_time), stable: of equal times the first in the list first.
Sorted(list) ==
  LET places == DOMAIN list
      sooner == {pair \in places \X places :
                   \/ list[pair[1]].time < list[pair[2]].time
                   \/ list[pair[1]].time = list[pair[2]].time /\ pair[1] < pair[2]}
      order == Ranked(places, sooner) IN
  [k \in DOMAIN order |-> list[order[k]]]

Start(list) ==
  /\ Idle /\ runner # NoRunner /\ Len(past) < MaxRuns
  /\ queue' = Sorted(list)
  /\ outcome' = "running"
  /\ past' = Append(past, [runner |-> runner, list |-> list, clock |-> clock,
                           fresh |-> seen = <<>>])
  /\ UNCHANGED <<registryVars, checked, runner, seen, clock, signals, verdict>>

\* A runtime's answer with what identifies it.
Answer(runtime, snapshot) ==
  LET proposal == OnBar(runtime, snapshot) IN
    IF proposal = NoCandidate THEN NoCandidate
    ELSE [name |-> NameOf[runtime.class], identity |-> runtime.identity,
          direction |-> proposal.direction, action |-> proposal.action,
          exposure |-> proposal.exposure, score |-> proposal.score,
          confidence |-> proposal.confidence, reasons |-> <<>>]

\* The answers of all runtimes to a bar that the engine has just been given.
Answers(r, list, bar) ==
  [i \in DOMAIN r.runtimes |-> Answer(r.runtimes[i], Snapshot(Window(list), bar))]

\* SignalCandidate.validate, without its tests that reference_price and
\* horizon_seconds are positive: candidates of the model carry neither.
ValidCandidate(c) == c.direction = "SELL" => c.action # "BUY" /\ c.exposure # "INCREASE_LONG"

\* Mutant of SignalId: market_data_time is not hashed.
SignalIdOfAnyTime(c, bar) ==
  [direction |-> c.direction, time |-> 0, name |-> c.name,
   version |-> c.identity.version, hash |-> c.identity.hash]

\* deterministic_signal_id: code_version and event_time are not hashed.
SignalId(c, bar) ==
  [direction |-> c.direction, time |-> bar.time, name |-> c.name,
   version |-> c.identity.version, hash |-> c.identity.hash]

\* create_event: the SignalEvent of a candidate.
Event(c, bar, window, now) ==
  [id |-> SignalId(c, bar), name |-> c.name, identity |-> c.identity, time |-> bar.time,
   direction |-> c.direction, action |-> c.action, exposure |-> c.exposure,
   score |-> c.score, confidence |-> c.confidence, reasons |-> c.reasons,
   window |-> window, close |-> bar.close, created |-> now]

\* Mutant of FreezeFails: the name is enough.
FreezeFailsByName(c) == checked /\ frozen[c.name] = Absent

\* _verify_strategy_frozen raises.
FreezeFails(c) == checked /\ ~IsStrategyFrozen(c.name, c.identity)

\* The exception that ends the call for a candidate, in the order of the tests:
\* its validation, the freeze check, event_time against market_data_time, and
\* another event stored under the same id.
Refusal(c, event) ==
  LET passes == ValidCandidate(c) /\ ~FreezeFails(c)
      other == \E e \in signals : e.id = event.id /\ e # event IN
  CASE ~ValidCandidate(c) -> "invalid"
    [] ValidCandidate(c) /\ FreezeFails(c) -> "unfrozen"
    [] passes /\ clock < event.time -> "early"
    [] passes /\ clock >= event.time /\ other -> "conflict"
    [] passes /\ clock >= event.time /\ ~other -> "none"

\* The loop takes a bar: engine, composer, service, repository.
ProcessBar ==
  LET bar == Head(queue)
      now == Observe(seen, bar)
      decision == Decide(runner, Answers(runner, now, bar))
      c == decision.candidate
      event == Event(c, bar, Window(now), clock) IN
  /\ outcome = "running" /\ queue # <<>>
  /\ seen' = now
  /\ verdict' = [bar |-> bar, answers |-> Answers(runner, now, bar), decision |-> decision]
  /\ \/ /\ c = NoCandidate
        /\ queue' = Tail(queue) /\ UNCHANGED <<outcome, signals>>
     \/ /\ c # NoCandidate /\ Refusal(c, event) = "none"
        /\ signals' = signals \cup {event}
        /\ queue' = Tail(queue) /\ UNCHANGED outcome
     \/ /\ c # NoCandidate /\ Refusal(c, event) # "none"
        /\ outcome' = Refusal(c, event)
        /\ queue' = <<>> /\ UNCHANGED signals
  /\ UNCHANGED <<registryVars, checked, runner, clock, past>>

\* The call returns when the list is done.
Return ==
  /\ outcome = "running" /\ queue = <<>>
  /\ outcome' = "returned"
  /\ UNCHANGED <<registryVars, checked, runner, seen, queue, clock, signals, verdict, past>>

Next == \/ \E request \in Requests : Prepare(request)
        \/ \E composer \in Composers : Compose(composer)
        \/ Advance
        \/ \E list \in Lists : Start(list)
        \/ ProcessBar
        \/ Return

Spec == Init /\ [][Next]_vars

-----------------------------------------------------------------------------
(* What a call should make of its list *)

\* No two bars of a list have the same time.
DistinctTimes(list) ==
  \A i, j \in DOMAIN list : list[i].time = list[j].time => i = j

\* The bars of a set up to a time, by their times.
UpTo(bars, t) == ByTime({b \in bars : b.time <= t})

\* The events that a runner with a new engine makes of a set of bars.
EventsOf(r, bars, now) ==
  LET decided(b) == Decide(r, Answers(r, UpTo(bars, b.time), b)).candidate IN
  {Event(decided(b), b, Window(UpTo(bars, b.time)), now) :
     b \in {x \in bars : decided(x) # NoCandidate}}

\* All calls were of the same composer over the same bars, each with a new
\* engine, at the same time.
Replayed ==
  \A i \in DOMAIN past : /\ past[i].fresh
                         /\ DistinctTimes(past[i].list)
                         /\ ToSet(past[i].list) = ToSet(past[1].list)
                         /\ past[i].runner = past[1].runner
                         /\ past[i].clock = past[1].clock

\* The candidates of the latest bar.
Proposed == Candidates(verdict.answers)

\* The weights of the composer, or equal ones if SCORE_WEIGHTED would not take them.
Weights ==
  IF ValidComposer([runner EXCEPT !.policy = "SCORE_WEIGHTED"]) THEN runner.weights
  ELSE [i \in DOMAIN runner.names |-> 1]

\* What another policy would have made of them.
Under(policy) ==
  Decide([runner EXCEPT !.policy = policy, !.weights = Weights], verdict.answers).candidate

-----------------------------------------------------------------------------
(* Properties *)

\* IF the signal service has the version registry THEN every stored signal has,
\* for ever, the identity that is frozen for its strategy, code_version
\* included, although the signal_id does not hash it.
StoredSignalsAreFrozen ==
  checked => \A e \in signals : frozen[e.name] = e.identity

\* Replaying bars with the same composer and clock on a new engine, in whatever
\* order they are given, stores exactly the signals that the bars up to each one
\* call for, once; no call of it ends in a conflict
\* (contracts/signals.py, "natural deduplication").
ReplayIsIdempotent ==
  past # <<>> /\ Replayed =>
    /\ outcome # "conflict"
    /\ outcome = "returned" =>
         signals = EventsOf(past[1].runner, ToSet(past[1].list), past[1].clock)

\* A call of run_bars ends early only for these reasons: a weighted sum turned
\* the BUY of the first candidate into a SELL; a strategy was composed whose
\* identity is not frozen; a bar is ahead of the clock; or bars were repeated,
\* in one list or by a later call.
FailuresHaveCauses ==
  /\ outcome = "invalid" => /\ runner.policy = "SCORE_WEIGHTED"
                           /\ Proposed[1].direction = "BUY"
                           /\ Cardinality(Directions(Proposed)) > 1
  /\ outcome = "unfrozen" => \E i \in DOMAIN runner.runtimes : ~IsFrozen(runner.runtimes[i])
  /\ outcome = "early" => \E b \in ToSet(past[Len(past)].list) : past[Len(past)].clock < b.time
  /\ outcome = "conflict" => Len(past) > 1 \/ ~DistinctTimes(past[1].list)

\* The policies differ only where strategies disagree.  IF the candidates of a
\* bar have one direction THEN no policy goes against it, only UNANIMOUS may
\* abstain, and of different strategies the first in the list wins, never the
\* more confident one; IF they do not THEN only SCORE_WEIGHTED lets anything
\* through: what the weights of the runtimes say, when no silent runtime comes
\* before one that answers.
PoliciesDifferOnConflictsOnly ==
  verdict # NoVerdict /\ Proposed # <<>> =>
    LET distinct == \A i, j \in DOMAIN runner.names : runner.names[i] = runner.names[j] => i = j
        prefix == \A i \in DOMAIN Proposed : verdict.answers[i] # NoCandidate
        total == WeightedSum(verdict.answers, Weights,
                             {i \in DOMAIN runner.names : verdict.answers[i] # NoCandidate}) IN
    IF Cardinality(Directions(Proposed)) = 1
      THEN \A policy \in Policy :
             /\ Under(policy) = NoCandidate => policy = "UNANIMOUS"
             /\ Under(policy) # NoCandidate =>
                  /\ Under(policy).direction = Proposed[1].direction
                  /\ distinct => Under(policy).name = Proposed[1].name
      ELSE /\ Under("UNANIMOUS") = NoCandidate
           /\ Under("PRIORITY_MAX_CONFIDENCE") = NoCandidate
           /\ prefix =>
                LET emitted == Under("SCORE_WEIGHTED") IN
                  (IF emitted = NoCandidate THEN 0 ELSE Sign(emitted.direction))
                    = (IF total > 0 THEN 1 ELSE IF total < 0 THEN -1 ELSE 0)
============================================================================
