--------------------------- MODULE SignalJourney ---------------------------
(***************************************************************************)
(* What becomes of a stored signal: EvaluationScheduler makes a task for    *)
(* each horizon, due at a time of the calendar; time passes, and bars of    *)
(* its symbol are stored, in time or to fill a gap later; and once a task   *)
(* is due its evaluation is computed from the bars up to the due time that  *)
(* are stored by then.  EvaluationTasks has the workers and leases of the   *)
(* tasks.                                                                   *)
(***************************************************************************)
EXTENDS SessionCalendar, PathEvaluation

CONSTANTS
  LastTick,  \* time goes from 0 to LastTick
  Events,    \* times at which a signal may be created
  Horizons,  \* horizons of the evaluation policy
  Barriers,  \* barrier configurations
  Bars,      \* contents of a bar: open, high, low, close and status
  NoBar,     \* no bar is stored for a tick
  NoTask     \* nothing is scheduled, or evaluated

Tick == 0..LastTick

ASSUME JourneyAssumption ==
  /\ Horizons \subseteq Nat \ {0} /\ Events \subseteq Tick /\ LastTick \in Nat
  /\ \A e \in Events, h \in Horizons : TradingDaysFrom(Day(e + h) + 1) # {}
  /\ \A c \in Barriers : BarrierConfig(c) /\ ValidBarriers(c)
  /\ \A b \in Bars : b.open \in Int /\ b.high \in Int /\ b.low \in Int /\ b.close \in Int
  /\ NoBar \notin Bars

VARIABLES
  signal,      \* direction and event_time of the signal
  barriers,    \* the evaluator's barrier_config
  now,         \* clock.now()
  market,      \* the bar of the signal's symbol at each tick
  due,         \* due_time of the task of each horizon
  evaluation,  \* its SignalEvaluation
  observed     \* the ticks of the bars it was made of (a history variable: the
               \* code does not keep them)

journeyVars == <<signal, barriers, now, market, due, evaluation, observed>>

JourneyInit ==
  /\ signal \in [direction : {"BUY", "SELL"}, event : Events]
  /\ barriers \in Barriers
  /\ now = signal.event
  /\ market = [t \in Tick |-> NoBar]
  /\ due = [h \in Horizons |-> NoTask]
  /\ evaluation = [h \in Horizons |-> NoTask]
  /\ observed = [h \in Horizons |-> {}]

\* create_tasks_for_signal: a task of every horizon; upsert_task keeps one that
\* is there.
Schedule ==
  /\ \A h \in Horizons : due[h] = NoTask
  /\ due' = [h \in Horizons |-> NextEvaluationTime(signal.event, h)]
  /\ UNCHANGED <<signal, barriers, now, market, evaluation, observed>>

PassTime ==
  /\ \A h \in Horizons : due[h] # NoTask
  /\ \E h \in Horizons : due[h] > now
  /\ now < LastTick
  /\ now' = now + 1
  /\ UNCHANGED <<signal, barriers, market, due, evaluation, observed>>

\* Mutant of Kept: a later bar replaces the one that is stored.
KeptLast(stored, bar) == bar

\* save_bar: a bar that is stored stays.  Another one with its key is a duplicate,
\* or is quarantined or refused.
Kept(stored, bar) == IF stored = NoBar THEN bar ELSE stored

\* A bar of a session that is over, or under way, is saved, in whatever order and
\* however late.  Those up to the signal's event_time are in no window.
SaveBar(t, b) ==
  /\ signal.event < t /\ t <= now /\ IsSessionTime(t)
  /\ market' = [market EXCEPT ![t] = Kept(@, b)]
  /\ UNCHANGED <<signal, barriers, now, due, evaluation, observed>>

\* read_bars from executable_time, a second after event_time, to due_time.
Path(h) == [t \in {u \in (signal.event + 1)..due[h] : market[u] # NoBar} |-> market[t]]

\* A due task is evaluated, one that was postponed again; a COMPLETED or CENSORED
\* evaluation is not made anew, whatever bars come.
EvaluateTask(h) ==
  /\ due[h] # NoTask /\ due[h] <= now
  /\ evaluation[h] = NoTask \/ evaluation[h] = Unfinished("POSTPONED")
  /\ evaluation' = [evaluation EXCEPT ![h] =
                      EvaluationOf(Path(h), signal.direction, barriers)]
  /\ observed' = [observed EXCEPT ![h] = DOMAIN Path(h)]
  /\ UNCHANGED <<signal, barriers, now, market, due>>

JourneyNext == \/ Schedule \/ PassTime
               \/ \E t \in Tick, b \in Bars : SaveBar(t, b)
               \/ \E h \in Horizons : EvaluateTask(h)

JourneySpec == JourneyInit /\ [][JourneyNext]_journeyVars

-----------------------------------------------------------------------------
(* Properties *)

IsCompleted(h) == evaluation[h] # NoTask /\ evaluation[h].status = "COMPLETED"

\* A task is due in a session, at its target or, when that is in a break, after
\* the close or on a holiday, at the first session time after it; and a longer
\* horizon is never due earlier than a shorter one.
DueIsNextSession ==
  \A h \in Horizons : due[h] # NoTask =>
    LET target == signal.event + h IN
    /\ IsSessionTime(due[h]) /\ due[h] >= target
    /\ \A t \in target..(due[h] - 1) : ~IsSessionTime(t)
    /\ \A g \in Horizons : g <= h => due[g] <= due[h]

\* The bars that an evaluation was made of.
Observed(h) == [t \in observed[h] |-> market[t]]

\* IF the label of an evaluation says which barrier was hit THEN the excursion
\* beside it reaches that barrier.  A PROFIT_TAKE is of a bar up to which no bar,
\* itself included, has reached the loss barrier, and mfe is not dated before it; a
\* STOP_LOSS is of one up to which none has reached the profit barrier, unless the
\* policy is to count both at once as a loss.  IF the label says that no barrier was
\* hit, and there is no time barrier, THEN neither excursion reaches one.
LabelFitsExcursions ==
  \A h \in Horizons : IsCompleted(h) /\ HasPriceBarriers(barriers) =>
    LET e == evaluation[h]
        path == Observed(h)
        takes(t) == TakesProfit(path[t], e.entry, signal.direction, barriers)
        stops(t) == StopsLoss(path[t], e.entry, signal.direction, barriers)
        reachesProfit == barriers.profit # Nothing /\ 100 * e.mfe >= barriers.profit * e.entry
        reachesLoss == barriers.loss # Nothing /\ 100 * e.mae <= barriers.loss * e.entry IN
    /\ e.label \in {"PROFIT_TAKE", "AMBIGUOUS"} => reachesProfit
    /\ e.label \in {"STOP_LOSS", "AMBIGUOUS"} => reachesLoss
    /\ e.label = "TIME_ONLY" /\ barriers.limit = Nothing => ~reachesProfit /\ ~reachesLoss
    /\ e.label = "PROFIT_TAKE" =>
         \E t \in observed[h] : /\ takes(t) /\ Elapsed(path, t) <= e.timeToMfe
                           /\ \A s \in observed[h] : s <= t => ~stops(s)
    /\ e.label = "STOP_LOSS" /\ barriers.policy = "AMBIGUOUS" =>
         \E t \in observed[h] : stops(t) /\ \A s \in observed[h] : s <= t => ~takes(s)

\* No bar of the window of the shorter horizon g was saved between the evaluations
\* of g and h.
SameBars(g, h) == observed[g] = {t \in observed[h] : t <= due[g]}

\* Late data never rewrites a stored bar (docs/architecture/data-contracts.md:108),
\* and so two horizons that are evaluated apart, with any bars saved and refused in
\* between, tell the same story as far as they have seen the same bars: a price barrier
\* that the shorter one reports hit is the one that the longer reports, the two enter
\* at the same price, and the longer only widens the excursions and dates the same
\* one alike.  (The dates are what the code computes: it has one for every path, also
\* where evaluation/evaluator.py:119-120 says None.)
LongerHorizonAgrees ==
  \A g, h \in Horizons : g < h /\ IsCompleted(g) /\ IsCompleted(h) /\ SameBars(g, h) =>
    /\ evaluation[g].entry = evaluation[h].entry
    /\ evaluation[g].label # "TIME_ONLY" => evaluation[h].label = evaluation[g].label
    /\ evaluation[h].mfe >= evaluation[g].mfe /\ evaluation[h].mae <= evaluation[g].mae
    /\ IF evaluation[h].mfe = evaluation[g].mfe
         THEN evaluation[h].timeToMfe = evaluation[g].timeToMfe
         ELSE evaluation[h].timeToMfe > evaluation[g].timeToMfe
============================================================================
