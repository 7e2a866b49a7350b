-------------------------- MODULE PathEvaluation --------------------------
(***************************************************************************)
(* What SignalEvaluator.evaluate makes of a signal and the bars from its    *)
(* executable_time to the due time: the fill at the open of the first bar,  *)
(* the returns after costs, the excursions, and the triple-barrier label.   *)
(*                                                                         *)
(* A path is a function from the times of its bars to the bars: read_bars   *)
(* sorts them by time, and there is one bar of a symbol at a time.  Prices  *)
(* are integers.  A return is a Decimal fraction of the entry price: it is  *)
(* kept as its numerator over the entry price.  Ratios of the barriers are  *)
(* in hundredths, cost rates in basis points.                               *)
(***************************************************************************)
EXTENDS Integers, FiniteSetsExt

CONSTANT Nothing  \* a barrier that is not configured

SignOf(direction) == IF direction = "BUY" THEN 1 ELSE -1

\* ACShareCostModel.cost_rate: commission and transfer fee, and on a sale the
\* stamp duty, with the defaults of the fields.
CostBps(direction) == IF direction = "BUY" THEN 3 + 1 ELSE 3 + 5 + 1

\* The times of the first and of the last bar of a path.
FirstBarTime(path) == Min(DOMAIN path)
LastBarTime(path) == Max(DOMAIN path)

\* NextBarOpenFillModel.fill: the first bar of the path decides.
Fill(path) ==
  LET bar == path[FirstBarTime(path)] IN
  IF bar.status \in {"HALTED", "CLOSED"} THEN [status |-> "UNEXECUTABLE", price |-> 0]
  ELSE [status |-> "EXECUTABLE", price |-> bar.open]

\* The price of a bar that is best, and worst, for the direction.
Best(bar, direction) == IF direction = "BUY" THEN bar.high ELSE bar.low
Worst(bar, direction) == IF direction = "BUY" THEN bar.low ELSE bar.high

Gain(price, entry, direction) == SignOf(direction) * (price - entry)

\* mfe and mae, times the entry price
Mfe(path, entry, direction) ==
  Max({Gain(Best(path[t], direction), entry, direction) : t \in DOMAIN path})

Mae(path, entry, direction) ==
  Min({Gain(Worst(path[t], direction), entry, direction) : t \in DOMAIN path})

Elapsed(path, t) == t - FirstBarTime(path)

\* _time_to_extreme: when the best price is highest ("max") or lowest ("min") for
\* the first time.  "min" looks at the best prices, too, where mae is of the worst;
\* and there is a time for every path, also one that never gets past the entry.
TimeToExtreme(path, entry, direction, prefer) ==
  LET gain(t) == Gain(Best(path[t], direction), entry, direction)
      extreme == IF prefer = "max" THEN Max({gain(t) : t \in DOMAIN path})
                 ELSE Min({gain(t) : t \in DOMAIN path}) IN
  Elapsed(path, Min({t \in DOMAIN path : gain(t) = extreme}))

-----------------------------------------------------------------------------
(* detect_first_barrier_hit *)

\* Each barrier of a TripleBarrierConfig is a number or None.
BarrierConfig(config) ==
  /\ config.profit \in Int \cup {Nothing} /\ config.loss \in Int \cup {Nothing}
  /\ config.limit \in Int \cup {Nothing}

\* TripleBarrierConfig.validate
ValidBarriers(config) ==
  /\ config.profit = Nothing \/ config.profit > 0
  /\ config.loss = Nothing \/ config.loss < 0
  /\ config.limit = Nothing \/ config.limit > 0

\* The price is as far as a ratio from the entry: 100 * gain against it.
TakesProfit(bar, entry, direction, config) ==
  /\ config.profit # Nothing
  /\ 100 * Gain(Best(bar, direction), entry, direction) >= config.profit * entry

StopsLoss(bar, entry, direction, config) ==
  /\ config.loss # Nothing
  /\ 100 * Gain(Worst(bar, direction), entry, direction) <= config.loss * entry

IsLate(path, t, config) == config.limit # Nothing /\ Elapsed(path, t) >= config.limit

\* Times of the bars at which the walk ends.
Ends(path, entry, direction, config) ==
  {t \in DOMAIN path : \/ TakesProfit(path[t], entry, direction, config)
                       \/ StopsLoss(path[t], entry, direction, config)
                       \/ IsLate(path, t, config)}

\* Mutant of BarrierHit: a bar that reaches both barriers is a profit.
BarrierHitForProfit(path, entry, direction, config) ==
  LET ends == Ends(path, entry, direction, config)
      t == Min(ends) IN
  IF ends = {} THEN "TIME_ONLY"
  ELSE IF TakesProfit(path[t], entry, direction, config) THEN "PROFIT_TAKE"
  ELSE IF StopsLoss(path[t], entry, direction, config) THEN "STOP_LOSS"
  ELSE "TIME_ONLY"

\* The first of them decides on the label; both price barriers in one bar are
\* ambiguous, or a loss; a price barrier comes before the time barrier.  The time
\* of the hit, which is returned with the label, is dropped by evaluate.
BarrierHit(path, entry, direction, config) ==
  LET ends == Ends(path, entry, direction, config)
      t == Min(ends)
      profit == TakesProfit(path[t], entry, direction, config)
      loss == StopsLoss(path[t], entry, direction, config) IN
  CASE ends = {} -> "TIME_ONLY"
    [] ends # {} /\ profit /\ loss ->
         IF config.policy = "CONSERVATIVE" THEN "STOP_LOSS" ELSE "AMBIGUOUS"
    [] ends # {} /\ profit /\ ~loss -> "PROFIT_TAKE"
    [] ends # {} /\ ~profit /\ loss -> "STOP_LOSS"
    [] ends # {} /\ ~profit /\ ~loss -> "TIME_ONLY"

\* The configuration has a price barrier.
HasPriceBarriers(config) == config.profit # Nothing \/ config.loss # Nothing

\* An evaluation: its numbers are times 10000 and over the entry price.
Completed(path, entry, direction, config) ==
  LET raw == path[LastBarTime(path)].close - entry
      gain == SignOf(direction) * raw IN
  [status |-> "COMPLETED", entry |-> entry, raw |-> raw,
   net |-> 10000 * gain - CostBps(direction) * entry,
   mfe |-> Mfe(path, entry, direction), mae |-> Mae(path, entry, direction),
   timeToMfe |-> TimeToExtreme(path, entry, direction, "max"),
   timeToMae |-> TimeToExtreme(path, entry, direction, "min"),
   label |-> IF HasPriceBarriers(config) THEN BarrierHit(path, entry, direction, config)
             ELSE "TIME_ONLY"]

\* No bar is there yet: POSTPONED.  The first bar is halted: CENSORED.
Unfinished(status) == [status |-> status]

\* evaluate
EvaluationOf(path, direction, config) ==
  IF DOMAIN path = {} THEN Unfinished("POSTPONED")
  ELSE LET fill == Fill(path) IN
    IF fill.status = "UNEXECUTABLE" THEN Unfinished("CENSORED")
    ELSE Completed(path, fill.price, direction, config)
============================================================================
