--------------------------- MODULE RuleStrategies ---------------------------
(***************************************************************************)
(* RollingFeatureEngine for one symbol, and the four rule strategies that   *)
(* the repository ships: baseline-rules, momentum-v1, rally-fade-v1 and     *)
(* volume-pullback-v1.                                                      *)
(*                                                                         *)
(* Prices and volumes are integers.  A feature is a quotient and is kept as *)
(* its numerator and denominator, a threshold is in thousandths: the two    *)
(* are compared exactly, where the code compares floats.  Scores and        *)
(* confidences are in hundredths.                                           *)
(***************************************************************************)
EXTENDS ParamSchema, SequencesExt

CONSTANTS
  Lookback,     \* lookback of the feature engine
  NoVolume,     \* bar.volume is None
  NoCandidate   \* on_bar returns None

\* _avg as a sum and a count.
Sum(s) == FoldLeft(LAMBDA a, b : a + b, 0, s)

\* a / b against a threshold in thousandths; b is positive.
AtLeast(a, b, thousandths) == 1000 * a >= thousandths * b
AtMost(a, b, thousandths) == 1000 * a <= thousandths * b

-----------------------------------------------------------------------------
(* Features *)

\* update_closed_bar: the bar is appended and the list, which was sorted, is sorted
\* again, stably.
Observe(seen, bar) ==
  InsertAt(seen, Cardinality({i \in DOMAIN seen : seen[i].time <= bar.time}) + 1, bar)

\* bars[-lookback:]
Window(seen) == SubSeq(seen, (IF Len(seen) > Lookback THEN Len(seen) - Lookback ELSE 0) + 1,
                       Len(seen))

Volumes(window) == SelectSeq([i \in DOMAIN window |-> window[i].volume],
                             LAMBDA v : v # NoVolume)

\* The snapshot of a bar: its close and volume against the window, which ends
\* with the latest bar of the list, whichever the bar is.  The features that
\* only other engines compute (return_window, rally_amplitude, rally_fade) come
\* with the bar, in thousandths.
Snapshot(window, bar) ==
  LET volumes == Volumes(window)
      previous == IF Len(window) >= 2 THEN window[Len(window) - 1].close ELSE bar.close IN
  [missing |-> Len(window) < Lookback,
   return1 |-> [num |-> bar.close - previous, den |-> previous],
   hasRatio |-> bar.volume # NoVolume /\ Sum(volumes) # 0,
   volumeRatio |-> IF bar.volume = NoVolume THEN [num |-> 0, den |-> 1]
                   ELSE [num |-> bar.volume * Len(volumes), den |-> Sum(volumes)],
   maDistance |-> bar.close * Len(window) - Sum([i \in DOMAIN window |-> window[i].close]),
   returnWindow |-> bar.slide,
   rallyAmplitude |-> bar.rally,
   rallyFade |-> bar.rally # 0]

-----------------------------------------------------------------------------
(* Strategies *)

\* ParamField
Field(type, default) == [type |-> type, default |-> Value(type, default)]

Horizon == Field("int", 900 * 1000)

\* param_schema of the strategies.
ShippedSchema ==
  [BaselineRules |-> [breakout_volume_ratio |-> Field("float", 1500),
                      pullback_threshold |-> Field("float", -10),
                      spike_threshold |-> Field("float", 20), horizon_seconds |-> Horizon],
   Momentum |-> [return_threshold |-> Field("float", 5), horizon_seconds |-> Horizon],
   RallyFade |-> [lookback_bars |-> Field("int", 5000), rally_threshold |-> Field("float", 20),
                  horizon_seconds |-> Horizon],
   VolumePullback |-> [lookback_bars |-> Field("int", 5000),
                       pullback_threshold |-> Field("float", 10),
                       volume_ratio_threshold |-> Field("float", 1000),
                       horizon_seconds |-> Horizon]]

\* SignalCandidate: what distinguishes the candidates of one bar.
Proposal(direction, action, exposure, score, confidence) ==
  [direction |-> direction, action |-> action, exposure |-> exposure,
   score |-> score, confidence |-> confidence]

Return1AtLeast(f, t) == AtLeast(f.return1.num, f.return1.den, t)
Return1AtMost(f, t) == AtMost(f.return1.num, f.return1.den, t)

\* RuleStrategyRuntime.on_bar: breakout, else pullback, else spike.
BaselineRules(f, p) ==
  LET breakout == /\ f.hasRatio
                  /\ AtLeast(f.volumeRatio.num, f.volumeRatio.den, p.breakout_volume_ratio.number)
                  /\ f.return1.num > 0
      pullback == Return1AtMost(f, p.pullback_threshold.number) /\ f.maDistance < 0
      spike == Return1AtLeast(f, p.spike_threshold.number) /\ f.maDistance > 0 IN
  CASE breakout -> Proposal("BUY", "BUY", "INCREASE_LONG", 70, 60)
    [] ~breakout /\ pullback -> Proposal("SELL", "RISK_AVOID", "DECREASE_LONG", 60, 55)
    [] ~breakout /\ ~pullback /\ spike -> Proposal("SELL", "REDUCE_LONG", "DECREASE_LONG", 65, 55)
    [] OTHER -> NoCandidate

\* MomentumV1Strategy.on_bar
Momentum(f, p) ==
  IF Return1AtLeast(f, p.return_threshold.number)
  THEN Proposal("BUY", "BUY", "INCREASE_LONG", 55, 50)
  ELSE NoCandidate

\* RallyFadeStrategy.on_bar
RallyFade(f, p) ==
  IF f.rallyFade /\ f.rallyAmplitude >= p.rally_threshold.number
    THEN Proposal("SELL", "REDUCE_LONG", "DECREASE_LONG", 50, 40)
    ELSE NoCandidate

\* VolumePullbackStrategy.on_bar: a ratio that is missing counts as 1.
VolumePullback(f, p) ==
  LET ratio == IF f.hasRatio /\ f.volumeRatio.num # 0 THEN f.volumeRatio
               ELSE [num |-> 1, den |-> 1] IN
  IF /\ f.returnWindow <= -p.pullback_threshold.number
     /\ AtMost(ratio.num, ratio.den, p.volume_ratio_threshold.number)
    THEN Proposal("SELL", "REDUCE_LONG", "DECREASE_LONG", 55, 45)
    ELSE NoCandidate

\* on_bar of an instance: silent while data is missing.
OnBar(instance, snapshot) ==
  LET p == instance.params IN
  IF snapshot.missing THEN NoCandidate
  ELSE CASE instance.class = "BaselineRules" -> BaselineRules(snapshot, p)
         [] instance.class = "Momentum" -> Momentum(snapshot, p)
         [] instance.class = "RallyFade" -> RallyFade(snapshot, p)
         [] instance.class = "VolumePullback" -> VolumePullback(snapshot, p)
=============================================================================
