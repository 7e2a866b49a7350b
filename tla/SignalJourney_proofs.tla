------------------------ MODULE SignalJourney_proofs ------------------------
(***************************************************************************)
(* What TLAPS proves of what becomes of a signal.                           *)
(*                                                                         *)
(* SignalJourney, for any session times, holidays, signals, horizons,       *)
(* barriers and bars: a task is due at the first session time that is not    *)
(* before its target; its label fits the excursions that are computed beside *)
(* it; and the evaluations of its horizons agree.  Times are compared by     *)
(* their days and then by their ticks of the day (EarlierByDay), which       *)
(* leaves no products to reason about.  A stored bar stays, so that an       *)
(* evaluation is forever that of the bars it has read                       *)
(* (EvaluationsAreRepeatable), and what a shorter horizon has read is the    *)
(* beginning of what a longer one has, unless a bar was saved in between     *)
(* (SameBarsPrecede).                                                       *)
(*                                                                         *)
(* PaperBook, for any signals: the position is what their fills add up to.   *)
(***************************************************************************)
EXTENDS SignalJourney, PaperBook, SumLemmas

-----------------------------------------------------------------------------
(* Days and ticks *)

\* Two days are at least a day's length apart.
LEMMA DaysApart ==
  ASSUME NEW d \in Nat, NEW e \in Nat, d < e
  PROVE  d * DayLength + DayLength <= e * DayLength
<1>1. DayLength \in Nat
  BY CalendarAssumption
<1>2. PICK k \in Nat : e = d + 1 + k
  <2>1. e - d - 1 \in Nat /\ e = d + 1 + (e - d - 1)
    OBVIOUS
  <2> QED
    BY <2>1
<1>3. e * DayLength = d * DayLength + DayLength + k * DayLength
  BY <1>1, <1>2, SMT
<1>4. k * DayLength \in Nat /\ d * DayLength \in Nat
  BY <1>1, SMT
<1> QED
  BY <1>1, <1>3, <1>4

\* A time is a tick of its day.
LEMMA DayAndTick ==
  ASSUME NEW t \in Nat
  PROVE  /\ Day(t) \in Nat /\ TimeOfDay(t) \in 0..(DayLength - 1)
         /\ t = At(Day(t), TimeOfDay(t))
<1>1. DayLength \in Nat \ {0}
  BY CalendarAssumption
<1> QED
  BY <1>1, SMT DEF Day, TimeOfDay, At

\* The day and the tick that a time is made of are its own.
LEMMA DayOfAt ==
  ASSUME NEW d \in Nat, NEW k \in 0..(DayLength - 1)
  PROVE  At(d, k) \in Nat /\ Day(At(d, k)) = d /\ TimeOfDay(At(d, k)) = k
<1>1. DayLength \in Nat \ {0}
  BY CalendarAssumption
<1>2. d * DayLength \in Nat /\ At(d, k) \in Nat /\ At(d, k) = d * DayLength + k
  BY <1>1, SMT DEF At
<1> DEFINE t == At(d, k)
<1>3. /\ Day(t) \in Nat /\ TimeOfDay(t) \in 0..(DayLength - 1)
      /\ t = Day(t) * DayLength + TimeOfDay(t)
  BY <1>2, DayAndTick DEF At
<1>4. ~(Day(t) < d) /\ ~(d < Day(t))
  <2>1. Day(t) * DayLength \in Nat
    BY <1>1, <1>3, SMT
  <2>2. Day(t) < d => Day(t) * DayLength + DayLength <= d * DayLength
    BY <1>3, DaysApart
  <2>3. d < Day(t) => d * DayLength + DayLength <= Day(t) * DayLength
    BY <1>3, DaysApart
  <2> HIDE DEF t
  <2> QED
    BY <1>1, <1>2, <1>3, <2>1, <2>2, <2>3 DEF t
<1>5. Day(t) = d
  BY <1>3, <1>4
<1> QED
  BY <1>1, <1>2, <1>3, <1>5

\* Of two times the earlier is on an earlier day, or at an earlier tick of the day.
LEMMA EarlierByDay ==
  ASSUME NEW s \in Nat, NEW t \in Nat
  PROVE  s < t <=> \/ Day(s) < Day(t)
                   \/ Day(s) = Day(t) /\ TimeOfDay(s) < TimeOfDay(t)
<1>1. DayLength \in Nat
  BY CalendarAssumption
<1> DEFINE start(d) == d * DayLength
<1>2. \A d \in Nat : start(d) \in Nat
  BY <1>1, SMT
<1>3. /\ Day(s) \in Nat /\ TimeOfDay(s) \in 0..(DayLength - 1) /\ s = start(Day(s)) + TimeOfDay(s)
      /\ Day(t) \in Nat /\ TimeOfDay(t) \in 0..(DayLength - 1) /\ t = start(Day(t)) + TimeOfDay(t)
  BY DayAndTick DEF At
<1>4. \A d, e \in Nat : d < e => start(d) + DayLength <= start(e)
  BY DaysApart
<1> HIDE DEF start
<1> DEFINE d == Day(s)
           e == Day(t)
<1>5. /\ d \in Nat /\ e \in Nat /\ start(d) \in Nat /\ start(e) \in Nat
      /\ d < e => start(d) + DayLength <= start(e)
      /\ e < d => start(e) + DayLength <= start(d)
  BY <1>2, <1>3, <1>4
<1>6. CASE d = e
  BY <1>3, <1>5, <1>6
<1>7. CASE d < e
  <2>1. s < t
    BY <1>1, <1>3, <1>5, <1>7
  <2> QED
    BY <1>5, <1>7, <2>1
<1>8. CASE e < d
  <2>1. t < s
    BY <1>1, <1>3, <1>5, <1>8
  <2> QED
    BY <1>5, <1>8, <2>1
<1> QED
  BY <1>5, <1>6, <1>7, <1>8

-----------------------------------------------------------------------------
(* next_session_time *)

\* A set of days that is not empty has a first one.
LEMMA FirstExists ==
  ASSUME NEW S \in SUBSET Nat, S # {}
  PROVE  First(S) \in S /\ \A n \in S : First(S) <= n
BY LeastNatural DEF First

\* Time n is the first session time that is not before t.
IsNextSession(n, t) ==
  /\ n \in Nat /\ n >= t /\ IsSessionTime(n)
  /\ \A s \in t..(n - 1) : ~IsSessionTime(s)

\* The time that next_session_time returns is in a session, not before the given
\* one, and no time in between is.
LEMMA NextSessionTimeIsNext ==
  ASSUME NEW t \in Nat, TradingDaysFrom(Day(t) + 1) # {}
  PROVE  IsNextSession(NextSessionTime(t), t)
<1> USE CalendarAssumption
<1> DEFINE n == NextSessionTime(t)
           day == First(TradingDaysFrom(Day(t)))
<1>0. SUFFICES IsNextSession(n, t)
  OBVIOUS
<1>1. Day(t) \in Nat /\ TimeOfDay(t) \in 0..(DayLength - 1)
  BY DayAndTick
<1>2. /\ day \in Nat /\ day >= Day(t) /\ day \in TradingDays
      /\ \A d \in Nat : Day(t) <= d /\ d < day => d \notin TradingDays
  <2>1. TradingDaysFrom(Day(t)) \in SUBSET Nat /\ TradingDaysFrom(Day(t)) # {}
    <3>1. PICK d : d \in TradingDaysFrom(Day(t) + 1)
      OBVIOUS
    <3>2. d \in TradingDaysFrom(Day(t))
      BY <1>1, <3>1 DEF TradingDaysFrom
    <3> QED
      BY <3>2 DEF TradingDaysFrom
  <2>2. /\ day \in TradingDaysFrom(Day(t))
        /\ \A d \in TradingDaysFrom(Day(t)) : day <= d
    BY <2>1, FirstExists
  <2> HIDE DEF day
  <2> QED
    BY <1>1, <2>2 DEF TradingDaysFrom
<1> HIDE DEF day
<1>3. \A k \in {MorningStart, AfternoonStart, AfternoonEnd}, d \in Nat :
        At(d, k) \in Nat /\ Day(At(d, k)) = d /\ TimeOfDay(At(d, k)) = k
  BY DayOfAt
<1>4. \A s \in Nat : /\ Day(s) \in Nat /\ TimeOfDay(s) \in Nat
                     /\ s < t <=> \/ Day(s) < Day(t)
                                  \/ Day(s) = Day(t) /\ TimeOfDay(s) < TimeOfDay(t)
                     /\ t < s <=> \/ Day(t) < Day(s)
                                  \/ Day(s) = Day(t) /\ TimeOfDay(t) < TimeOfDay(s)
  BY DayAndTick, EarlierByDay
<1>5. ASSUME NEW e \in Nat, NEW k \in {MorningStart, AfternoonStart}, n = At(e, k), n >= t,
             e \in TradingDays,
             \A d \in Nat : Day(t) < d /\ d < e => d \notin TradingDays,
             Day(t) \in TradingDays /\ Day(t) < e => TimeOfDay(t) > AfternoonEnd,
             k = AfternoonStart => Day(t) = e /\ TimeOfDay(t) > MorningEnd
      PROVE  IsNextSession(n, t)
  <2>1. n \in Nat /\ Day(n) = e /\ TimeOfDay(n) = k
    BY <1>3, <1>5
  <2>2. IsSessionTime(n)
    BY <1>5, <2>1 DEF IsSessionTime
  <2>3. ASSUME NEW s \in t..(n - 1) PROVE ~IsSessionTime(s)
    <3> HIDE DEF n
    <3>1. s \in Nat /\ s < n /\ ~(s < t)
      BY <2>1, <2>3
    <3>2. /\ Day(s) \in Nat /\ TimeOfDay(s) \in Nat
          /\ Day(s) < e \/ (Day(s) = e /\ TimeOfDay(s) < k)
          /\ Day(t) < Day(s) \/ (Day(s) = Day(t) /\ TimeOfDay(t) <= TimeOfDay(s))
      <4>1. Day(s) < Day(n) \/ (Day(s) = Day(n) /\ TimeOfDay(s) < TimeOfDay(n))
        BY <2>1, <3>1, EarlierByDay
      <4> QED
        BY <1>1, <1>4, <2>1, <3>1, <4>1
    <3>3. CASE Day(s) = e
      BY <1>1, <1>5, <3>2, <3>3 DEF IsSessionTime
    <3>4. CASE Day(s) < e
      <4>1. Day(s) = Day(t) \/ Day(s) \notin TradingDays
        BY <1>1, <1>5, <3>2, <3>4
      <4> QED
        BY <1>1, <1>5, <3>2, <3>4, <4>1 DEF IsSessionTime
    <3> QED
      BY <3>2, <3>3, <3>4
  <2> QED
    BY <1>5, <2>1, <2>2, <2>3 DEF IsNextSession
<1>6. ASSUME n = t, IsSessionTime(t)
      PROVE  IsNextSession(n, t)
  BY <1>6 DEF IsNextSession
<1>7. CASE t <= At(day, MorningStart)
  <2>1. n = At(day, MorningStart)
    <3>1. At(day, MorningStart) <= At(day, AfternoonEnd)
      BY <1>2, <1>3, EarlierByDay
    <3> QED
      BY <1>2, <1>3, <1>7, <3>1 DEF NextSessionTime, NextOnDay, day
  <2> HIDE DEF n
  <2> QED
    BY <1>1, <1>2, <1>5, <1>7, <2>1
<1>8. CASE ~(t <= At(day, MorningStart))
  <2>1. Day(t) = day /\ MorningStart < TimeOfDay(t)
    BY <1>1, <1>2, <1>3, <1>4, <1>8
  <2>2. t <= At(day, AfternoonEnd) <=> TimeOfDay(t) <= AfternoonEnd
    BY <1>1, <1>2, <1>3, <1>4, <2>1
  <2>3. CASE TimeOfDay(t) <= MorningEnd
    <3>1. n = t
      BY <1>1, <1>8, <2>1, <2>2, <2>3 DEF NextSessionTime, NextOnDay, day
    <3>2. IsSessionTime(t)
      BY <1>1, <1>2, <2>1, <2>3 DEF IsSessionTime
    <3> QED
      BY <1>6, <3>1, <3>2
  <2>4. CASE MorningEnd < TimeOfDay(t) /\ TimeOfDay(t) <= AfternoonEnd
    <3>1. t <= At(day, AfternoonStart) <=> TimeOfDay(t) <= AfternoonStart
      BY <1>1, <1>2, <1>3, <1>4, <2>1
    <3>2. CASE TimeOfDay(t) <= AfternoonStart
      <4>1. n = At(day, AfternoonStart) /\ n >= t
        BY <1>1, <1>2, <1>3, <1>8, <2>1, <2>2, <2>4, <3>1, <3>2
        DEF NextSessionTime, NextOnDay, day
      <4> HIDE DEF n
      <4> QED
        BY <1>1, <1>2, <1>5, <2>1, <2>4, <4>1
    <3>3. CASE AfternoonStart < TimeOfDay(t)
      <4>1. n = t
        BY <1>1, <1>8, <2>1, <2>2, <2>4, <3>1, <3>3 DEF NextSessionTime, NextOnDay, day
      <4>2. IsSessionTime(t)
        BY <1>1, <1>2, <2>1, <2>4, <3>3 DEF IsSessionTime
      <4> QED
        BY <1>6, <4>1, <4>2
    <3> QED
      BY <1>1, <3>2, <3>3
  <2>5. CASE AfternoonEnd < TimeOfDay(t)
    <3> DEFINE next == First(TradingDaysFrom(day + 1))
    <3>1. /\ next \in Nat /\ next > day /\ next \in TradingDays
          /\ \A d \in Nat : day < d /\ d < next => d \notin TradingDays
      <4>1. TradingDaysFrom(day + 1) \in SUBSET Nat /\ TradingDaysFrom(day + 1) # {}
        BY <2>1 DEF TradingDaysFrom
      <4>2. /\ next \in TradingDaysFrom(day + 1)
            /\ \A d \in TradingDaysFrom(day + 1) : next <= d
        BY <4>1, FirstExists
      <4> HIDE DEF next
      <4> QED
        BY <1>2, <4>2 DEF TradingDaysFrom
    <3>2. n = At(next, MorningStart)
      BY <1>1, <2>2, <2>5 DEF NextSessionTime, day
    <3> HIDE DEF next
    <3>3. n >= t
      BY <1>1, <1>3, <1>4, <2>1, <3>1, <3>2
    <3> HIDE DEF n
    <3> QED
      BY <1>1, <1>5, <2>1, <2>5, <3>1, <3>2, <3>3
  <2> QED
    BY <1>1, <2>3, <2>4, <2>5
<1> QED
  BY <1>7, <1>8

-----------------------------------------------------------------------------
(* Due times *)

\* The tasks of a signal are made together.
DueIsComputed ==
  \/ \A h \in Horizons : due[h] = NoTask
  \/ \A h \in Horizons : due[h] = NextEvaluationTime(signal.event, h)

JourneyInv == signal.event \in Events /\ DueIsComputed

\* Signals are created at times, which are natural numbers.
LEMMA EventsAreTimes == \A e \in Events : e \in Nat /\ e <= LastTick
BY JourneyAssumption DEF Tick

\* What is due later is not due in a session before.
LEMMA NextSessionIsMonotonic ==
  ASSUME NEW s \in Nat, NEW t \in Nat, s <= t,
         NEW m, IsNextSession(m, s), NEW n, IsNextSession(n, t)
  PROVE  m <= n
<1>1. m \in Nat /\ n \in Nat /\ n >= s /\ IsSessionTime(n)
  BY DEF IsNextSession
<1>2. n \notin s..(m - 1)
  BY <1>1 DEF IsNextSession
<1> QED
  BY <1>1, <1>2

\* A task that there is has its due time, and so have those of the other horizons.
LEMMA DueTimesAreNext ==
  ASSUME JourneyInv, NEW h \in Horizons, due[h] # NoTask
  PROVE  /\ \A g \in Horizons : IsNextSession(due[g], signal.event + g)
         /\ \A g \in Horizons : g <= h => due[g] <= due[h]
<1>1. ASSUME NEW g \in Horizons
      PROVE  signal.event + g \in Nat /\ IsNextSession(due[g], signal.event + g)
  <2>1. /\ signal.event + g \in Nat
        /\ TradingDaysFrom(Day(signal.event + g) + 1) # {}
    <3>1. signal.event \in Events /\ signal.event \in Nat /\ g \in Nat
      BY <1>1, EventsAreTimes, JourneyAssumption DEF JourneyInv
    <3> QED
      BY <1>1, <3>1, JourneyAssumption
  <2>2. due[g] = NextSessionTime(signal.event + g)
    BY DEF JourneyInv, DueIsComputed, NextEvaluationTime
  <2> QED
    BY <2>1, <2>2, NextSessionTimeIsNext
<1>2. ASSUME NEW g \in Horizons, g <= h PROVE due[g] <= due[h]
  <2>1. signal.event + g <= signal.event + h
    <3>1. signal.event \in Nat /\ g \in Nat /\ h \in Nat
      BY <1>2, EventsAreTimes, JourneyAssumption DEF JourneyInv
    <3> QED
      BY <1>2, <3>1
  <2> QED
    BY <1>1, <2>1, NextSessionIsMonotonic
<1> QED
  BY <1>1, <1>2

\* create_tasks_for_signal and next_evaluation_time (time/trading_calendar.py): for
\* every calendar and horizon a task is due in a session, no session time between
\* target and due time is passed over, and longer horizons are not due earlier.
THEOREM DueInNextSession == JourneySpec => []DueIsNextSession
<1>1. JourneyInit => JourneyInv
  <2> SUFFICES ASSUME JourneyInit PROVE JourneyInv
    OBVIOUS
  <2>1. signal.event \in Events
    BY DEF JourneyInit
  <2> QED
    BY <2>1 DEF JourneyInit, JourneyInv, DueIsComputed
<1>2. JourneyInv /\ [JourneyNext]_journeyVars => JourneyInv'
  <2> SUFFICES ASSUME JourneyInv, [JourneyNext]_journeyVars PROVE JourneyInv'
    OBVIOUS
  <2>1. CASE Schedule
    BY <2>1 DEF JourneyInv, DueIsComputed, Schedule
  <2>2. CASE UNCHANGED <<signal, due>>
    BY <2>2 DEF JourneyInv, DueIsComputed
  <2>3. Schedule \/ UNCHANGED <<signal, due>>
    BY DEF JourneyNext, PassTime, SaveBar, EvaluateTask, journeyVars
  <2> QED
    BY <2>1, <2>2, <2>3
<1>3. JourneyInv => DueIsNextSession
  <2> SUFFICES ASSUME JourneyInv, NEW h \in Horizons, due[h] # NoTask
               PROVE  LET target == signal.event + h IN
                      /\ IsSessionTime(due[h]) /\ due[h] >= target
                      /\ \A t \in target..(due[h] - 1) : ~IsSessionTime(t)
                      /\ \A g \in Horizons : g <= h => due[g] <= due[h]
    BY DEF DueIsNextSession
  <2> QED
    BY DueTimesAreNext DEF IsNextSession
<1> QED
  BY <1>1, <1>2, <1>3, PTL DEF JourneySpec

-----------------------------------------------------------------------------
(* Paths *)

Directions == {"BUY", "SELL"}

\* A path has some bars, at finitely many times, with prices that are numbers.
IsPath(p) ==
  /\ DOMAIN p \subseteq Nat /\ IsFiniteSet(DOMAIN p) /\ DOMAIN p # {}
  /\ \A t \in DOMAIN p : /\ p[t].open \in Int /\ p[t].high \in Int
                         /\ p[t].low \in Int /\ p[t].close \in Int

\* A path has a first bar.
LEMMA FirstBarIsFirst ==
  ASSUME NEW p, IsPath(p)
  PROVE  /\ FirstBarTime(p) \in DOMAIN p
         /\ \A t \in DOMAIN p : FirstBarTime(p) <= t
BY ExtremesExist DEF IsPath, FirstBarTime

\* How far a price is from the entry is a number.
LEMMA GainIsNumber ==
  ASSUME NEW x \in Int, NEW entry \in Int, NEW d \in Directions
  PROVE  Gain(x, entry, d) \in Int
<1>1. SignOf(d) = 1 \/ SignOf(d) = -1
  BY DEF SignOf
<1>2. 1 * (x - entry) \in Int /\ (-1) * (x - entry) \in Int
  OBVIOUS
<1> QED
  BY <1>1, <1>2 DEF Gain

\* The gains of the bars of a path.
LEMMA GainsAreNumbers ==
  ASSUME NEW p, IsPath(p), NEW entry \in Int, NEW d \in Directions
  PROVE  \A t \in DOMAIN p : /\ Gain(Best(p[t], d), entry, d) \in Int
                             /\ Gain(Worst(p[t], d), entry, d) \in Int
BY GainIsNumber DEF IsPath, Best, Worst

\* mfe is the largest gain of the best prices, and mae the smallest of the worst.
LEMMA ExcursionsAreExtremes ==
  ASSUME NEW p, IsPath(p), NEW entry \in Int, NEW d \in Directions
  PROVE  /\ \E t \in DOMAIN p : Gain(Best(p[t], d), entry, d) = Mfe(p, entry, d)
         /\ \A t \in DOMAIN p : Gain(Best(p[t], d), entry, d) <= Mfe(p, entry, d)
         /\ \E t \in DOMAIN p : Gain(Worst(p[t], d), entry, d) = Mae(p, entry, d)
         /\ \A t \in DOMAIN p : Mae(p, entry, d) <= Gain(Worst(p[t], d), entry, d)
<1> DEFINE best == {Gain(Best(p[t], d), entry, d) : t \in DOMAIN p}
           worst == {Gain(Worst(p[t], d), entry, d) : t \in DOMAIN p}
<1>1. /\ IsFiniteSet(best) /\ best \in SUBSET Int /\ best # {}
      /\ IsFiniteSet(worst) /\ worst \in SUBSET Int /\ worst # {}
  <2>1. IsFiniteSet(DOMAIN p)
    BY DEF IsPath
  <2>2. IsFiniteSet(best)
    <3> DEFINE f == [t \in DOMAIN p |-> Gain(Best(p[t], d), entry, d)]
    <3>1. best = {f[t] : t \in DOMAIN p}
      OBVIOUS
    <3> HIDE DEF f, best
    <3> QED
      BY <2>1, <3>1, FiniteImage
  <2>3. IsFiniteSet(worst)
    <3> DEFINE f == [t \in DOMAIN p |-> Gain(Worst(p[t], d), entry, d)]
    <3>1. worst = {f[t] : t \in DOMAIN p}
      OBVIOUS
    <3> HIDE DEF f, worst
    <3> QED
      BY <2>1, <3>1, FiniteImage
  <2> QED
    BY <2>2, <2>3, GainsAreNumbers DEF IsPath
<1>2. /\ Max(best) \in best /\ \A x \in best : x <= Max(best)
      /\ Min(worst) \in worst /\ \A x \in worst : Min(worst) <= x
  <2> HIDE DEF best, worst
  <2> QED
    BY <1>1, ExtremesExist
<1>3. Mfe(p, entry, d) = Max(best) /\ Mae(p, entry, d) = Min(worst)
  BY DEF Mfe, Mae
<1> QED
  BY <1>2, <1>3

\* time_to_mfe is the time of the first bar that attains mfe.
LEMMA TimeToMfeIsFirst ==
  ASSUME NEW p, IsPath(p), NEW entry \in Int, NEW d \in Directions
  PROVE  \E k \in DOMAIN p :
           /\ TimeToExtreme(p, entry, d, "max") = k - FirstBarTime(p)
           /\ Gain(Best(p[k], d), entry, d) = Mfe(p, entry, d)
           /\ \A t \in DOMAIN p : t < k => Gain(Best(p[t], d), entry, d) < Mfe(p, entry, d)
<1> DEFINE gain(t) == Gain(Best(p[t], d), entry, d)
           top == {t \in DOMAIN p : gain(t) = Mfe(p, entry, d)}
<1>1. top \in SUBSET Int /\ IsFiniteSet(top) /\ top # {}
  BY FS_Subset, ExcursionsAreExtremes DEF IsPath
<1>2. Min(top) \in top /\ \A x \in top : Min(top) <= x
  <2> HIDE DEF top
  <2> QED
    BY <1>1, ExtremesExist
<1>3. TimeToExtreme(p, entry, d, "max") = Min(top) - FirstBarTime(p)
  BY DEF TimeToExtreme, Elapsed, Mfe
<1>4. ASSUME NEW t \in DOMAIN p, t < Min(top) PROVE gain(t) < Mfe(p, entry, d)
  <2>1. gain(t) # Mfe(p, entry, d)
    <3>1. t \in Int /\ Min(top) \in Int
      BY <1>1, <1>2 DEF IsPath
    <3> QED
      BY <1>2, <1>4, <3>1
  <2>2. gain(t) \in Int /\ gain(t) <= Mfe(p, entry, d) /\ Mfe(p, entry, d) \in Int
    BY ExcursionsAreExtremes, GainsAreNumbers
  <2> QED
    BY <2>1, <2>2
<1> QED
  BY <1>2, <1>3, <1>4

-----------------------------------------------------------------------------
(* Labels *)

\* What an excursion of a path reaches of the barriers.
ReachesProfit(mfe, entry, config) ==
  config.profit # Nothing /\ 100 * mfe >= config.profit * entry
ReachesLoss(mae, entry, config) ==
  config.loss # Nothing /\ 100 * mae <= config.loss * entry

\* The first time at which the walk ends decides on the label.
LEMMA FirstEndDecides ==
  ASSUME NEW p, IsPath(p), NEW entry, NEW d, NEW config
  PROVE  LET ends == Ends(p, entry, d, config)
             hit == BarrierHit(p, entry, d, config)
             t == Min(ends)
             profit == TakesProfit(p[t], entry, d, config)
             loss == StopsLoss(p[t], entry, d, config) IN
         /\ ends = {} => hit = "TIME_ONLY"
         /\ ends # {} =>
              /\ t \in ends /\ \A s \in ends : t <= s
              /\ hit \in {"PROFIT_TAKE", "AMBIGUOUS"} => profit
              /\ hit \in {"STOP_LOSS", "AMBIGUOUS"} => loss
              /\ hit = "PROFIT_TAKE" => ~loss
              /\ hit = "STOP_LOSS" /\ config.policy = "AMBIGUOUS" => ~profit
              /\ hit = "TIME_ONLY" => ~profit /\ ~loss
<1> DEFINE ends == Ends(p, entry, d, config)
           t == Min(ends)
           profit == TakesProfit(p[t], entry, d, config)
           loss == StopsLoss(p[t], entry, d, config)
           hit == BarrierHit(p, entry, d, config)
<1>1. ASSUME ends # {} PROVE t \in ends /\ \A s \in ends : t <= s
  <2>1. ends \in SUBSET Int /\ IsFiniteSet(ends)
    BY FS_Subset DEF IsPath, Ends
  <2> HIDE DEF ends
  <2> QED
    BY <1>1, <2>1, ExtremesExist
<1>2. ASSUME ends # {}
      PROVE  \/ profit /\ loss /\ hit = (IF config.policy = "CONSERVATIVE" THEN "STOP_LOSS" ELSE "AMBIGUOUS")
             \/ profit /\ ~loss /\ hit = "PROFIT_TAKE"
             \/ ~profit /\ loss /\ hit = "STOP_LOSS"
             \/ ~profit /\ ~loss /\ hit = "TIME_ONLY"
  <2> HIDE DEF profit, loss, t, ends
  <2>1. hit = CASE ends = {} -> "TIME_ONLY"
                [] ends # {} /\ profit /\ loss ->
                     IF config.policy = "CONSERVATIVE" THEN "STOP_LOSS" ELSE "AMBIGUOUS"
                [] ends # {} /\ profit /\ ~loss -> "PROFIT_TAKE"
                [] ends # {} /\ ~profit /\ loss -> "STOP_LOSS"
                [] ends # {} /\ ~profit /\ ~loss -> "TIME_ONLY"
    BY DEF BarrierHit, profit, loss, t, ends
  <2>2. profit \in BOOLEAN /\ loss \in BOOLEAN
    BY DEF profit, loss, TakesProfit, StopsLoss
  <2> HIDE DEF hit
  <2> QED
    BY <1>2, <2>1, <2>2
<1>3. ASSUME ends = {} PROVE hit = "TIME_ONLY"
  BY <1>3 DEF BarrierHit
<1> HIDE DEF profit, loss, t, ends, hit
<1>4. ASSUME ends # {}
      PROVE  /\ hit \in {"PROFIT_TAKE", "AMBIGUOUS"} => profit
             /\ hit \in {"STOP_LOSS", "AMBIGUOUS"} => loss
             /\ hit = "PROFIT_TAKE" => ~loss
             /\ hit = "STOP_LOSS" /\ config.policy = "AMBIGUOUS" => ~profit
             /\ hit = "TIME_ONLY" => ~profit /\ ~loss
  BY <1>2, <1>4
<1> QED
  BY <1>1, <1>3, <1>4 DEF profit, loss, t, ends, hit

\* The label fits the excursions of the path.
LEMMA LabelFitsPath ==
  ASSUME NEW p, IsPath(p), NEW entry \in Int, NEW d \in Directions,
         NEW config, BarrierConfig(config)
  PROVE  LET hit == BarrierHit(p, entry, d, config)
             mfe == Mfe(p, entry, d)
             mae == Mae(p, entry, d) IN
         /\ hit \in {"PROFIT_TAKE", "AMBIGUOUS"} => ReachesProfit(mfe, entry, config)
         /\ hit \in {"STOP_LOSS", "AMBIGUOUS"} => ReachesLoss(mae, entry, config)
         /\ hit = "TIME_ONLY" /\ config.limit = Nothing =>
              ~ReachesProfit(mfe, entry, config) /\ ~ReachesLoss(mae, entry, config)
         /\ hit = "PROFIT_TAKE" =>
              \E t \in DOMAIN p :
                /\ TakesProfit(p[t], entry, d, config)
                /\ Elapsed(p, t) <= TimeToExtreme(p, entry, d, "max")
                /\ \A s \in DOMAIN p : s <= t => ~StopsLoss(p[s], entry, d, config)
         /\ hit = "STOP_LOSS" /\ config.policy = "AMBIGUOUS" =>
              \E t \in DOMAIN p :
                /\ StopsLoss(p[t], entry, d, config)
                /\ \A s \in DOMAIN p : s <= t => ~TakesProfit(p[s], entry, d, config)
<1> DEFINE hit == BarrierHit(p, entry, d, config)
           mfe == Mfe(p, entry, d)
           mae == Mae(p, entry, d)
           ends == Ends(p, entry, d, config)
           first == Min(ends)
           best(t) == Gain(Best(p[t], d), entry, d)
           worst(t) == Gain(Worst(p[t], d), entry, d)
           profit == config.profit * entry
           loss == config.loss * entry
<1>1. /\ \A t \in DOMAIN p : best(t) \in Int /\ worst(t) \in Int
      /\ \A t \in DOMAIN p : best(t) <= mfe /\ mae <= worst(t)
      /\ mfe \in Int /\ mae \in Int
  BY GainsAreNumbers, ExcursionsAreExtremes
<1>2. /\ config.profit # Nothing => profit \in Int
      /\ config.loss # Nothing => loss \in Int
  BY DEF BarrierConfig
<1>3. /\ \A t \in DOMAIN p : TakesProfit(p[t], entry, d, config) <=>
                              config.profit # Nothing /\ 100 * best(t) >= profit
      /\ \A t \in DOMAIN p : StopsLoss(p[t], entry, d, config) <=>
                              config.loss # Nothing /\ 100 * worst(t) <= loss
      /\ ReachesProfit(mfe, entry, config) <=> config.profit # Nothing /\ 100 * mfe >= profit
      /\ ReachesLoss(mae, entry, config) <=> config.loss # Nothing /\ 100 * mae <= loss
  BY DEF TakesProfit, StopsLoss, ReachesProfit, ReachesLoss
<1>4. /\ ends = {} => hit = "TIME_ONLY"
      /\ ends # {} =>
           /\ first \in ends /\ \A s \in ends : first <= s
           /\ hit \in {"PROFIT_TAKE", "AMBIGUOUS"} => TakesProfit(p[first], entry, d, config)
           /\ hit \in {"STOP_LOSS", "AMBIGUOUS"} => StopsLoss(p[first], entry, d, config)
           /\ hit = "PROFIT_TAKE" => ~StopsLoss(p[first], entry, d, config)
           /\ hit = "STOP_LOSS" /\ config.policy = "AMBIGUOUS" => ~TakesProfit(p[first], entry, d, config)
           /\ hit = "TIME_ONLY" => /\ ~TakesProfit(p[first], entry, d, config)
                                  /\ ~StopsLoss(p[first], entry, d, config)
  BY FirstEndDecides
<1>5. \A t \in ends : t \in DOMAIN p
  BY DEF Ends
<1>6. PICK k \in DOMAIN p : /\ TimeToExtreme(p, entry, d, "max") = k - FirstBarTime(p)
                           /\ best(k) = mfe
  BY TimeToMfeIsFirst
<1>7. PICK w \in DOMAIN p : worst(w) = mae
  BY ExcursionsAreExtremes
<1>8. k \in Int /\ FirstBarTime(p) \in Int /\ \A t \in ends : t \in Int
  BY <1>5, FirstBarIsFirst DEF IsPath
<1>9. ASSUME hit # "TIME_ONLY"
      PROVE  /\ ends # {} /\ first \in DOMAIN p /\ first \in Int
             /\ \A s \in DOMAIN p : s < first => /\ ~TakesProfit(p[s], entry, d, config)
                                               /\ ~StopsLoss(p[s], entry, d, config)
  <2>1. ends # {} /\ first \in DOMAIN p /\ first \in Int
    BY <1>4, <1>5, <1>8, <1>9
  <2>2. ASSUME NEW s \in DOMAIN p, s < first PROVE s \notin ends
    <3>1. s \in Int
      BY DEF IsPath
    <3> HIDE DEF first, ends
    <3> QED
      BY <1>4, <2>1, <2>2, <3>1
  <2>3. \A s \in DOMAIN p : s \notin ends => /\ ~TakesProfit(p[s], entry, d, config)
                                          /\ ~StopsLoss(p[s], entry, d, config)
    BY DEF Ends
  <2> HIDE DEF first, ends, hit
  <2> QED
    BY <2>1, <2>2, <2>3
<1>10. ASSUME hit \in {"PROFIT_TAKE", "AMBIGUOUS"}
       PROVE  /\ ReachesProfit(mfe, entry, config)
              /\ Elapsed(p, first) <= TimeToExtreme(p, entry, d, "max")
  <2>1. config.profit # Nothing /\ 100 * best(first) >= profit
    BY <1>3, <1>4, <1>9, <1>10
  <2> HIDE DEF best, worst, mfe, mae, profit, loss, first, ends
  <2>2. ReachesProfit(mfe, entry, config)
    BY <1>1, <1>2, <1>3, <1>9, <1>10, <2>1
  <2>3. TakesProfit(p[k], entry, d, config)
    BY <1>3, <1>6, <2>2
  <2>4. k \in ends
    BY <2>3 DEF Ends, ends
  <2>5. first <= k
    BY <1>4, <2>4
  <2> QED
    BY <1>6, <1>8, <1>9, <1>10, <2>2, <2>5 DEF Elapsed
<1>11. ASSUME hit \in {"STOP_LOSS", "AMBIGUOUS"}
       PROVE  ReachesLoss(mae, entry, config)
  <2>1. config.loss # Nothing /\ 100 * worst(first) <= loss
    BY <1>3, <1>4, <1>9, <1>11
  <2> HIDE DEF best, worst, mfe, mae, profit, loss, first, ends
  <2> QED
    BY <1>1, <1>2, <1>3, <1>9, <1>11, <2>1
<1>12. ASSUME hit = "TIME_ONLY", config.limit = Nothing
       PROVE  ~ReachesProfit(mfe, entry, config) /\ ~ReachesLoss(mae, entry, config)
  <2>1. ends = {}
    <3>1. \A t \in ends : TakesProfit(p[t], entry, d, config) \/ StopsLoss(p[t], entry, d, config)
      BY <1>12 DEF Ends, IsLate
    <3> HIDE DEF first, ends, hit
    <3> QED
      BY <1>4, <1>12, <3>1
  <2>2. ~TakesProfit(p[k], entry, d, config) /\ ~StopsLoss(p[w], entry, d, config)
    BY <2>1 DEF Ends
  <2> HIDE DEF best, worst, mfe, mae, profit, loss
  <2> QED
    BY <1>3, <1>6, <1>7, <2>2
<1>13. ASSUME hit \in {"PROFIT_TAKE", "STOP_LOSS"}, NEW s \in DOMAIN p, s <= first
       PROVE  /\ hit = "PROFIT_TAKE" => ~StopsLoss(p[s], entry, d, config)
              /\ hit = "STOP_LOSS" /\ config.policy = "AMBIGUOUS" =>
                   ~TakesProfit(p[s], entry, d, config)
  <2>1. s \in Int
    BY DEF IsPath
  <2> HIDE DEF first, ends, hit
  <2>2. s < first \/ s = first
    BY <1>9, <1>13, <2>1
  <2> QED
    BY <1>4, <1>9, <1>13, <2>2
<1> HIDE DEF first, ends, hit
<1>14. ASSUME hit = "PROFIT_TAKE"
       PROVE  \E t \in DOMAIN p :
                /\ TakesProfit(p[t], entry, d, config)
                /\ Elapsed(p, t) <= TimeToExtreme(p, entry, d, "max")
                /\ \A s \in DOMAIN p : s <= t => ~StopsLoss(p[s], entry, d, config)
  BY <1>4, <1>9, <1>10, <1>13, <1>14
<1>15. ASSUME hit = "STOP_LOSS", config.policy = "AMBIGUOUS"
       PROVE  \E t \in DOMAIN p :
                /\ StopsLoss(p[t], entry, d, config)
                /\ \A s \in DOMAIN p : s <= t => ~TakesProfit(p[s], entry, d, config)
  BY <1>4, <1>9, <1>13, <1>15
<1> QED
  BY <1>10, <1>11, <1>12, <1>14, <1>15 DEF hit

-----------------------------------------------------------------------------
(* Longer and shorter paths *)

\* Path p is what path q has until some time.
Precedes(p, q) ==
  \E end \in Int : /\ DOMAIN p = {t \in DOMAIN q : t <= end}
                  /\ \A t \in DOMAIN p : p[t] = q[t]

\* The bars that are there for the shorter path come first in the longer one.
LEMMA PrefixIsFirst ==
  ASSUME NEW p, NEW q, IsPath(p), IsPath(q), Precedes(p, q)
  PROVE  /\ DOMAIN p \subseteq DOMAIN q
         /\ \A s \in DOMAIN p, t \in DOMAIN q : t <= s => t \in DOMAIN p
         /\ \A s \in DOMAIN p, t \in DOMAIN q : t \notin DOMAIN p => s < t
         /\ FirstBarTime(p) = FirstBarTime(q)
         /\ Fill(p) = Fill(q)
<1>1. PICK end \in Int : /\ DOMAIN p = {t \in DOMAIN q : t <= end}
                        /\ \A t \in DOMAIN p : p[t] = q[t]
  BY DEF Precedes
<1>2. /\ \A t \in DOMAIN p : t \in Int
      /\ \A t \in DOMAIN q : t \in Int
  BY DEF IsPath
<1>3. DOMAIN p \subseteq DOMAIN q
  BY <1>1
<1>4. /\ \A s \in DOMAIN p, t \in DOMAIN q : t <= s => t \in DOMAIN p
      /\ \A s \in DOMAIN p, t \in DOMAIN q : t \notin DOMAIN p => s < t
  BY <1>1, <1>2
<1>5. FirstBarTime(p) = FirstBarTime(q)
  <2>1. /\ FirstBarTime(p) \in DOMAIN p /\ \A t \in DOMAIN p : FirstBarTime(p) <= t
        /\ FirstBarTime(q) \in DOMAIN q /\ \A t \in DOMAIN q : FirstBarTime(q) <= t
    BY FirstBarIsFirst
  <2>2. FirstBarTime(q) <= FirstBarTime(p) /\ FirstBarTime(q) \in DOMAIN p
    BY <1>3, <1>4, <2>1
  <2> QED
    BY <1>2, <2>1, <2>2
<1>6. Fill(p) = Fill(q)
  <2>1. p[FirstBarTime(p)] = q[FirstBarTime(q)]
    BY <1>1, <1>5, FirstBarIsFirst
  <2> QED
    BY <2>1 DEF Fill
<1> QED
  BY <1>3, <1>4, <1>5, <1>6

\* A barrier that is hit in the shorter path is hit in the longer one.
LEMMA PrefixHitIsHit ==
  ASSUME NEW p, NEW q, IsPath(p), IsPath(q), Precedes(p, q), NEW entry, NEW d, NEW config,
         BarrierHit(p, entry, d, config) # "TIME_ONLY"
  PROVE  BarrierHit(q, entry, d, config) = BarrierHit(p, entry, d, config)
<1> DEFINE short == Ends(p, entry, d, config)
           long == Ends(q, entry, d, config)
<1>0. /\ DOMAIN p \subseteq DOMAIN q
      /\ \A s \in DOMAIN p, t \in DOMAIN q : t \notin DOMAIN p => s < t
      /\ FirstBarTime(p) = FirstBarTime(q)
      /\ \A t \in DOMAIN p : p[t] = q[t]
  BY PrefixIsFirst DEF Precedes
<1>1. \A t \in DOMAIN p : IsLate(p, t, config) <=> IsLate(q, t, config)
  BY <1>0 DEF IsLate, Elapsed
<1>2. short = {t \in long : t \in DOMAIN p}
  BY <1>0, <1>1 DEF Ends
<1>3. short # {}
  BY FirstEndDecides
<1>4. long # {}
  BY <1>2, <1>3
<1>5. /\ Min(short) \in short /\ \A s \in short : Min(short) <= s
      /\ Min(long) \in long /\ \A s \in long : Min(long) <= s
  BY <1>3, <1>4, FirstEndDecides
<1>6. \A t \in long : t \in DOMAIN q /\ t \in Int
  BY DEF Ends, IsPath
<1> HIDE DEF short, long
<1>7. Min(short) = Min(long)
  <2>1. Min(short) \in long /\ Min(short) \in DOMAIN p
    BY <1>2, <1>5
  <2>2. Min(long) <= Min(short)
    BY <1>5, <2>1
  <2>3. Min(long) \in DOMAIN p
    BY <1>0, <1>5, <1>6, <2>1, <2>2
  <2>4. Min(short) <= Min(long)
    BY <1>2, <1>5, <2>3
  <2> QED
    BY <1>5, <1>6, <2>1, <2>2, <2>4
<1>8. p[Min(short)] = q[Min(long)]
  BY <1>0, <1>2, <1>5, <1>7
<1> QED
  BY <1>3, <1>4, <1>7, <1>8 DEF BarrierHit, short, long

\* A longer path only widens the excursions, and dates the same one alike.
LEMMA PrefixExcursions ==
  ASSUME NEW p, NEW q, IsPath(p), IsPath(q), Precedes(p, q),
         NEW entry \in Int, NEW d \in Directions
  PROVE  /\ Mfe(q, entry, d) >= Mfe(p, entry, d)
         /\ Mae(q, entry, d) <= Mae(p, entry, d)
         /\ IF Mfe(q, entry, d) = Mfe(p, entry, d)
              THEN TimeToExtreme(q, entry, d, "max") = TimeToExtreme(p, entry, d, "max")
              ELSE TimeToExtreme(q, entry, d, "max") > TimeToExtreme(p, entry, d, "max")
<1> DEFINE short(t) == Gain(Best(p[t], d), entry, d)
           long(t) == Gain(Best(q[t], d), entry, d)
<1>1. /\ DOMAIN p \subseteq DOMAIN q
      /\ \A s \in DOMAIN p, t \in DOMAIN q : t \notin DOMAIN p => s < t
      /\ FirstBarTime(p) = FirstBarTime(q)
      /\ \A t \in DOMAIN p : p[t] = q[t]
  BY PrefixIsFirst DEF Precedes
<1>2. /\ Mfe(p, entry, d) \in Int /\ Mfe(q, entry, d) \in Int
      /\ \A t \in DOMAIN p : short(t) = long(t)
      /\ \A t \in DOMAIN q : long(t) \in Int /\ long(t) <= Mfe(q, entry, d)
      /\ \A t \in DOMAIN p : short(t) \in Int /\ short(t) <= Mfe(p, entry, d)
  BY <1>1, GainsAreNumbers, ExcursionsAreExtremes
<1>3. PICK k \in DOMAIN p :
        /\ TimeToExtreme(p, entry, d, "max") = k - FirstBarTime(p)
        /\ short(k) = Mfe(p, entry, d)
        /\ \A t \in DOMAIN p : t < k => short(t) < Mfe(p, entry, d)
  BY TimeToMfeIsFirst
<1>4. PICK l \in DOMAIN q :
        /\ TimeToExtreme(q, entry, d, "max") = l - FirstBarTime(q)
        /\ long(l) = Mfe(q, entry, d)
        /\ \A t \in DOMAIN q : t < l => long(t) < Mfe(q, entry, d)
  BY TimeToMfeIsFirst
<1>5. Mae(q, entry, d) <= Mae(p, entry, d)
  BY <1>1, ExcursionsAreExtremes
<1>6. k \in DOMAIN q /\ k \in Int /\ l \in Int /\ FirstBarTime(q) \in Int
  BY <1>1, <1>3, <1>4, FirstBarIsFirst DEF IsPath
<1> HIDE DEF short, long
<1>7. Mfe(q, entry, d) >= Mfe(p, entry, d)
  BY <1>2, <1>3, <1>6
<1>8. CASE Mfe(q, entry, d) = Mfe(p, entry, d)
  <2>1. long(k) = Mfe(q, entry, d) /\ ~(long(k) < Mfe(q, entry, d))
    BY <1>2, <1>3, <1>8
  <2>2. l <= k
    BY <1>4, <1>6, <2>1
  <2>3. l \in DOMAIN p
    BY <1>1, <1>3, <1>4, <1>6, <2>2
  <2>4. ~(short(l) < Mfe(p, entry, d))
    BY <1>2, <1>4, <1>8, <2>3
  <2>5. k <= l
    BY <1>3, <1>6, <2>3, <2>4
  <2> QED
    BY <1>1, <1>3, <1>4, <1>6, <1>7, <1>5, <1>8, <2>2, <2>5
<1>9. CASE Mfe(q, entry, d) # Mfe(p, entry, d)
  <2>1. l \notin DOMAIN p
    BY <1>2, <1>4, <1>7, <1>9
  <2>2. k < l
    BY <1>1, <1>3, <1>4, <2>1
  <2> QED
    BY <1>1, <1>3, <1>4, <1>5, <1>6, <1>7, <1>9, <2>2
<1> QED
  BY <1>8, <1>9

-----------------------------------------------------------------------------
(* Evaluations of a signal *)

\* An evaluation that is COMPLETED is of bars, and enters at the first one's open.
LEMMA CompletedIsOfPath ==
  ASSUME NEW p, NEW d, NEW config, EvaluationOf(p, d, config).status = "COMPLETED"
  PROVE  /\ DOMAIN p # {}
         /\ EvaluationOf(p, d, config) = Completed(p, Fill(p).price, d, config)
         /\ Fill(p).price = p[FirstBarTime(p)].open
BY DEF EvaluationOf, Unfinished, Fill

\* The bars of the signal's symbol, and those that evaluations have read.
JourneyTypeOK ==
  /\ signal.direction \in Directions /\ signal.event \in Events
  /\ barriers \in Barriers
  /\ now \in 0..LastTick
  /\ market \in [Tick -> Bars \cup {NoBar}]
  /\ observed \in [Horizons -> SUBSET Tick]

\* What is evaluated was due, of bars that are still stored: evaluating them again
\* would give the same.
EvaluationsAreRepeatable ==
  \A h \in Horizons : evaluation[h] # NoTask =>
    /\ due[h] # NoTask
    /\ \A t \in observed[h] : market[t] # NoBar
    /\ evaluation[h] = EvaluationOf(Observed(h), signal.direction, barriers)

EvaluationInv ==
  JourneyTypeOK /\ DueIsComputed /\ EvaluationsAreRepeatable
  /\ DOMAIN evaluation = Horizons

\* The bars that an evaluation has read make a path, if there are any.
LEMMA ObservedIsPath ==
  ASSUME EvaluationInv, NEW h \in Horizons, evaluation[h] # NoTask, observed[h] # {}
  PROVE  IsPath(Observed(h))
<1>1. observed[h] \in SUBSET Tick /\ DOMAIN Observed(h) = observed[h]
  BY DEF EvaluationInv, JourneyTypeOK, Observed
<1>2. IsFiniteSet(observed[h])
  <2>1. IsFiniteSet(Tick)
    BY FS_Interval, JourneyAssumption DEF Tick
  <2> QED
    BY <1>1, <2>1, FS_Subset
<1>3. \A t \in observed[h] : Observed(h)[t] \in Bars
  BY <1>1 DEF Observed, EvaluationInv, JourneyTypeOK, EvaluationsAreRepeatable
<1> QED
  BY <1>1, <1>2, <1>3, JourneyAssumption DEF IsPath, Tick

\* Of two evaluations that have seen the same bars of the shorter window, one has
\* read what the other one has read first.
LEMMA SameBarsPrecede ==
  ASSUME EvaluationInv, NEW g \in Horizons, NEW h \in Horizons,
         due[g] \in Nat, SameBars(g, h)
  PROVE  Precedes(Observed(g), Observed(h))
<1>1. DOMAIN Observed(g) = observed[g] /\ DOMAIN Observed(h) = observed[h]
  BY DEF Observed
<1>2. DOMAIN Observed(g) = {t \in DOMAIN Observed(h) : t <= due[g]}
  BY <1>1 DEF SameBars
<1>3. \A t \in DOMAIN Observed(g) : Observed(g)[t] = Observed(h)[t]
  BY <1>1, <1>2 DEF Observed
<1> QED
  BY <1>2, <1>3 DEF Precedes

\* What is COMPLETED is of the path that its evaluation has read.
LEMMA CompletedEvaluation ==
  ASSUME EvaluationInv, NEW h \in Horizons, IsCompleted(h)
  PROVE  /\ due[h] \in Nat
         /\ IsPath(Observed(h)) /\ DOMAIN Observed(h) = observed[h]
         /\ Fill(Observed(h)).price \in Int
         /\ evaluation[h] = Completed(Observed(h), Fill(Observed(h)).price,
                                      signal.direction, barriers)
<1>1. /\ due[h] # NoTask /\ evaluation[h] # NoTask
      /\ evaluation[h] = EvaluationOf(Observed(h), signal.direction, barriers)
      /\ evaluation[h].status = "COMPLETED"
  BY DEF EvaluationInv, EvaluationsAreRepeatable, IsCompleted
<1>2. due[h] \in Nat
  BY <1>1, DueTimesAreNext DEF EvaluationInv, JourneyInv, JourneyTypeOK, IsNextSession
<1>3. /\ DOMAIN Observed(h) # {} /\ DOMAIN Observed(h) = observed[h]
      /\ evaluation[h] = Completed(Observed(h), Fill(Observed(h)).price,
                                   signal.direction, barriers)
      /\ Fill(Observed(h)).price = Observed(h)[FirstBarTime(Observed(h))].open
  BY <1>1, CompletedIsOfPath DEF Observed
<1>4. IsPath(Observed(h))
  BY <1>1, <1>3, ObservedIsPath
<1>5. Fill(Observed(h)).price \in Int
  BY <1>3, <1>4, FirstBarIsFirst DEF IsPath
<1> QED
  BY <1>2, <1>3, <1>4, <1>5

\* At first nothing is evaluated.
LEMMA EvaluationInit ==
  ASSUME JourneyInit
  PROVE  EvaluationInv
<1>1. now \in 0..LastTick
  BY EventsAreTimes DEF JourneyInit
<1>2. JourneyTypeOK
  BY <1>1 DEF JourneyInit, JourneyTypeOK, Directions
<1>3. DueIsComputed /\ EvaluationsAreRepeatable /\ DOMAIN evaluation = Horizons
  BY DEF JourneyInit, DueIsComputed, EvaluationsAreRepeatable
<1> QED
  BY <1>2, <1>3 DEF EvaluationInv

\* A bar that is saved, in time or late, changes none that an evaluation has read.
LEMMA SaveBarPreserves ==
  ASSUME EvaluationInv, NEW t \in Tick, NEW b \in Bars, SaveBar(t, b)
  PROVE  EvaluationInv'
<1>1. /\ UNCHANGED <<signal, barriers, now, due, evaluation, observed>>
      /\ market' = [market EXCEPT ![t] = Kept(market[t], b)]
      /\ market \in [Tick -> Bars \cup {NoBar}]
  BY DEF SaveBar, EvaluationInv, JourneyTypeOK
<1>2. /\ market' \in [Tick -> Bars \cup {NoBar}]
      /\ \A u \in Tick : market[u] # NoBar => market'[u] = market[u]
  BY <1>1 DEF Kept
<1>3. JourneyTypeOK'
  BY <1>1, <1>2 DEF EvaluationInv, JourneyTypeOK
<1>4. ASSUME NEW h \in Horizons, evaluation[h] # NoTask
      PROVE  /\ \A u \in observed[h] : market'[u] = market[u] /\ market[u] # NoBar
             /\ Observed(h)' = Observed(h)
  <2>1. \A u \in observed[h] : market'[u] = market[u] /\ market[u] # NoBar
    BY <1>2, <1>4 DEF EvaluationInv, JourneyTypeOK, EvaluationsAreRepeatable
  <2> QED
    BY <1>1, <2>1 DEF Observed
<1>5. EvaluationsAreRepeatable'
  BY <1>1, <1>4 DEF EvaluationInv, EvaluationsAreRepeatable
<1>6. DueIsComputed' /\ DOMAIN evaluation' = Horizons
  BY <1>1 DEF EvaluationInv, DueIsComputed
<1> QED
  BY <1>3, <1>5, <1>6 DEF EvaluationInv

\* An evaluation is made of the bars that it has read.
LEMMA EvaluateTaskPreserves ==
  ASSUME EvaluationInv, NEW h \in Horizons, EvaluateTask(h)
  PROVE  EvaluationInv'
<1>1. /\ UNCHANGED <<signal, barriers, now, market, due>>
      /\ due[h] # NoTask /\ due[h] <= now
      /\ evaluation' = [evaluation EXCEPT ![h] =
                          EvaluationOf(Path(h), signal.direction, barriers)]
      /\ observed' = [observed EXCEPT ![h] = DOMAIN Path(h)]
      /\ DOMAIN evaluation = Horizons
      /\ observed \in [Horizons -> SUBSET Tick]
  BY DEF EvaluateTask, EvaluationInv, JourneyTypeOK
<1>2. DOMAIN Path(h) \in SUBSET Tick
  <2>1. signal.event \in Nat /\ now \in Nat /\ now <= LastTick /\ due[h] \in Nat
    <3>1. signal.event \in Nat /\ now \in Nat /\ now <= LastTick
      BY EventsAreTimes, JourneyAssumption DEF EvaluationInv, JourneyTypeOK
    <3>2. due[h] \in Nat
      BY <1>1, DueTimesAreNext DEF EvaluationInv, JourneyInv, JourneyTypeOK, IsNextSession
    <3> QED
      BY <3>1, <3>2
  <2>2. DOMAIN Path(h) \subseteq (signal.event + 1)..due[h]
    BY DEF Path
  <2>3. (signal.event + 1)..due[h] \subseteq Tick
    BY <1>1, <2>1, JourneyAssumption DEF Tick
  <2> QED
    BY <2>2, <2>3
<1>3. /\ observed' \in [Horizons -> SUBSET Tick] /\ observed'[h] = DOMAIN Path(h)
      /\ \A g \in Horizons : g # h => observed'[g] = observed[g] /\ evaluation'[g] = evaluation[g]
      /\ evaluation'[h] = EvaluationOf(Path(h), signal.direction, barriers)
      /\ DOMAIN evaluation' = Horizons
  BY <1>1, <1>2
<1>4. JourneyTypeOK' /\ DueIsComputed'
  BY <1>1, <1>3 DEF EvaluationInv, JourneyTypeOK, DueIsComputed
<1>5. Observed(h)' = Path(h) /\ \A t \in observed'[h] : market'[t] # NoBar
  BY <1>1, <1>3 DEF Observed, Path
<1>6. \A g \in Horizons : g # h => Observed(g)' = Observed(g)
  BY <1>1, <1>3 DEF Observed
<1>7. EvaluationsAreRepeatable'
  BY <1>1, <1>3, <1>5, <1>6 DEF EvaluationInv, EvaluationsAreRepeatable
<1> QED
  BY <1>3, <1>4, <1>7 DEF EvaluationInv

\* Every step preserves the invariant.
LEMMA EvaluationStepPreserves ==
  ASSUME EvaluationInv, [JourneyNext]_journeyVars
  PROVE  EvaluationInv'
<1>1. CASE Schedule
  <2>1. JourneyTypeOK' /\ DueIsComputed' /\ DOMAIN evaluation' = Horizons
    BY <1>1 DEF Schedule, EvaluationInv, JourneyTypeOK, DueIsComputed
  <2>2. \A h \in Horizons : evaluation'[h] = NoTask
    BY <1>1 DEF Schedule, EvaluationInv, EvaluationsAreRepeatable
  <2> QED
    BY <2>1, <2>2 DEF EvaluationInv, EvaluationsAreRepeatable
<1>2. CASE PassTime
  <2>1. now' \in 0..LastTick /\ UNCHANGED <<signal, barriers, market, due, evaluation, observed>>
    BY <1>2, JourneyAssumption DEF PassTime, EvaluationInv, JourneyTypeOK
  <2> QED
    BY <2>1 DEF EvaluationInv, JourneyTypeOK, DueIsComputed, EvaluationsAreRepeatable, Observed
<1>3. ASSUME NEW t \in Tick, NEW b \in Bars, SaveBar(t, b)
      PROVE  EvaluationInv'
  BY <1>3, SaveBarPreserves
<1>4. ASSUME NEW h \in Horizons, EvaluateTask(h)
      PROVE  EvaluationInv'
  BY <1>4, EvaluateTaskPreserves
<1>5. CASE UNCHANGED journeyVars
  BY <1>5 DEF journeyVars, EvaluationInv, JourneyTypeOK, DueIsComputed, EvaluationsAreRepeatable,
              Observed
<1> QED
  BY <1>1, <1>2, <1>3, <1>4, <1>5 DEF JourneyNext

\* detect_first_barrier_hit and the excursions (evaluation/evaluator.py): for every
\* path of bars, direction and barrier configuration, the label says of the
\* excursions beside it what they are.
THEOREM LabelsFitExcursions == JourneySpec => []LabelFitsExcursions
<1>1. JourneyInit => EvaluationInv
  BY EvaluationInit
<1>2. EvaluationInv /\ [JourneyNext]_journeyVars => EvaluationInv'
  BY EvaluationStepPreserves
<1>3. EvaluationInv => LabelFitsExcursions
  <2> SUFFICES ASSUME EvaluationInv, NEW h \in Horizons, IsCompleted(h), HasPriceBarriers(barriers)
               PROVE  LET e == evaluation[h]
                          path == Observed(h)
                          takes(t) == TakesProfit(path[t], e.entry, signal.direction, barriers)
                          stops(t) == StopsLoss(path[t], e.entry, signal.direction, barriers)
                          reachesProfit == ReachesProfit(e.mfe, e.entry, barriers)
                          reachesLoss == ReachesLoss(e.mae, e.entry, barriers) IN
                      /\ e.label \in {"PROFIT_TAKE", "AMBIGUOUS"} => reachesProfit
                      /\ e.label \in {"STOP_LOSS", "AMBIGUOUS"} => reachesLoss
                      /\ e.label = "TIME_ONLY" /\ barriers.limit = Nothing =>
                           ~reachesProfit /\ ~reachesLoss
                      /\ e.label = "PROFIT_TAKE" =>
                           \E t \in observed[h] :
                             /\ takes(t) /\ Elapsed(path, t) <= e.timeToMfe
                             /\ \A s \in observed[h] : s <= t => ~stops(s)
                      /\ e.label = "STOP_LOSS" /\ barriers.policy = "AMBIGUOUS" =>
                           \E t \in observed[h] :
                             stops(t) /\ \A s \in observed[h] : s <= t => ~takes(s)
    BY DEF LabelFitsExcursions, ReachesProfit, ReachesLoss
  <2> DEFINE path == Observed(h)
             entry == Fill(path).price
  <2>1. /\ IsPath(path) /\ entry \in Int /\ DOMAIN path = observed[h]
        /\ evaluation[h] = Completed(path, entry, signal.direction, barriers)
    BY CompletedEvaluation
  <2>2. signal.direction \in Directions /\ BarrierConfig(barriers)
    BY JourneyAssumption DEF EvaluationInv, JourneyTypeOK
  <2> HIDE DEF path, entry
  <2>3. /\ evaluation[h].entry = entry
        /\ evaluation[h].label = BarrierHit(path, entry, signal.direction, barriers)
        /\ evaluation[h].mfe = Mfe(path, entry, signal.direction)
        /\ evaluation[h].mae = Mae(path, entry, signal.direction)
        /\ evaluation[h].timeToMfe = TimeToExtreme(path, entry, signal.direction, "max")
    BY <2>1 DEF Completed
  <2>4. Observed(h) = path
    BY DEF path
  <2> QED
    BY <2>1, <2>2, <2>3, <2>4, LabelFitsPath
<1> QED
  BY <1>1, <1>2, <1>3, PTL DEF JourneySpec

\* SignalEvaluator and save_bar (market_data/repository.py): the evaluations of one
\* signal at its horizons, each computed on its own at a time of its own, agree as
\* far as they have read the same bars, whatever is saved and refused in between.
THEOREM HorizonsAgree == JourneySpec => []LongerHorizonAgrees
<1>1. JourneyInit => EvaluationInv
  BY EvaluationInit
<1>2. EvaluationInv /\ [JourneyNext]_journeyVars => EvaluationInv'
  BY EvaluationStepPreserves
<1>3. EvaluationInv => LongerHorizonAgrees
  <2> SUFFICES ASSUME EvaluationInv, NEW g \in Horizons, NEW h \in Horizons, g < h,
                      IsCompleted(g), IsCompleted(h), SameBars(g, h)
               PROVE  /\ evaluation[g].entry = evaluation[h].entry
                      /\ evaluation[g].label # "TIME_ONLY" =>
                           evaluation[h].label = evaluation[g].label
                      /\ evaluation[h].mfe >= evaluation[g].mfe
                      /\ evaluation[h].mae <= evaluation[g].mae
                      /\ IF evaluation[h].mfe = evaluation[g].mfe
                           THEN evaluation[h].timeToMfe = evaluation[g].timeToMfe
                           ELSE evaluation[h].timeToMfe > evaluation[g].timeToMfe
    BY DEF LongerHorizonAgrees
  <2> DEFINE short == Observed(g)
             long == Observed(h)
             entry == Fill(short).price
             d == signal.direction
  <2>1. /\ IsPath(short) /\ IsPath(long) /\ entry \in Int /\ d \in Directions
        /\ evaluation[g] = Completed(short, entry, d, barriers)
        /\ evaluation[h] = Completed(long, Fill(long).price, d, barriers)
    BY CompletedEvaluation DEF EvaluationInv, JourneyTypeOK
  <2>2. Precedes(short, long)
    BY CompletedEvaluation, SameBarsPrecede
  <2> HIDE DEF short, long, entry, d
  <2>3. Fill(long).price = entry
    BY <2>1, <2>2, PrefixIsFirst DEF entry
  <2>4. /\ evaluation[g].entry = entry /\ evaluation[h].entry = entry
        /\ evaluation[g].mfe = Mfe(short, entry, d) /\ evaluation[h].mfe = Mfe(long, entry, d)
        /\ evaluation[g].mae = Mae(short, entry, d) /\ evaluation[h].mae = Mae(long, entry, d)
        /\ evaluation[g].timeToMfe = TimeToExtreme(short, entry, d, "max")
        /\ evaluation[h].timeToMfe = TimeToExtreme(long, entry, d, "max")
    BY <2>1, <2>3 DEF Completed
  <2>5. /\ evaluation[g].label = IF HasPriceBarriers(barriers) THEN BarrierHit(short, entry, d, barriers)
                                 ELSE "TIME_ONLY"
        /\ evaluation[h].label = IF HasPriceBarriers(barriers) THEN BarrierHit(long, entry, d, barriers)
                                 ELSE "TIME_ONLY"
    BY <2>1, <2>3 DEF Completed
  <2>6. evaluation[g].label # "TIME_ONLY" => evaluation[h].label = evaluation[g].label
    BY <2>1, <2>2, <2>5, PrefixHitIsHit
  <2> QED
    BY <2>1, <2>2, <2>4, <2>6, PrefixExcursions
<1> QED
  BY <1>1, <1>2, <1>3, PTL DEF JourneySpec

-----------------------------------------------------------------------------
(* Paper positions *)

\* What the fill of each signal did to the position.
ChangeBy == [s \in PaperSignal |-> Change(s, fills[s])]

PaperInv == /\ position \in Nat
            /\ fills \in [PaperSignal -> Nat]
            /\ position = Total(ChangeBy, PaperSignal)

\* A change is a number of shares, and no fill is no change.
LEMMA ChangeIsNumber ==
  /\ \A s \in PaperSignal, n \in Nat : Change(s, n) \in Int
  /\ \A s \in PaperSignal : Change(s, 0) = 0
<1>1. ASSUME NEW n \in Nat PROVE -n \in Int /\ (n = 0 => -n = 0)
  OBVIOUS
<1>2. \A s \in PaperSignal, n \in Nat : Change(s, n) \in Int /\ (n = 0 => Change(s, n) = 0)
  BY <1>1 DEF Change
<1> QED
  BY <1>2

\* A fill changes the position once, by what it says, and sells no more than is
\* held.
LEMMA ApplyKeepsBook ==
  ASSUME PaperInv, NEW s \in PaperSignal, Apply(s)
  PROVE  PaperInv'
<1> DEFINE q == Quantity(s)
<1>1. q \in Nat /\ DefaultQuantity \in Nat
  BY PaperAssumption DEF PaperInv, Quantity, Lesser
<1>2. ActionOf[s] # "BUY" => q <= position
  BY <1>1, PaperAssumption DEF PaperInv, Quantity, Lesser
<1>3. position' = position + Change(s, q) /\ fills' = [fills EXCEPT ![s] = q] /\ fills[s] = 0
  BY DEF Apply, AlreadyFilled
<1> HIDE DEF q
<1>4. /\ \A t \in PaperSignal : ChangeBy[t] \in Int /\ ChangeBy'[t] \in Int
      /\ \A t \in PaperSignal \ {s} : ChangeBy'[t] = ChangeBy[t]
      /\ ChangeBy'[s] = Change(s, q) /\ ChangeBy[s] = 0
  <2>1. fills \in [PaperSignal -> Nat] /\ fills' \in [PaperSignal -> Nat]
        /\ fills'[s] = q /\ \A t \in PaperSignal \ {s} : fills'[t] = fills[t]
    BY <1>1, <1>3 DEF PaperInv
  <2> QED
    BY <1>1, <1>3, <2>1, ChangeIsNumber DEF ChangeBy, PaperInv
<1>5. Total(ChangeBy', PaperSignal) = Total(ChangeBy, PaperSignal) + (ChangeBy'[s] - ChangeBy[s])
  <2> DEFINE new == ChangeBy'
             old == ChangeBy
  <2>1. /\ \A t \in PaperSignal : old[t] \in Int /\ new[t] \in Int
        /\ \A t \in PaperSignal \ {s} : new[t] = old[t]
    BY <1>4
  <2> HIDE DEF new, old
  <2>0. IsFiniteSet(PaperSignal) /\ s \in PaperSignal
    BY PaperAssumption
  <2>2. Total(new, PaperSignal) = Total(old, PaperSignal) + (new[s] - old[s])
    BY <2>0, <2>1, TotalChangesBy
  <2> QED
    BY <2>2 DEF new, old
<1>6. Change(s, q) \in Int /\ position + Change(s, q) >= 0
  BY <1>1, <1>2 DEF Change, PaperInv
<1>7. position' = Total(ChangeBy, PaperSignal)'
  BY <1>3, <1>4, <1>5, <1>6 DEF PaperInv
<1>8. position' \in Nat /\ fills' \in [PaperSignal -> Nat]
  BY <1>1, <1>3, <1>6 DEF PaperInv
<1> QED
  BY <1>7, <1>8 DEF PaperInv

\* The sum of the property is the total of ChangeBy.
LEMMA ChangeSum ==
  ASSUME PaperInv
  PROVE  MapThenSumSet(LAMBDA s : Change(s, fills[s]), PaperSignal) = Total(ChangeBy, PaperSignal)
<1> DEFINE Sums(h) == h = [t \in SUBSET PaperSignal |->
             IF t = {} THEN 0 ELSE Change(Taken(t), fills[Taken(t)]) + h[t \ {Taken(t)}]]
           sums == CHOOSE h : Sums(h)
<1>1. MapThenSumSet(LAMBDA s : Change(s, fills[s]), PaperSignal) = sums[PaperSignal]
  BY Zenon DEF MapThenSumSet, MapThenFoldSet, Taken
<1>2. \A s \in PaperSignal : ChangeBy[s] \in Int /\ ChangeBy[s] = Change(s, fills[s])
  BY ChangeIsNumber DEF PaperInv, ChangeBy
<1>3. ASSUME NEW h PROVE SumsUp(h, ChangeBy, PaperSignal) <=> Sums(h)
  <2>1. \A t \in SUBSET PaperSignal : t # {} => ChangeBy[Taken(t)] = Change(Taken(t), fills[Taken(t)])
    BY <1>2 DEF Taken
  <2> QED
    BY <2>1 DEF SumsUp
<1>4. \E h : SumsUp(h, ChangeBy, PaperSignal)
  BY <1>2, SumsExist, PaperAssumption
<1> HIDE DEF Sums
<1>5. SumsUp(sums, ChangeBy, PaperSignal)
  BY <1>3, <1>4
<1> QED
  BY <1>1, <1>5, TotalIsSum, PaperAssumption

\* PaperPortfolio.apply_signal: signals applied in any order, and again, make a
\* position that is never short and is what the fills of the signals add up to.
THEOREM PaperBookBalances == PaperSpec => []PositionIsItsFills
<1>1. ASSUME PaperInit PROVE PaperInv
  <2>1. \A s \in PaperSignal : ChangeBy[s] = 0
    BY <1>1, ChangeIsNumber DEF PaperInit, ChangeBy
  <2>2. Total(ChangeBy, PaperSignal) = 0
    BY <2>1, TotalOfNaturals, PaperAssumption
  <2> QED
    BY <1>1, <2>2 DEF PaperInit, PaperInv
<1>2. PaperInv /\ [PaperNext]_paperVars => PaperInv'
  BY ApplyKeepsBook DEF PaperNext, paperVars, PaperInv, ChangeBy, Change
<1>3. PaperInv => PositionIsItsFills
  BY ChangeSum DEF PaperInv, PositionIsItsFills
<1> QED
  BY <1>1, <1>2, <1>3, PTL DEF PaperSpec
=============================================================================
