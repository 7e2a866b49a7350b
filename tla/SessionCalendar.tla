-------------------------- MODULE SessionCalendar --------------------------
(***************************************************************************)
(* SimpleAshareTradingCalendar.  A time is a number of ticks since some     *)
(* midnight in Shanghai; each day has DayLength of them, of which some are  *)
(* the start and the end of the morning and of the afternoon session.  The  *)
(* weekends and the holidays are the days that are no trading days.         *)
(***************************************************************************)
EXTENDS Naturals

CONSTANTS
  DayLength,                    \* ticks of a day
  MorningStart, MorningEnd,     \* 9:30 and 11:30
  AfternoonStart, AfternoonEnd, \* 13:00 and 15:00
  TradingDays                   \* is_trading_day

ASSUME CalendarAssumption ==
  /\ MorningStart \in Nat /\ MorningEnd \in Nat
  /\ AfternoonStart \in Nat /\ AfternoonEnd \in Nat /\ DayLength \in Nat
  /\ 0 < MorningStart /\ MorningStart < MorningEnd /\ MorningEnd < AfternoonStart
  /\ AfternoonStart < AfternoonEnd /\ AfternoonEnd < DayLength
  /\ TradingDays \subseteq Nat

Day(t) == t \div DayLength
TimeOfDay(t) == t % DayLength

At(day, tick) == day * DayLength + tick

\* is_session_time: both ends of both sessions belong to them.
IsSessionTime(t) ==
  /\ Day(t) \in TradingDays
  /\ TimeOfDay(t) \in (MorningStart..MorningEnd) \cup (AfternoonStart..AfternoonEnd)

\* Mutant of NextOnDay: the lunch break is not looked at.
NextOnDayWithoutLunch(day, t) ==
  IF t <= At(day, MorningStart) THEN At(day, MorningStart) ELSE t

\* One turn of the loop of next_session_time, on a trading day, for a time that
\* is not after its close: its start, the time itself, or the afternoon's start.
\* The second test looks at the time of day only.
NextOnDay(day, t) ==
  IF t <= At(day, MorningStart) THEN At(day, MorningStart)
  ELSE IF TimeOfDay(t) <= MorningEnd THEN t
  ELSE IF t <= At(day, AfternoonStart) THEN At(day, AfternoonStart)
  ELSE t

\* The trading days from day d on.
TradingDaysFrom(d) == {e \in TradingDays : e >= d}

First(D) == CHOOSE d \in D : \A e \in D : d <= e

\* next_session_time: the loop skips the days without trading, and after the
\* close of one it goes on with midnight of the next day.  Before the first
\* trading day `local` is still the given time, which is before its morning.
NextSessionTime(t) ==
  LET day == First(TradingDaysFrom(Day(t))) IN
    IF t <= At(day, AfternoonEnd) THEN NextOnDay(day, t)
    ELSE At(First(TradingDaysFrom(day + 1)), MorningStart)

\* next_evaluation_time
NextEvaluationTime(t, horizon) == NextSessionTime(t + horizon)
============================================================================
