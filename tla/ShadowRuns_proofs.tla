------------------------ MODULE ShadowRuns_proofs ------------------------
(***************************************************************************)
(* What TLAPS proves of ShadowRuns, for any number of runs, bars, contents  *)
(* and restarts, and any strategies.  The core is BarsBehindAreStored: what *)
(* a run has passed is in market_bars as it was fetched, and stays there,   *)
(* because market_bars is only ever added to.                               *)
(***************************************************************************)
EXTENDS ShadowRuns, FiniteSetTheorems, TLAPS

-----------------------------------------------------------------------------
(* The inductive invariant *)

\* A run counts a bar after it has gone to it, and a signal after its bar.
CountersFollow ==
  \A r \in Run :
    /\ seen[r] <= at[r]
    /\ created[r] <= seen[r]
    /\ pc[r] \in {"saving", "insertingBar", "deciding"} =>
         /\ seen[r] < at[r]
         /\ feed[r][at[r]] \in Content
    /\ pc[r] \in {"appending", "insertingSignal", "counting"} => created[r] < seen[r]

\* Has the run stored bar b, if b is one of its bars?
Passed(r, b) == IF pc[r] \in {"saving", "insertingBar", "failing", "done"}
                THEN b < at[r] ELSE b <= at[r]

BarsBehindAreStored ==
  \A r \in Run, b \in Bar :
    Passed(r, b) /\ feed[r][b] # NoBar => bars[b] = feed[r][b]

WindowStored(e) == \A b \in DOMAIN e.window : bars[b] = e.window[b]

\* The same of the bars after a step.
WillBeStored(e) == \A b \in DOMAIN e.window : bars'[b] = e.window[b]

EventsInHandComeFromStoredBars ==
  \A r \in Run : event[r] # NoEvent => WindowStored(event[r])

\* Before it has fetched its bars a run is at none of them.
NothingBeforeFetching ==
  \A r \in Run : pc[r] \in {"none", "starting", "fetching"} => at[r] = 0

ThreadEndsTerminal == \A r \in Run : pc[r] = "done" => status[r] \in Terminal

RunsInv == /\ TypeOK
           /\ CountersFollow
           /\ BarsBehindAreStored
           /\ EventsInHandComeFromStoredBars
           /\ SignalsComeFromStoredBars
           /\ NothingBeforeFetching
           /\ ThreadEndsTerminal

-----------------------------------------------------------------------------
(* Lemmas *)

\* A feature window holds nothing but bars the run was given, none of them
\* later than the bar it belongs to.
LEMMA WindowIsPast ==
  ASSUME NEW f \in Feed, NEW b \in Bar
  PROVE  /\ DOMAIN Window(f, b) \subseteq Bar
         /\ \A c \in DOMAIN Window(f, b) :
              /\ c <= b
              /\ f[c] # NoBar
              /\ Window(f, b)[c] = f[c]
              /\ Window(f, b)[c] \in Content
  BY DEF Window, WindowTimes, Answered, Feed, Bar

\* An event that may be stored may still be stored after a restart.
LEMMA AnEventStays ==
  ASSUME NEW e, AnEvent(e), life \in Nat, life' \in Nat, life <= life'
  PROVE  AnEvent(e)'
  BY DEF AnEvent

-----------------------------------------------------------------------------
(* Type correctness *)

\* The empty stores and threads are of their types.
LEMMA TypeInit == Init => TypeOK
BY RunsAssumption DEF Init, TypeOK, Feed, NoFeed, Status, PC, Bar, Event

\* The steps of handlers and threads that change no store keep the types.
LEMMA TypeStep ==
  ASSUME TypeOK, CountersFollow, Next
  PROVE  TypeOK'
<1> USE RunsAssumption DEF TypeOK, Goto, SetStatus
<1>1. ASSUME life' = life
      PROVE  \A e : AnEvent(e) => AnEvent(e)'
  BY <1>1, AnEventStays
<1>2. ASSUME NEW r \in Run, StartRun(r) PROVE TypeOK'
  BY <1>2, <1>1 DEF StartRun, Status, PC
<1>3. ASSUME NEW r \in Run, StopRun(r) PROVE TypeOK'
  BY <1>3, <1>1 DEF StopRun, Status
<1>4. ASSUME NEW r \in Run, Begin(r) PROVE TypeOK'
  BY <1>4, <1>1 DEF Begin, Status, PC
<1>5. ASSUME NEW r \in Run, Fetch(r) PROVE TypeOK'
  BY <1>5, <1>1 DEF Fetch, PC
<1>6. ASSUME NEW r \in Run, NextBar(r) PROVE TypeOK'
  BY <1>6, <1>1 DEF NextBar, PC, Rest, Answered, Bar
<1>7. ASSUME NEW r \in Run, LeaveLoop(r) PROVE TypeOK'
  BY <1>7, <1>1 DEF LeaveLoop, PC, Status
<1>8. ASSUME NEW r \in Run, SaveRead(r) PROVE TypeOK'
  BY <1>8, <1>1 DEF SaveRead, PC
<1>9. ASSUME NEW r \in Run, SaveInsert(r) PROVE TypeOK'
  BY <1>9, <1>1 DEF SaveInsert, PC, Feed, Bar, CountersFollow
<1>10. ASSUME NEW r \in Run, DecideOnBar(r) PROVE TypeOK'
  <2> DEFINE window == Window(feed[r], at[r])
             e == Event(IdOf(feed[r], at[r]), r, window)
  <2>1. at[r] \in Bar /\ seen[r] < at[r] /\ feed[r] \in Feed
    BY <1>10 DEF DecideOnBar, CountersFollow, Bar
  <2>2. HasCandidate(feed[r], at[r]) => AnEvent(e)
    BY <2>1, WindowIsPast DEF AnEvent, Event, IdOf, SignalId, HasCandidate
  <2>3. event' = event \/ (HasCandidate(feed[r], at[r]) /\ event' = [event EXCEPT ![r] = e])
    BY <1>10 DEF DecideOnBar
  <2>4. DOMAIN event' = Run /\ \A q \in Run : event'[q] # NoEvent => AnEvent(event'[q])
    BY <2>2, <2>3
  <2>5. seen' \in [Run -> 0..NumBars] /\ pc' \in [Run -> PC]
    BY <1>10, <2>1 DEF DecideOnBar, PC
  <2> QED
    BY <1>10, <1>1, <2>4, <2>5 DEF DecideOnBar
<1>11. ASSUME NEW r \in Run, AppendRead(r) PROVE TypeOK'
  BY <1>11, <1>1 DEF AppendRead, PC
<1>12. ASSUME NEW r \in Run, AppendInsert(r) PROVE TypeOK'
  BY <1>12, <1>1 DEF AppendInsert, PC
<1>13. ASSUME NEW r \in Run, Count(r) PROVE TypeOK'
  BY <1>13, <1>1 DEF Count, PC, CountersFollow
<1>14. ASSUME NEW r \in Run, End(r) PROVE TypeOK'
  BY <1>14, <1>1 DEF End, PC, Status, Outcome
<1>15. ASSUME NEW r \in Run, Fail(r) PROVE TypeOK'
  BY <1>15, <1>1 DEF Fail, PC, Status
<1>16. ASSUME Restart PROVE TypeOK'
  <2>1. \A e : AnEvent(e) => AnEvent(e)'
    BY <1>16, AnEventStays DEF Restart
  <2> QED
    BY <1>16, <2>1 DEF Restart, PC, Status, Feed, NoFeed
<1> QED
  BY <1>2, <1>3, <1>4, <1>5, <1>6, <1>7, <1>8, <1>9, <1>10, <1>11, <1>12,
     <1>13, <1>14, <1>15, <1>16 DEF Next, Thread

-----------------------------------------------------------------------------
(* The counters *)

\* No step of a thread counts a bar before it has gone to it.
LEMMA CountersStep ==
  ASSUME TypeOK, CountersFollow, Next
  PROVE  CountersFollow'
<1> USE RunsAssumption DEF TypeOK, CountersFollow, Goto, SetStatus
<1>1. ASSUME NEW r \in Run, StartRun(r) \/ StopRun(r) PROVE CountersFollow'
  BY <1>1 DEF StartRun, StopRun
<1>2. ASSUME NEW r \in Run, Begin(r) \/ Fetch(r) PROVE CountersFollow'
  BY <1>2 DEF Begin, Fetch
<1>3. ASSUME NEW r \in Run, NextBar(r) PROVE CountersFollow'
  BY <1>3 DEF NextBar, Rest, Answered, Feed, Bar
<1>4. ASSUME NEW r \in Run, LeaveLoop(r) PROVE CountersFollow'
  BY <1>4 DEF LeaveLoop
<1>5. ASSUME NEW r \in Run, SaveRead(r) \/ SaveInsert(r) PROVE CountersFollow'
  BY <1>5 DEF SaveRead, SaveInsert
<1>6. ASSUME NEW r \in Run, DecideOnBar(r) PROVE CountersFollow'
  BY <1>6 DEF DecideOnBar
<1>7. ASSUME NEW r \in Run, AppendRead(r) \/ AppendInsert(r) PROVE CountersFollow'
  BY <1>7 DEF AppendRead, AppendInsert
<1>8. ASSUME NEW r \in Run, Count(r) PROVE CountersFollow'
  BY <1>8 DEF Count
<1>9. ASSUME NEW r \in Run, End(r) \/ Fail(r) PROVE CountersFollow'
  BY <1>9 DEF End, Fail
<1>10. ASSUME Restart PROVE CountersFollow'
  BY <1>10 DEF Restart
<1> QED
  BY <1>1, <1>2, <1>3, <1>4, <1>5, <1>6, <1>7, <1>8, <1>9, <1>10 DEF Next, Thread

-----------------------------------------------------------------------------
(* The stores *)

\* market_bars is only ever added to.
LEMMA StoredBarsStay ==
  ASSUME TypeOK, CountersFollow, Next
  PROVE  \A b \in Bar : bars[b] # NoBar => bars'[b] = bars[b]
<1>1. ASSUME NEW r \in Run, SaveInsert(r)
      PROVE  \A b \in Bar : bars[b] # NoBar => bars'[b] = bars[b]
  BY <1>1 DEF SaveInsert, TypeOK, Feed
<1>2. ASSUME ~\E r \in Run : SaveInsert(r)
      PROVE  bars' = bars
  BY <1>2 DEF Next, Thread, StartRun, StopRun, Begin, Fetch, NextBar, LeaveLoop,
     SaveRead, DecideOnBar, AppendRead, AppendInsert, Count, End, Fail, Restart
<1> QED
  BY <1>1, <1>2

\* Where the bar a run is at is not counted as one it has passed.
AtTheBar == {"saving", "insertingBar", "failing", "done"}

\* A thread that moves on without a bar, or gives up the one it is at, has
\* passed no more bars than before.
LEMMA MovingOnPassesNothing ==
  ASSUME TypeOK, BarsBehindAreStored, NEW r \in Run, NEW label,
         pc' = [pc EXCEPT ![r] = label], UNCHANGED <<bars, feed, at>>,
         label \in AtTheBar \/ pc[r] \notin AtTheBar
  PROVE  BarsBehindAreStored'
<1>1. ASSUME NEW q \in Run, NEW b \in Bar, Passed(q, b)'
      PROVE  Passed(q, b)
  BY <1>1 DEF Passed, TypeOK, AtTheBar, Bar
<1> QED
  BY <1>1 DEF BarsBehindAreStored

\* A step of any thread leaves what the others have passed in the store, and
\* a thread passes a bar only once save_bar has stored it.
LEMMA BarsBehindStep ==
  ASSUME TypeOK, CountersFollow, BarsBehindAreStored, NothingBeforeFetching, Next
  PROVE  BarsBehindAreStored'
<1> USE DEF Goto, SetStatus
<1>1. ASSUME NEW r \in Run, StartRun(r) \/ Begin(r) PROVE BarsBehindAreStored'
  BY <1>1, MovingOnPassesNothing DEF StartRun, Begin, AtTheBar
<1>2. ASSUME NEW r \in Run, StopRun(r) PROVE BarsBehindAreStored'
  BY <1>2 DEF StopRun, BarsBehindAreStored, Passed
<1>3. ASSUME NEW r \in Run, Fetch(r) PROVE BarsBehindAreStored'
  <2>1. at' = at /\ bars' = bars /\ at[r] = 0
    BY <1>3 DEF Fetch, NothingBeforeFetching
  <2>2. \A q \in Run : q # r => feed'[q] = feed[q] /\ pc'[q] = pc[q]
    BY <1>3 DEF Fetch, TypeOK
  <2>3. \A b \in Bar : ~Passed(r, b)'
    BY <2>1 DEF Passed, Bar
  <2> QED
    BY <2>1, <2>2, <2>3 DEF BarsBehindAreStored, Passed
<1>4. ASSUME NEW r \in Run, NextBar(r) PROVE BarsBehindAreStored'
  <2>1. PICK b \in Rest(r) : /\ \A c \in Rest(r) : b <= c
                             /\ at' = [at EXCEPT ![r] = b]
    BY <1>4 DEF NextBar
  <2>2. pc' = [pc EXCEPT ![r] = "saving"] /\ pc[r] = "looping"
        /\ UNCHANGED <<bars, feed>>
    BY <1>4 DEF NextBar
  <2>3. b \in Bar /\ \A c \in Bar : feed[r][c] # NoBar /\ c < b => c <= at[r]
    BY <2>1 DEF Rest, Answered, TypeOK, Bar
  <2>4. \A q \in Run, c \in Bar :
          Passed(q, c)' /\ feed[q][c] # NoBar => Passed(q, c)
    BY <2>1, <2>2, <2>3 DEF Passed, TypeOK, Bar
  <2> QED
    BY <2>2, <2>4 DEF BarsBehindAreStored
<1>5. ASSUME NEW r \in Run, LeaveLoop(r) PROVE BarsBehindAreStored'
  BY <1>5, MovingOnPassesNothing DEF LeaveLoop, AtTheBar
<1>6. ASSUME NEW r \in Run, SaveRead(r) PROVE BarsBehindAreStored'
  <2>1. CASE pc'[r] = "deciding"
    <3>1. bars[at[r]] = feed[r][at[r]] /\ pc' = [pc EXCEPT ![r] = "deciding"]
          /\ UNCHANGED <<bars, feed, at>>
      BY <1>6, <2>1 DEF SaveRead, TypeOK
    <3>2. \A q \in Run, c \in Bar : Passed(q, c)' => Passed(q, c) \/ (q = r /\ c = at[r])
      BY <3>1 DEF Passed, TypeOK, Bar
    <3> QED
      BY <3>1, <3>2 DEF BarsBehindAreStored
  <2>2. CASE pc'[r] # "deciding"
    BY <1>6, <2>2, MovingOnPassesNothing DEF SaveRead, AtTheBar, TypeOK
  <2> QED
    BY <2>1, <2>2
<1>7. ASSUME NEW r \in Run, SaveInsert(r) PROVE BarsBehindAreStored'
  <2>1. CASE bars[at[r]] = NoBar
    <3>1. at[r] \in Bar /\ pc' = [pc EXCEPT ![r] = "deciding"] /\ UNCHANGED <<feed, at>>
      BY <1>7, <2>1, RunsAssumption DEF SaveInsert, CountersFollow, TypeOK, Bar
    <3>2. bars'[at[r]] = feed[r][at[r]]
      BY <1>7, <2>1, <3>1 DEF SaveInsert, TypeOK, Feed
    <3>3. \A b \in Bar : bars[b] # NoBar => bars'[b] = bars[b]
      BY <1>7, StoredBarsStay DEF Next, Thread
    <3>4. \A q \in Run, c \in Bar : Passed(q, c)' => Passed(q, c) \/ (q = r /\ c = at[r])
      BY <3>1 DEF Passed, TypeOK, Bar
    <3> QED
      BY <3>1, <3>2, <3>3, <3>4 DEF BarsBehindAreStored
  <2>2. CASE bars[at[r]] # NoBar
    BY <1>7, <2>2, MovingOnPassesNothing DEF SaveInsert, AtTheBar
  <2> QED
    BY <2>1, <2>2
<1>8. ASSUME NEW r \in Run, DecideOnBar(r) PROVE BarsBehindAreStored'
  BY <1>8, MovingOnPassesNothing DEF DecideOnBar, AtTheBar
<1>9. ASSUME NEW r \in Run, AppendRead(r) PROVE BarsBehindAreStored'
  BY <1>9, MovingOnPassesNothing DEF AppendRead, AtTheBar
<1>10. ASSUME NEW r \in Run, AppendInsert(r) PROVE BarsBehindAreStored'
  BY <1>10, MovingOnPassesNothing DEF AppendInsert, AtTheBar
<1>11. ASSUME NEW r \in Run, Count(r) PROVE BarsBehindAreStored'
  BY <1>11, MovingOnPassesNothing DEF Count, AtTheBar
<1>12. ASSUME NEW r \in Run, End(r) \/ Fail(r) PROVE BarsBehindAreStored'
  BY <1>12, MovingOnPassesNothing DEF End, Fail, AtTheBar
<1>13. ASSUME Restart PROVE BarsBehindAreStored'
  BY <1>13 DEF Restart, NoFeed, BarsBehindAreStored
<1> QED
  BY <1>1, <1>2, <1>3, <1>4, <1>5, <1>6, <1>7, <1>8, <1>9, <1>10, <1>11,
     <1>12, <1>13 DEF Next, Thread

\* An event whose window is stored keeps it stored.
LEMMA WindowStaysStored ==
  ASSUME TypeOK, CountersFollow, Next, NEW e, AnEvent(e), WindowStored(e)
  PROVE  WillBeStored(e)
<1>1. \A b \in DOMAIN e.window : b \in Bar /\ bars[b] # NoBar
  BY RunsAssumption DEF AnEvent, WindowStored
<1> QED
  BY <1>1, StoredBarsStay DEF WindowStored, WillBeStored

\* The event that a run makes at a bar comes from bars that are stored.
LEMMA DecidedEventIsStored ==
  ASSUME TypeOK, CountersFollow, BarsBehindAreStored,
         NEW r \in Run, DecideOnBar(r), event'[r] # event[r]
  PROVE  WindowStored(event'[r])
<1> DEFINE window == Window(feed[r], at[r])
<1>1. event'[r] = Event(IdOf(feed[r], at[r]), r, window)
  BY DEF TypeOK, DecideOnBar
<1>2. at[r] \in Bar /\ feed[r] \in Feed /\ pc[r] = "deciding"
  BY RunsAssumption DEF TypeOK, DecideOnBar, CountersFollow, Bar
<1>3. \A b \in DOMAIN window : bars[b] = window[b]
  BY <1>2, WindowIsPast DEF BarsBehindAreStored, Passed
<1> QED
  BY <1>1, <1>3 DEF WindowStored, Event

\* The event of a run is made of bars it has passed, which stay stored.
LEMMA EventsStep ==
  ASSUME TypeOK, CountersFollow, BarsBehindAreStored,
         EventsInHandComeFromStoredBars, SignalsComeFromStoredBars, Next
  PROVE  EventsInHandComeFromStoredBars' /\ SignalsComeFromStoredBars'
<1> DEFINE Known(e) == e # NoEvent => AnEvent(e) /\ WindowStored(e)
<1>1. \A r \in Run : Known(event[r])
  BY DEF TypeOK, EventsInHandComeFromStoredBars
<1>2. \A id \in SignalId : Known(signals[id])
  BY DEF TypeOK, SignalsComeFromStoredBars, WindowStored
<1>3. \A e : Known(e) /\ e # NoEvent => WillBeStored(e)
  BY WindowStaysStored
<1>4. ASSUME NEW r \in Run
      PROVE  event'[r] # NoEvent => WillBeStored(event'[r])
  <2>1. CASE event'[r] \in {event[r], NoEvent}
    BY <2>1, <1>1, <1>3
  <2>2. CASE event'[r] \notin {event[r], NoEvent}
    <3>1. DecideOnBar(r)
      BY <2>2 DEF TypeOK, Next, Thread, StartRun, StopRun, Begin, Fetch, NextBar,
         LeaveLoop, SaveRead, SaveInsert, DecideOnBar, AppendRead, AppendInsert,
         Count, End, Fail, Restart
    <3>2. WindowStored(event'[r]) /\ bars' = bars
      BY <2>2, <3>1, DecidedEventIsStored DEF DecideOnBar
    <3> QED
      BY <3>2 DEF WindowStored, WillBeStored
  <2> QED
    BY <2>1, <2>2
<1>5. ASSUME NEW id \in SignalId
      PROVE  signals'[id] # NoEvent => WillBeStored(signals'[id])
  <2>1. signals'[id] = signals[id] \/ \E r \in Run : signals'[id] = event[r]
    BY DEF TypeOK, Next, Thread, StartRun, StopRun, Begin, Fetch, NextBar,
       LeaveLoop, SaveRead, SaveInsert, DecideOnBar, AppendRead, AppendInsert,
       Count, End, Fail, Restart
  <2> QED
    BY <2>1, <1>1, <1>2, <1>3
<1> QED
  BY <1>4, <1>5 DEF EventsInHandComeFromStoredBars, SignalsComeFromStoredBars,
     WindowStored, WillBeStored

-----------------------------------------------------------------------------
(* The theorems *)

\* The conjuncts of RunsInv hold together in every state.
LEMMA RunsInvHolds == Spec => []RunsInv
<1>1. Init => RunsInv
  <2> SUFFICES ASSUME Init PROVE RunsInv
    OBVIOUS
  <2>1. TypeOK
    BY TypeInit
  <2>2. CountersFollow /\ NothingBeforeFetching /\ ThreadEndsTerminal
    BY DEF Init, CountersFollow, NothingBeforeFetching, ThreadEndsTerminal
  <2>3. BarsBehindAreStored
    BY DEF Init, BarsBehindAreStored, NoFeed
  <2>4. EventsInHandComeFromStoredBars /\ SignalsComeFromStoredBars
    BY DEF Init, EventsInHandComeFromStoredBars, SignalsComeFromStoredBars
  <2> QED
    BY <2>1, <2>2, <2>3, <2>4 DEF RunsInv
<1>2. RunsInv /\ [Next]_vars => RunsInv'
  <2> SUFFICES ASSUME RunsInv, [Next]_vars PROVE RunsInv'
    OBVIOUS
  <2>1. CASE Next
    <3>1. TypeOK' /\ CountersFollow'
      BY <2>1, TypeStep, CountersStep DEF RunsInv
    <3>2. BarsBehindAreStored'
      BY <2>1, BarsBehindStep DEF RunsInv
    <3>3. EventsInHandComeFromStoredBars' /\ SignalsComeFromStoredBars'
      BY <2>1, EventsStep DEF RunsInv
    <3>4. NothingBeforeFetching' /\ ThreadEndsTerminal'
      <4> USE DEF RunsInv, TypeOK, NothingBeforeFetching, ThreadEndsTerminal,
              Goto, SetStatus, Terminal
      <4>1. ASSUME NEW r \in Run, StartRun(r) \/ StopRun(r) \/ Begin(r) \/ Fetch(r)
            PROVE  NothingBeforeFetching' /\ ThreadEndsTerminal'
        BY <4>1 DEF StartRun, StopRun, Begin, Fetch
      <4>2. ASSUME NEW r \in Run, NextBar(r) \/ LeaveLoop(r) \/ SaveRead(r) \/ SaveInsert(r)
            PROVE  NothingBeforeFetching' /\ ThreadEndsTerminal'
        BY <4>2 DEF NextBar, LeaveLoop, SaveRead, SaveInsert
      <4>3. ASSUME NEW r \in Run, DecideOnBar(r) \/ AppendRead(r) \/ AppendInsert(r) \/ Count(r)
            PROVE  NothingBeforeFetching' /\ ThreadEndsTerminal'
        BY <4>3 DEF DecideOnBar, AppendRead, AppendInsert, Count
      <4>4. ASSUME NEW r \in Run, End(r) \/ Fail(r)
            PROVE  NothingBeforeFetching' /\ ThreadEndsTerminal'
        BY <4>4 DEF End, Fail, Outcome
      <4>5. ASSUME Restart
            PROVE  NothingBeforeFetching' /\ ThreadEndsTerminal'
        BY <4>5 DEF Restart
      <4> QED
        BY <2>1, <4>1, <4>2, <4>3, <4>4, <4>5 DEF Next, Thread
    <3> QED
      BY <3>1, <3>2, <3>3, <3>4 DEF RunsInv
  <2>2. CASE UNCHANGED vars
    BY <2>2 DEF vars, run, RunsInv, TypeOK, AnEvent, CountersFollow,
       BarsBehindAreStored, Passed, EventsInHandComeFromStoredBars, WindowStored,
       SignalsComeFromStoredBars, NothingBeforeFetching, ThreadEndsTerminal
  <2> QED
    BY <2>1, <2>2
<1> QED
  BY <1>1, <1>2, PTL DEF Spec

\* The stores, the run states and the threads are always of their types.
THEOREM TypeCorrect == Spec => []TypeOK
<1>1. RunsInv => TypeOK
  BY DEF RunsInv
<1> QED
  BY <1>1, RunsInvHolds, PTL

\* save_bar before append_signal, and no row ever replaced, are enough for every
\* stored signal to have been computed from the bars as they are stored, for any
\* number of runs racing, failing and being killed over a provider that revises.
THEOREM SignalsHaveTheirBars == Spec => []SignalsComeFromStoredBars
<1>1. RunsInv => SignalsComeFromStoredBars
  BY DEF RunsInv
<1> QED
  BY <1>1, RunsInvHolds, PTL

\* stop_run never changes the status of a run that has ended.
THEOREM EndedRunsStayEnded == Spec => EndedStaysEnded
<1> DEFINE Stays == \A r \in Run : pc[r] = "done" /\ life' = life => status'[r] = status[r]
<1>1. RunsInv /\ [Next]_vars => Stays
  <2> SUFFICES ASSUME RunsInv, [Next]_vars, NEW r \in Run, pc[r] = "done", life' = life
               PROVE  status'[r] = status[r]
    OBVIOUS
  <2>1. CASE Next
    <3> USE DEF Goto, SetStatus, RunsInv, TypeOK, ThreadEndsTerminal, Terminal
    <3>1. ASSUME NEW q \in Run, StartRun(q) \/ StopRun(q) \/ Thread(q)
          PROVE  status'[r] = status[r]
      BY <3>1 DEF StartRun, StopRun, Thread, Begin, Fetch, NextBar, LeaveLoop,
         SaveRead, SaveInsert, DecideOnBar, AppendRead, AppendInsert, Count, End,
         Fail
    <3>2. ~Restart
      BY DEF Restart
    <3> QED
      BY <2>1, <3>1, <3>2 DEF Next
  <2>2. CASE UNCHANGED vars
    BY <2>2 DEF vars, run
  <2> QED
    BY <2>1, <2>2
<1>2. Spec => [][Stays]_vars
  BY <1>1, RunsInvHolds, PTL DEF Spec
<1> QED
  BY <1>2 DEF EndedStaysEnded

\* A request to stop is never lost: not to a RUNNING that overwrites STOPPING,
\* nor to a loop that had no bar left.
THEOREM StopsAreNotLost == Spec => StopIsNotLost
<1> DEFINE Kept == \A r \in Run :
                     stop[r] /\ status[r] \notin Terminal => status'[r] # "COMPLETED"
<1>1. RunsInv /\ [Next]_vars => Kept
  <2> SUFFICES ASSUME RunsInv, [Next]_vars, NEW r \in Run,
                      stop[r], status[r] \notin Terminal
               PROVE  status'[r] # "COMPLETED"
    OBVIOUS
  <2>1. CASE Next
    <3> USE DEF Goto, SetStatus, RunsInv, TypeOK, Terminal
    <3>1. ASSUME NEW q \in Run, End(q)
          PROVE  status'[r] # "COMPLETED"
      BY <3>1 DEF End, Outcome
    <3>2. ASSUME NEW q \in Run, StartRun(q) \/ StopRun(q) \/ (Thread(q) /\ ~End(q))
          PROVE  status'[r] # "COMPLETED"
      BY <3>2 DEF StartRun, StopRun, Thread, Begin, Fetch, NextBar, LeaveLoop,
         SaveRead, SaveInsert, DecideOnBar, AppendRead, AppendInsert, Count, Fail
    <3>3. CASE Restart
      BY <3>3 DEF Restart
    <3> QED
      BY <2>1, <3>1, <3>2, <3>3 DEF Next
  <2>2. CASE UNCHANGED vars
    BY <2>2 DEF vars, run, Terminal
  <2> QED
    BY <2>1, <2>2
<1>2. Spec => [][Kept]_vars
  BY <1>1, RunsInvHolds, PTL DEF Spec
<1> QED
  BY <1>2 DEF StopIsNotLost

-----------------------------------------------------------------------------
(* What a run has done so far *)

\* The signals that run r has stored since the server started.
Mine(r) == {id \in SignalId : /\ signals[id] # NoEvent
                              /\ signals[id].run = r
                              /\ signals[id].life = life}

\* Has run r counted bar b as seen, and stored its signal, if there is one?
SeenBy(r, b) == IF pc[r] \in {"saving", "insertingBar", "deciding"}
                THEN b < at[r] ELSE b <= at[r]

HandledBy(r, b) ==
  IF pc[r] \in {"saving", "insertingBar", "deciding", "appending", "insertingSignal"}
  THEN b < at[r] ELSE b <= at[r]

SeenBars(r) == {b \in Answered(feed[r]) : SeenBy(r, b)}

\* The event about to be stored, and the one just stored, is that of the bar
\* the run is at.
EventIsOfTheBar(r) ==
  /\ pc[r] \in {"appending", "insertingSignal", "counting"} =>
       /\ at[r] \in Bar
       /\ HasCandidate(feed[r], at[r])
       /\ event[r] = Event(IdOf(feed[r], at[r]), r, Window(feed[r], at[r]))
  /\ pc[r] = "counting" => IdOf(feed[r], at[r]) \in Mine(r)

\* A run has stored no signal of a bar that it has still to handle.
MineAreBehind(r) == \A id \in Mine(r) : HandledBy(r, id[1])

MineAreCounted(r) ==
  /\ IsFiniteSet(Mine(r))
  /\ Cardinality(Mine(r)) = created[r] + (IF pc[r] = "counting" THEN 1 ELSE 0)

\* As long as it has not failed a run has seen the bars behind it, and stored
\* a signal for every one that calls for one.
BarsAreSeen(r) ==
  pc[r] \notin {"failing", "done"} => /\ IsFiniteSet(SeenBars(r))
                                      /\ seen[r] = Cardinality(SeenBars(r))

SignalsAreStored(r) ==
  pc[r] \notin {"failing", "done"} =>
    \A b \in Answered(feed[r]) :
      HandledBy(r, b) /\ HasCandidate(feed[r], b) => IdOf(feed[r], b) \in Mine(r)

\* The loop is left with bars to come only when the run was told to stop.
NothingLeftOut(r) ==
  /\ pc[r] = "ending" /\ ~stop[r] => Rest(r) = {}
  /\ status[r] = "COMPLETED" => pc[r] = "done"

CompletedIsComplete(r) ==
  status[r] = "COMPLETED" =>
    /\ seen[r] = Cardinality(Answered(feed[r]))
    /\ \A b \in Answered(feed[r]) :
         /\ bars[b] = feed[r][b]
         /\ HasCandidate(feed[r], b) => IdOf(feed[r], b) \in Mine(r)

WorkOf(r) == /\ EventIsOfTheBar(r)
             /\ MineAreBehind(r)
             /\ MineAreCounted(r)
             /\ BarsAreSeen(r)
             /\ SignalsAreStored(r)
             /\ NothingLeftOut(r)
             /\ CompletedIsComplete(r)

WorkInv == \A r \in Run : WorkOf(r)

\* Nothing that run r knows of itself changes.
Rests(r) == /\ pc'[r] = pc[r] /\ at'[r] = at[r] /\ feed'[r] = feed[r]
            /\ event'[r] = event[r] /\ seen'[r] = seen[r] /\ created'[r] = created[r]
            /\ status'[r] = status[r] /\ stop'[r] = stop[r]
            /\ life' = life

\* The stores are only added to.
StoresGrow == /\ \A b \in Bar : bars[b] # NoBar => bars'[b] = bars[b]
              /\ \A id \in SignalId : signals[id] # NoEvent => signals'[id] = signals[id]

\* Bars that were answered are bars with contents, and stay stored.
LEMMA StoredAnswersStay ==
  ASSUME TypeOK, StoresGrow, NEW r \in Run, NEW b \in Answered(feed[r]), bars[b] = feed[r][b]
  PROVE  bars'[b] = feed[r][b]
BY DEF TypeOK, Feed, Answered, StoresGrow

\* A run that rests keeps what it has done, whatever others add to the stores.
LEMMA RestingRunKeepsWork ==
  ASSUME TypeOK, NEW r \in Run, WorkOf(r), Rests(r), StoresGrow, Mine(r)' = Mine(r)
  PROVE  WorkOf(r)'
<1>1. \A b : SeenBy(r, b)' = SeenBy(r, b) /\ HandledBy(r, b)' = HandledBy(r, b)
  BY DEF Rests, SeenBy, HandledBy
<1>2. SeenBars(r)' = SeenBars(r) /\ Rest(r)' = Rest(r)
  BY <1>1 DEF SeenBars, Rest, Rests
<1>3. EventIsOfTheBar(r)'
  BY DEF WorkOf, EventIsOfTheBar, Rests, Event
<1>4. MineAreBehind(r)' /\ MineAreCounted(r)'
  BY <1>1 DEF WorkOf, MineAreBehind, MineAreCounted, Rests
<1>5. BarsAreSeen(r)' /\ SignalsAreStored(r)' /\ NothingLeftOut(r)'
  BY <1>1, <1>2 DEF WorkOf, BarsAreSeen, SignalsAreStored, NothingLeftOut, Rests
<1>6. CompletedIsComplete(r)'
  <2>1. \A b \in Answered(feed[r]) : bars[b] = feed[r][b] => bars'[b] = feed[r][b]
    BY StoredAnswersStay
  <2> QED
    BY <2>1 DEF WorkOf, CompletedIsComplete, Rests
<1> QED
  BY <1>3, <1>4, <1>5, <1>6 DEF WorkOf

\* A run that goes on at the same bar, to a label of the same kind or to its
\* failure, has done what it had done.
LEMMA GoingOnKeepsWork ==
  ASSUME TypeOK, NEW r \in Run, WorkOf(r), StoresGrow,
         UNCHANGED <<signals, seen, created, feed, at, event, life>>,
         status'[r] # "COMPLETED", pc[r] # "counting",
         pc'[r] \notin {"appending", "counting"},
         pc'[r] = "insertingSignal" => pc[r] = "appending",
         pc'[r] = "ending" /\ ~stop'[r] => Rest(r) = {},
         \/ pc'[r] \in {"failing", "done"}
         \/ /\ pc[r] \notin {"failing", "done"}
            /\ \A b \in Bar : /\ SeenBy(r, b)' = SeenBy(r, b)
                              /\ HandledBy(r, b)' = HandledBy(r, b)
  PROVE  WorkOf(r)'
<1>1. Mine(r)' = Mine(r) /\ Rest(r)' = Rest(r)
  BY DEF Mine, Rest
<1>2. pc'[r] \notin {"failing", "done"} => SeenBars(r)' = SeenBars(r)
  BY DEF SeenBars, Answered
<1>3. EventIsOfTheBar(r)'
  BY DEF WorkOf, EventIsOfTheBar, Event
<1>4. MineAreBehind(r)' /\ MineAreCounted(r)'
  <2>1. \A id \in Mine(r) : id[1] \in Bar /\ HandledBy(r, id[1])
    BY DEF WorkOf, MineAreBehind, Mine, SignalId
  <2>2. \A b \in Bar : HandledBy(r, b) => HandledBy(r, b)'
    BY DEF HandledBy, Bar, TypeOK
  <2> QED
    BY <1>1, <2>1, <2>2 DEF WorkOf, MineAreBehind, MineAreCounted
<1>5. BarsAreSeen(r)' /\ SignalsAreStored(r)' /\ NothingLeftOut(r)'
  BY <1>1, <1>2 DEF WorkOf, BarsAreSeen, SignalsAreStored, NothingLeftOut, Answered
<1>6. CompletedIsComplete(r)'
  BY DEF CompletedIsComplete
<1> QED
  BY <1>3, <1>4, <1>5, <1>6 DEF WorkOf

\* No row of a store is ever replaced.
LEMMA RowsStay ==
  ASSUME TypeOK, CountersFollow, Next
  PROVE  StoresGrow
<1>1. ASSUME NEW r \in Run, AppendInsert(r)
      PROVE  \A id \in SignalId : signals[id] # NoEvent => signals'[id] = signals[id]
  BY <1>1 DEF AppendInsert, TypeOK
<1>2. ASSUME ~\E r \in Run : AppendInsert(r)
      PROVE  signals' = signals
  BY <1>2 DEF Next, Thread, StartRun, StopRun, Begin, Fetch, NextBar, LeaveLoop,
     SaveRead, SaveInsert, DecideOnBar, AppendRead, Count, End, Fail, Restart
<1> QED
  BY <1>1, <1>2, StoredBarsStay DEF StoresGrow

\* Before it has fetched its bars a run has seen and handled nothing.
LEMMA FetchKeepsWork ==
  ASSUME TypeOK, TypeOK', NothingBeforeFetching, NEW r \in Run, WorkOf(r), Fetch(r), pc'[r] = "looping"
  PROVE  WorkOf(r)'
<1>1. /\ pc[r] = "fetching" /\ pc'[r] = "looping" /\ at[r] = 0
      /\ UNCHANGED <<bars, signals, status, stop, seen, created, at, event, life>>
  BY DEF Fetch, NothingBeforeFetching
<1>2. Mine(r)' = Mine(r)
  BY <1>1 DEF Mine
<1>3. \A b \in Bar : ~SeenBy(r, b) /\ ~SeenBy(r, b)' /\ ~HandledBy(r, b) /\ ~HandledBy(r, b)'
  BY <1>1 DEF SeenBy, HandledBy, Bar
<1>4. SeenBars(r) = {} /\ SeenBars(r)' = {}
  BY <1>3 DEF SeenBars, Answered
<1>5. BarsAreSeen(r)'
  BY <1>1, <1>4 DEF WorkOf, BarsAreSeen
<1>6. MineAreBehind(r)'
  <2>1. \A id \in SignalId : id[1] \in Bar
    BY DEF SignalId
  <2> QED
    BY <1>2, <1>3, <2>1 DEF WorkOf, MineAreBehind, Mine
<1>7. SignalsAreStored(r)'
  BY <1>3 DEF SignalsAreStored, Answered
<1>8. EventIsOfTheBar(r)' /\ MineAreCounted(r)' /\ NothingLeftOut(r)' /\ CompletedIsComplete(r)'
  BY <1>1, <1>2 DEF WorkOf, EventIsOfTheBar, MineAreCounted, NothingLeftOut, CompletedIsComplete
<1> QED
  BY <1>5, <1>6, <1>7, <1>8 DEF WorkOf

\* The next bar is the first after the one the run was at: none between them
\* was answered.
LEMMA NextBarKeepsWork ==
  ASSUME TypeOK, TypeOK', NEW r \in Run, WorkOf(r), NextBar(r)
  PROVE  WorkOf(r)'
<1>1. /\ pc[r] = "looping" /\ pc'[r] = "saving"
      /\ UNCHANGED <<bars, signals, status, stop, seen, created, feed, event, life>>
  BY DEF NextBar, Goto, TypeOK
<1>2. PICK n \in Rest(r) : at'[r] = n /\ \A c \in Rest(r) : n <= c
  BY DEF NextBar, TypeOK
<1>3. n \in Bar /\ at[r] \in Nat /\ at[r] < n
  BY <1>2 DEF Rest, Answered, TypeOK
<1>4. Mine(r)' = Mine(r)
  BY <1>1 DEF Mine
<1>5. \A b \in Bar : HandledBy(r, b) => HandledBy(r, b)'
  BY <1>1, <1>2, <1>3 DEF HandledBy, Bar
<1>6. \A b \in Answered(feed[r]) : /\ SeenBy(r, b)' <=> SeenBy(r, b)
                                   /\ HandledBy(r, b)' <=> HandledBy(r, b)
  <2>1. \A b \in Answered(feed[r]) : b < n <=> b <= at[r]
    BY <1>2, <1>3 DEF Rest, Answered, Bar
  <2> QED
    BY <1>1, <1>2, <2>1 DEF SeenBy, HandledBy
<1>7. SeenBars(r)' = SeenBars(r)
  BY <1>1, <1>6 DEF SeenBars
<1>8. MineAreBehind(r)'
  <2>1. \A id \in SignalId : id[1] \in Bar
    BY DEF SignalId
  <2> QED
    BY <1>4, <1>5, <2>1 DEF WorkOf, MineAreBehind, Mine
<1>9. BarsAreSeen(r)' /\ SignalsAreStored(r)'
  BY <1>1, <1>4, <1>6, <1>7 DEF WorkOf, BarsAreSeen, SignalsAreStored
<1>10. EventIsOfTheBar(r)' /\ MineAreCounted(r)' /\ NothingLeftOut(r)' /\ CompletedIsComplete(r)'
  BY <1>1, <1>4 DEF WorkOf, EventIsOfTheBar, MineAreCounted, NothingLeftOut, CompletedIsComplete
<1> QED
  BY <1>8, <1>9, <1>10 DEF WorkOf

\* A bar is counted once, and its event is that of its window.
LEMMA DecideKeepsWork ==
  ASSUME TypeOK, TypeOK', CountersFollow, NEW r \in Run, WorkOf(r), DecideOnBar(r)
  PROVE  WorkOf(r)'
<1>1. /\ pc[r] = "deciding" /\ seen'[r] = seen[r] + 1
      /\ UNCHANGED <<bars, signals, status, stop, created, feed, at, life>>
      /\ at[r] \in Bar /\ feed[r][at[r]] \in Content
  BY RunsAssumption DEF DecideOnBar, TypeOK, CountersFollow, Bar
<1>2. Mine(r)' = Mine(r)
  BY <1>1 DEF Mine
<1>3. \/ /\ HasCandidate(feed[r], at[r]) /\ pc'[r] = "appending"
         /\ event'[r] = Event(IdOf(feed[r], at[r]), r, Window(feed[r], at[r]))
      \/ ~HasCandidate(feed[r], at[r]) /\ pc'[r] = "looping"
  BY DEF DecideOnBar, Goto, TypeOK
<1>4. /\ at[r] \in Answered(feed[r]) /\ ~SeenBy(r, at[r])
      /\ \A b \in Bar : SeenBy(r, b)' <=> SeenBy(r, b) \/ b = at[r]
  BY <1>1, <1>3, RunsAssumption DEF SeenBy, Answered, Bar
<1>5. SeenBars(r)' = SeenBars(r) \cup {at[r]} /\ at[r] \notin SeenBars(r)
  BY <1>1, <1>4 DEF SeenBars, Answered
<1>6. BarsAreSeen(r)'
  <2>1. IsFiniteSet(SeenBars(r)) /\ seen[r] = Cardinality(SeenBars(r))
    BY <1>1 DEF WorkOf, BarsAreSeen
  <2>2. /\ IsFiniteSet(SeenBars(r) \cup {at[r]})
        /\ Cardinality(SeenBars(r) \cup {at[r]}) = Cardinality(SeenBars(r)) + 1
    BY <1>5, <2>1, FS_AddElement
  <2> HIDE DEF SeenBars
  <2> QED
    BY <1>1, <1>5, <2>1, <2>2 DEF BarsAreSeen
<1>7. \A b \in Bar : /\ HandledBy(r, b) => HandledBy(r, b)'
                     /\ HandledBy(r, b)' => HandledBy(r, b) \/ (b = at[r] /\ pc'[r] = "looping")
  BY <1>1, <1>3 DEF HandledBy, Bar
<1>8. MineAreBehind(r)'
  <2>1. \A id \in SignalId : id[1] \in Bar
    BY DEF SignalId
  <2> QED
    BY <1>2, <1>7, <2>1 DEF WorkOf, MineAreBehind, Mine
<1>9. SignalsAreStored(r)'
  BY <1>1, <1>2, <1>3, <1>7 DEF WorkOf, SignalsAreStored, Answered
<1>10. EventIsOfTheBar(r)'
  BY <1>1, <1>3 DEF EventIsOfTheBar, Event
<1>11. MineAreCounted(r)' /\ NothingLeftOut(r)' /\ CompletedIsComplete(r)'
  BY <1>1, <1>2, <1>3 DEF WorkOf, MineAreCounted, NothingLeftOut, CompletedIsComplete
<1> QED
  BY <1>6, <1>8, <1>9, <1>10, <1>11 DEF WorkOf

\* What a run is about to store is an event.
LEMMA EventInHand ==
  ASSUME TypeOK, NEW r \in Run, WorkOf(r), pc[r] \in {"appending", "insertingSignal"}
  PROVE  /\ at[r] \in Bar /\ IdOf(feed[r], at[r]) \in SignalId
         /\ IdOf(feed[r], at[r]) \notin Mine(r)
         /\ event[r] = Event(IdOf(feed[r], at[r]), r, Window(feed[r], at[r]))
         /\ event[r].id = IdOf(feed[r], at[r]) /\ event[r].run = r /\ event[r].life = life
         /\ event[r] # NoEvent
<1>1. /\ at[r] \in Bar /\ feed[r] \in Feed
      /\ HasCandidate(feed[r], at[r])
      /\ event[r] = Event(IdOf(feed[r], at[r]), r, Window(feed[r], at[r]))
  BY DEF WorkOf, EventIsOfTheBar, TypeOK
<1>2. IdOf(feed[r], at[r]) \in SignalId /\ IdOf(feed[r], at[r])[1] = at[r]
  BY <1>1 DEF IdOf, SignalId, HasCandidate
<1>3. ~HandledBy(r, at[r])
  BY <1>1 DEF HandledBy, Bar
<1>4. IdOf(feed[r], at[r]) \notin Mine(r)
  BY <1>2, <1>3 DEF WorkOf, MineAreBehind
<1>5. Window(feed[r], at[r]) \in UNION {[S -> Content] : S \in SUBSET Bar}
  <2> DEFINE w == Window(feed[r], at[r])
  <2>1. DOMAIN w \in SUBSET Bar /\ \A c \in DOMAIN w : w[c] \in Content
    BY <1>1, WindowIsPast
  <2>2. w = [c \in DOMAIN w |-> w[c]]
    BY DEF Window
  <2> HIDE DEF w
  <2>3. w \in [DOMAIN w -> Content]
    BY <2>1, <2>2
  <2>4. [DOMAIN w -> Content] \in {[S -> Content] : S \in SUBSET Bar}
    BY <2>1
  <2>5. w \in UNION {[S -> Content] : S \in SUBSET Bar}
    BY <2>3, <2>4, Zenon
  <2> QED
    BY <2>5 DEF w
<1>6. event[r] \in SignalEvent
  BY <1>1, <1>2, <1>5 DEF SignalEvent, Event, TypeOK
<1> QED
  BY <1>1, <1>2, <1>4, <1>6, EventAssumption DEF Event

\* A row that was free holds the signal of the run afterwards.
LEMMA InsertKeepsWork ==
  ASSUME TypeOK, TypeOK', NEW r \in Run, WorkOf(r), AppendInsert(r), pc'[r] = "counting"
  PROVE  WorkOf(r)'
<1> DEFINE id == IdOf(feed[r], at[r])
<1>1. /\ pc[r] = "insertingSignal"
      /\ UNCHANGED <<bars, status, stop, seen, created, feed, at, event, life>>
  BY DEF AppendInsert
<1>2. id \in SignalId /\ id \notin Mine(r) /\ event[r] # NoEvent
      /\ event[r].id = id /\ event[r].run = r /\ event[r].life = life /\ id[1] = at[r] /\ at[r] \in Bar
  BY <1>1, EventInHand DEF IdOf
<1>3. signals' = [signals EXCEPT ![event[r].id] = event[r]]
  BY <1>1 DEF AppendInsert, Goto, TypeOK
<1>4. signals'[id] = event[r] /\ \A i \in SignalId \ {id} : signals'[i] = signals[i]
  BY <1>2, <1>3 DEF TypeOK
<1> HIDE DEF id
<1>5. Mine(r)' = Mine(r) \cup {id}
  BY <1>1, <1>2, <1>4 DEF Mine
<1>6. MineAreCounted(r)'
  BY <1>1, <1>2, <1>5, FS_AddElement DEF WorkOf, MineAreCounted, TypeOK
<1>7. \A b \in Bar : /\ SeenBy(r, b)' <=> SeenBy(r, b)
                     /\ HandledBy(r, b)' <=> HandledBy(r, b) \/ b = at[r]
  BY <1>1, <1>2 DEF SeenBy, HandledBy, Bar
<1>8. SeenBars(r)' = SeenBars(r)
  BY <1>1, <1>7 DEF SeenBars, Answered
<1>9. MineAreBehind(r)'
  <2>1. \A i \in SignalId : i[1] \in Bar
    BY DEF SignalId
  <2> QED
    BY <1>2, <1>5, <1>7, <2>1 DEF WorkOf, MineAreBehind, Mine
<1>10. BarsAreSeen(r)' /\ SignalsAreStored(r)'
  BY <1>1, <1>5, <1>7, <1>8 DEF WorkOf, BarsAreSeen, SignalsAreStored, Answered, id
<1>11. EventIsOfTheBar(r)'
  BY <1>1, <1>5 DEF WorkOf, EventIsOfTheBar, Event, id
<1>12. NothingLeftOut(r)' /\ CompletedIsComplete(r)'
  BY <1>1 DEF WorkOf, NothingLeftOut, CompletedIsComplete
<1> QED
  BY <1>6, <1>9, <1>10, <1>11, <1>12 DEF WorkOf

\* The signal that was stored is counted.
LEMMA CountKeepsWork ==
  ASSUME TypeOK, TypeOK', NEW r \in Run, WorkOf(r), Count(r)
  PROVE  WorkOf(r)'
<1>1. /\ pc[r] = "counting" /\ pc'[r] = "looping" /\ created'[r] = created[r] + 1
      /\ UNCHANGED <<bars, signals, status, stop, seen, feed, at, life>>
  BY DEF Count, Goto, TypeOK
<1>2. Mine(r)' = Mine(r)
  BY <1>1 DEF Mine
<1>3. \A b \in Bar : SeenBy(r, b)' = SeenBy(r, b) /\ HandledBy(r, b)' = HandledBy(r, b)
  BY <1>1 DEF SeenBy, HandledBy
<1>4. SeenBars(r)' = SeenBars(r)
  BY <1>1, <1>3 DEF SeenBars, Answered
<1>5. MineAreBehind(r)'
  <2>1. \A i \in SignalId : i[1] \in Bar
    BY DEF SignalId
  <2> QED
    BY <1>2, <1>3, <2>1 DEF WorkOf, MineAreBehind, Mine
<1>6. MineAreCounted(r)'
  BY <1>1, <1>2 DEF WorkOf, MineAreCounted, TypeOK
<1>7. BarsAreSeen(r)' /\ SignalsAreStored(r)'
  BY <1>1, <1>2, <1>3, <1>4 DEF WorkOf, BarsAreSeen, SignalsAreStored, Answered
<1>8. EventIsOfTheBar(r)' /\ NothingLeftOut(r)' /\ CompletedIsComplete(r)'
  BY <1>1 DEF WorkOf, EventIsOfTheBar, NothingLeftOut, CompletedIsComplete
<1> QED
  BY <1>5, <1>6, <1>7, <1>8 DEF WorkOf

\* A run ends as COMPLETED only after its last bar.
LEMMA EndKeepsWork ==
  ASSUME TypeOK, TypeOK', BarsBehindAreStored, NEW r \in Run, WorkOf(r), End(r)
  PROVE  WorkOf(r)'
<1>1. /\ pc[r] = "ending" /\ pc'[r] = "done" /\ status'[r] = Outcome(r)
      /\ UNCHANGED <<bars, signals, stop, seen, created, feed, at, event, life>>
  BY DEF End, Goto, SetStatus, TypeOK
<1>2. Mine(r)' = Mine(r)
  BY <1>1 DEF Mine
<1>3. \A b \in Bar : HandledBy(r, b)' = HandledBy(r, b)
  BY <1>1 DEF HandledBy
<1>4. MineAreBehind(r)' /\ MineAreCounted(r)'
  <2>1. \A i \in SignalId : i[1] \in Bar
    BY DEF SignalId
  <2> QED
    BY <1>1, <1>2, <1>3, <2>1 DEF WorkOf, MineAreBehind, MineAreCounted, Mine
<1>5. ASSUME status'[r] = "COMPLETED"
      PROVE  \A b \in Answered(feed[r]) : b <= at[r] /\ b \in Bar
  <2>1. ~stop[r]
    BY <1>1, <1>5 DEF Outcome
  <2>2. Rest(r) = {}
    BY <1>1, <2>1 DEF WorkOf, NothingLeftOut
  <2> QED
    BY <2>2 DEF Rest, Answered, TypeOK, Bar
<1>6. CompletedIsComplete(r)'
  <2> SUFFICES ASSUME status'[r] = "COMPLETED"
               PROVE  /\ seen[r] = Cardinality(Answered(feed[r]))
                      /\ \A b \in Answered(feed[r]) :
                           /\ bars[b] = feed[r][b]
                           /\ HasCandidate(feed[r], b) => IdOf(feed[r], b) \in Mine(r)
    BY <1>1, <1>2 DEF CompletedIsComplete
  <2>1. \A b \in Answered(feed[r]) : SeenBy(r, b) /\ HandledBy(r, b) /\ Passed(r, b)
    BY <1>1, <1>5 DEF SeenBy, HandledBy, Passed
  <2>2. SeenBars(r) = Answered(feed[r])
    BY <2>1 DEF SeenBars
  <2> QED
    BY <1>1, <2>1, <2>2 DEF WorkOf, BarsAreSeen, SignalsAreStored, BarsBehindAreStored, Answered
<1>7. EventIsOfTheBar(r)' /\ BarsAreSeen(r)' /\ SignalsAreStored(r)' /\ NothingLeftOut(r)'
  BY <1>1 DEF EventIsOfTheBar, BarsAreSeen, SignalsAreStored, NothingLeftOut
<1> QED
  BY <1>4, <1>6, <1>7 DEF WorkOf

\* A request to stop changes nothing that a run has done.
LEMMA StopKeepsWork ==
  ASSUME TypeOK, NEW r \in Run, WorkOf(r), StopRun(r)
  PROVE  WorkOf(r)'
<1>1. /\ UNCHANGED <<bars, signals, seen, created, pc, feed, at, event, life>>
      /\ stop'[r] = TRUE /\ (status'[r] = "COMPLETED" => status[r] = "COMPLETED")
  BY DEF StopRun, SetStatus, TypeOK
<1>2. Mine(r)' = Mine(r) /\ SeenBars(r)' = SeenBars(r)
  BY <1>1 DEF Mine, SeenBars, SeenBy
<1>3. \A b : HandledBy(r, b)' = HandledBy(r, b)
  BY <1>1 DEF HandledBy
<1>4. EventIsOfTheBar(r)' /\ MineAreBehind(r)' /\ MineAreCounted(r)'
  BY <1>1, <1>2, <1>3 DEF WorkOf, EventIsOfTheBar, MineAreBehind, MineAreCounted, Event
<1>5. BarsAreSeen(r)' /\ SignalsAreStored(r)' /\ NothingLeftOut(r)' /\ CompletedIsComplete(r)'
  BY <1>1, <1>2, <1>3 DEF WorkOf, BarsAreSeen, SignalsAreStored, NothingLeftOut, CompletedIsComplete
<1> QED
  BY <1>4, <1>5 DEF WorkOf

\* A step of one run leaves what the others know of themselves.
LEMMA OthersRest ==
  ASSUME TypeOK, NEW r \in Run, NEW q \in Run, q # r, WorkOf(r),
         StartRun(r) \/ StopRun(r) \/ Thread(r)
  PROVE  Rests(q) /\ Mine(q)' = Mine(q)
<1> USE DEF Goto, SetStatus, TypeOK
<1>1. CASE StartRun(r) \/ StopRun(r) \/ Begin(r) \/ Fetch(r) \/ NextBar(r) \/ LeaveLoop(r)
  BY <1>1 DEF StartRun, StopRun, Begin, Fetch, NextBar, LeaveLoop, Rests, Mine
<1>2. CASE SaveRead(r) \/ SaveInsert(r) \/ DecideOnBar(r) \/ AppendRead(r) \/ Count(r)
  BY <1>2 DEF SaveRead, SaveInsert, DecideOnBar, AppendRead, Count, Rests, Mine
<1>3. CASE End(r) \/ Fail(r)
  BY <1>3 DEF End, Fail, Rests, Mine
<1>4. CASE AppendInsert(r)
  <2>1. event[r].id \in SignalId /\ event[r].run = r
    BY <1>4, EventInHand DEF AppendInsert
  <2>2. \A id \in SignalId : \/ signals'[id] = signals[id]
                             \/ signals[id] = NoEvent /\ signals'[id] = event[r]
    BY <1>4, <2>1 DEF AppendInsert
  <2>3. Mine(q)' = Mine(q)
    BY <1>4, <2>1, <2>2 DEF AppendInsert, Mine
  <2> QED
    BY <1>4, <2>3 DEF AppendInsert, Rests
<1> QED
  BY <1>1, <1>2, <1>3, <1>4 DEF Thread

\* A step of a run keeps what that run has done.
LEMMA OwnStepKeepsWork ==
  ASSUME TypeOK, TypeOK', CountersFollow, BarsBehindAreStored, NothingBeforeFetching,
         StoresGrow, NEW r \in Run, WorkOf(r), StartRun(r) \/ StopRun(r) \/ Thread(r)
  PROVE  WorkOf(r)'
<1> USE DEF Goto, SetStatus
<1>0. pc[r] # "done" => status[r] # "COMPLETED"
  BY DEF WorkOf, NothingLeftOut
<1>1. CASE StartRun(r) \/ Begin(r)
  BY <1>1, GoingOnKeepsWork DEF StartRun, Begin, TypeOK, SeenBy, HandledBy
<1>2. CASE Fetch(r)
  <2>1. CASE pc'[r] = "looping"
    BY <1>2, <2>1, FetchKeepsWork
  <2>2. CASE pc'[r] # "looping"
    BY <1>0, <1>2, <2>2, GoingOnKeepsWork DEF Fetch, TypeOK
  <2> QED
    BY <2>1, <2>2
<1>3. CASE LeaveLoop(r)
  BY <1>0, <1>3, GoingOnKeepsWork DEF LeaveLoop, TypeOK, SeenBy, HandledBy
<1>4. CASE SaveRead(r) \/ SaveInsert(r)
  BY <1>0, <1>4, GoingOnKeepsWork DEF SaveRead, SaveInsert, TypeOK, SeenBy, HandledBy
<1>5. CASE AppendRead(r)
  <2>1. pc[r] = "appending" /\ event[r].id \in SignalId
        /\ ~(signals[event[r].id] = event[r])
    BY <1>5, EventInHand DEF AppendRead, Mine
  <2> QED
    BY <1>0, <1>5, <2>1, GoingOnKeepsWork DEF AppendRead, TypeOK, SeenBy, HandledBy
<1>6. CASE AppendInsert(r)
  <2>1. CASE pc'[r] = "counting"
    BY <1>6, <2>1, InsertKeepsWork
  <2>2. CASE pc'[r] # "counting"
    BY <1>0, <1>6, <2>2, GoingOnKeepsWork DEF AppendInsert, TypeOK
  <2> QED
    BY <2>1, <2>2
<1>7. CASE Fail(r)
  BY <1>7, GoingOnKeepsWork DEF Fail, TypeOK
<1> QED
  BY <1>1, <1>2, <1>3, <1>4, <1>5, <1>6, <1>7, StopKeepsWork, NextBarKeepsWork,
     DecideKeepsWork, CountKeepsWork, EndKeepsWork DEF Thread

\* A server that starts has no runs, and none of the signals that are stored is
\* of one of its runs.
LEMMA RestartKeepsWork ==
  ASSUME TypeOK, Restart, NEW r \in Run
  PROVE  WorkOf(r)'
<1>1. /\ pc'[r] = "none" /\ at'[r] = 0 /\ seen'[r] = 0 /\ created'[r] = 0
      /\ status'[r] = "NONE" /\ feed'[r] = NoFeed /\ life' = life + 1 /\ signals' = signals
  BY DEF Restart
<1>2. Mine(r)' = {}
  <2>1. \A id \in SignalId : signals[id] # NoEvent => signals[id].life \in 0..life
    BY DEF TypeOK, AnEvent
  <2>2. life \in Nat
    BY DEF TypeOK
  <2> QED
    BY <1>1, <2>1, <2>2 DEF Mine
<1>3. Answered(feed[r])' = {} /\ SeenBars(r)' = {}
  BY <1>1 DEF Answered, NoFeed, SeenBars
<1> QED
  BY <1>1, <1>2, <1>3, FS_EmptySet DEF WorkOf, EventIsOfTheBar, MineAreBehind, MineAreCounted,
     BarsAreSeen, SignalsAreStored, NothingLeftOut, CompletedIsComplete

\* All runs, at every step.
LEMMA WorkHolds == Spec => []WorkInv
<1>1. ASSUME Init PROVE WorkInv
  <2> SUFFICES ASSUME NEW r \in Run PROVE WorkOf(r)
    BY DEF WorkInv
  <2>1. /\ pc[r] = "none" /\ seen[r] = 0 /\ created[r] = 0 /\ status[r] = "NONE"
        /\ feed[r] = NoFeed /\ Mine(r) = {}
    BY <1>1 DEF Init, Mine
  <2>2. Answered(feed[r]) = {} /\ SeenBars(r) = {}
    BY <2>1 DEF Answered, NoFeed, SeenBars
  <2> QED
    BY <2>1, <2>2, FS_EmptySet DEF WorkOf, EventIsOfTheBar, MineAreBehind, MineAreCounted,
       BarsAreSeen, SignalsAreStored, NothingLeftOut, CompletedIsComplete
<1>2. ASSUME RunsInv, RunsInv', WorkInv, [Next]_vars
      PROVE  WorkInv'
  <2>1. CASE UNCHANGED vars
    <3> SUFFICES ASSUME NEW r \in Run PROVE WorkOf(r)'
      BY DEF WorkInv
    <3>1. Rests(r) /\ StoresGrow /\ Mine(r)' = Mine(r)
      BY <2>1 DEF vars, run, Rests, StoresGrow, Mine
    <3> QED
      BY <1>2, <3>1, RestingRunKeepsWork DEF RunsInv, WorkInv
  <2>2. CASE Restart
    BY <1>2, <2>2, RestartKeepsWork DEF RunsInv, WorkInv
  <2>3. ASSUME NEW r \in Run, StartRun(r) \/ StopRun(r) \/ Thread(r), NEW q \in Run
        PROVE  WorkOf(q)'
    <3>1. Next
      BY <2>3 DEF Next
    <3>2. StoresGrow
      BY <1>2, <3>1, RowsStay DEF RunsInv
    <3>3. CASE q = r
      BY <1>2, <2>3, <3>2, <3>3, OwnStepKeepsWork DEF RunsInv, WorkInv
    <3>4. CASE q # r
      BY <1>2, <2>3, <3>2, <3>4, OthersRest, RestingRunKeepsWork DEF RunsInv, WorkInv
    <3> QED
      BY <3>3, <3>4
  <2> QED
    BY <1>2, <2>1, <2>2, <2>3 DEF Next, WorkInv
<1> QED
  BY <1>1, <1>2, RunsInvHolds, PTL DEF Spec

\* Whatever runs race, fail, are told to stop or are killed: one that says
\* COMPLETED has seen every bar it was given, all are stored as it was given
\* them, and every signal they call for is stored under its own name.
THEOREM CompletedRunsAreComplete == Spec => []CompletedMeansComplete
<1>1. WorkInv => CompletedMeansComplete
  BY DEF WorkInv, WorkOf, CompletedIsComplete, CompletedMeansComplete, Mine
<1> QED
  BY <1>1, WorkHolds, PTL

\* signals_created of a run is the number of the signals stored under its name,
\* but for the one it is about to count.
THEOREM CountersAreRight == Spec => []StoredSignalsAreCounted
<1>1. WorkInv => StoredSignalsAreCounted
  BY DEF WorkInv, WorkOf, MineAreCounted, StoredSignalsAreCounted, Mine
<1> QED
  BY <1>1, WorkHolds, PTL

-----------------------------------------------------------------------------
(* The contract: what the steps keep besides *)

\* What the thread of run r can tell from where it is.
ThreadKnows(r) ==
  /\ status[r] = "NONE" <=> pc[r] = "none"
  /\ pc[r] \in {"none", "starting", "fetching"} => feed[r] = NoFeed
  /\ status[r] = "STOPPED" => stop[r]
  /\ pc[r] \in {"appending", "insertingSignal"} => feed[r][at[r]] # NoBar

\* The signals that run r has stored are those of its own bars.
MineAreOfTheFeed(r) ==
  \A id \in Mine(r) : signals[id] = Event(id, r, Window(feed[r], id[1]))

SignalsKeepTheirIds == \A id \in SignalId : signals[id] # NoEvent => signals[id].id = id

ReadersInv == /\ \A r \in Run : ThreadKnows(r) /\ MineAreOfTheFeed(r)
              /\ SignalsKeepTheirIds

\* The threads know where they are after every step.
LEMMA ThreadsKnow ==
  ASSUME RunsInv, \A r \in Run : ThreadKnows(r), Next, NEW q \in Run
  PROVE  ThreadKnows(q)'
<1> USE DEF RunsInv, TypeOK, ThreadKnows, Goto, SetStatus, Terminal
<1>1. ASSUME NEW r \in Run, StartRun(r) \/ StopRun(r) \/ Begin(r) \/ Fetch(r)
      PROVE  ThreadKnows(q)'
  BY <1>1 DEF StartRun, StopRun, Begin, Fetch
<1>2. ASSUME NEW r \in Run, NextBar(r) \/ LeaveLoop(r) \/ SaveRead(r) \/ SaveInsert(r)
      PROVE  ThreadKnows(q)'
  BY <1>2 DEF NextBar, LeaveLoop, SaveRead, SaveInsert
<1>3. ASSUME NEW r \in Run, DecideOnBar(r) PROVE ThreadKnows(q)'
  BY <1>3, RunsAssumption DEF DecideOnBar, CountersFollow
<1>4. ASSUME NEW r \in Run, AppendRead(r) \/ AppendInsert(r) \/ Count(r)
      PROVE  ThreadKnows(q)'
  BY <1>4 DEF AppendRead, AppendInsert, Count
<1>5. ASSUME NEW r \in Run, End(r) \/ Fail(r) PROVE ThreadKnows(q)'
  BY <1>5 DEF End, Fail, Outcome, ThreadEndsTerminal
<1>6. ASSUME Restart PROVE ThreadKnows(q)'
  BY <1>6 DEF Restart
<1> QED
  BY <1>1, <1>2, <1>3, <1>4, <1>5, <1>6 DEF Next, Thread

\* A run stores the event in its hand, in a row that was free.
LEMMA InsertedSignal ==
  ASSUME TypeOK, NEW r \in Run, WorkOf(r), AppendInsert(r), signals' # signals
  PROVE  /\ IdOf(feed[r], at[r]) \in SignalId
         /\ signals[IdOf(feed[r], at[r])] = NoEvent
         /\ signals'[IdOf(feed[r], at[r])]
              = Event(IdOf(feed[r], at[r]), r, Window(feed[r], at[r]))
         /\ \A i \in SignalId \ {IdOf(feed[r], at[r])} : signals'[i] = signals[i]
<1>1. pc[r] = "insertingSignal"
  BY DEF AppendInsert
<1>2. /\ IdOf(feed[r], at[r]) \in SignalId /\ event[r].id = IdOf(feed[r], at[r])
      /\ event[r] = Event(IdOf(feed[r], at[r]), r, Window(feed[r], at[r]))
  BY <1>1, EventInHand
<1>3. signals[event[r].id] = NoEvent /\ signals' = [signals EXCEPT ![event[r].id] = event[r]]
  BY DEF AppendInsert
<1>4. DOMAIN signals = SignalId
  BY DEF TypeOK
<1> QED
  BY <1>2, <1>3, <1>4

\* The stored signals keep their ids, and a run's are of its bars, after every
\* step: a run that fetches its bars has stored none.
LEMMA ReadersStep ==
  ASSUME RunsInv, WorkInv, ReadersInv, Next
  PROVE  ReadersInv'
<1>1. \A q \in Run : ThreadKnows(q)'
  BY ThreadsKnow DEF ReadersInv
<1>2. CASE signals' = signals
  <2>1. SignalsKeepTheirIds'
    BY <1>2 DEF ReadersInv, SignalsKeepTheirIds
  <2>2. ASSUME NEW q \in Run PROVE MineAreOfTheFeed(q)'
    <3>1. CASE Restart
      <4>1. life' = life + 1 /\ life \in Nat
        BY <3>1 DEF Restart, RunsInv, TypeOK
      <4>2. \A id \in SignalId : signals[id] # NoEvent => signals[id].life \in 0..life
        BY DEF RunsInv, TypeOK, AnEvent
      <4>3. Mine(q)' = {}
        BY <1>2, <4>1, <4>2 DEF Mine
      <4> QED
        BY <4>3 DEF MineAreOfTheFeed
    <3>2. CASE Fetch(q) /\ feed'[q] # feed[q]
      <4>1. at[q] = 0 /\ pc[q] = "fetching" /\ life' = life
        BY <3>2 DEF Fetch, RunsInv, NothingBeforeFetching
      <4>2. \A id \in Mine(q) : HandledBy(q, id[1]) /\ id[1] \in Bar
        BY DEF WorkInv, WorkOf, MineAreBehind, Mine, SignalId
      <4>3. \A b \in Bar : ~HandledBy(q, b)
        BY <4>1 DEF HandledBy, Bar
      <4>4. Mine(q)' = Mine(q)
        BY <1>2, <4>1 DEF Mine
      <4> QED
        BY <4>2, <4>3, <4>4 DEF MineAreOfTheFeed
    <3>3. CASE ~Restart /\ ~(Fetch(q) /\ feed'[q] # feed[q])
      <4>1. life' = life /\ feed'[q] = feed[q]
        BY <3>3 DEF Next, Thread, StartRun, StopRun, Begin, Fetch, NextBar, LeaveLoop,
           SaveRead, SaveInsert, DecideOnBar, AppendRead, AppendInsert, Count, End, Fail,
           RunsInv, TypeOK
      <4>2. Mine(q)' = Mine(q)
        BY <1>2, <4>1 DEF Mine
      <4> QED
        BY <1>2, <4>1, <4>2 DEF ReadersInv, MineAreOfTheFeed, Event
    <3> QED
      BY <3>1, <3>2, <3>3
  <2> QED
    BY <1>1, <2>1, <2>2 DEF ReadersInv
<1>3. CASE signals' # signals
  <2>1. PICK r \in Run : AppendInsert(r)
    BY <1>3 DEF Next, Thread, StartRun, StopRun, Begin, Fetch, NextBar, LeaveLoop,
       SaveRead, SaveInsert, DecideOnBar, AppendRead, Count, End, Fail, Restart
  <2>2. UNCHANGED <<feed, life, at>>
    BY <2>1 DEF AppendInsert
  <2>3. PICK new \in SignalId : /\ new = IdOf(feed[r], at[r])
                                /\ signals'[new] = Event(new, r, Window(feed[r], new[1]))
                                /\ \A i \in SignalId \ {new} : signals'[i] = signals[i]
    BY <1>3, <2>1, InsertedSignal DEF RunsInv, WorkInv, IdOf
  <2>4. signals'[new].id = new /\ signals'[new].run = r
    BY <2>3 DEF Event
  <2>5. SignalsKeepTheirIds'
    BY <2>3, <2>4 DEF ReadersInv, SignalsKeepTheirIds
  <2>6. ASSUME NEW q \in Run PROVE MineAreOfTheFeed(q)'
    <3> SUFFICES ASSUME NEW id \in SignalId, signals'[id] # NoEvent, signals'[id].run = q,
                        signals'[id].life = life
                 PROVE  signals'[id] = Event(id, q, Window(feed[q], id[1]))
      BY <2>2 DEF MineAreOfTheFeed, Mine, Event
    <3>1. CASE id = new
      BY <3>1, <2>3, <2>4
    <3>2. CASE id # new
      BY <3>2, <2>3 DEF ReadersInv, MineAreOfTheFeed, Mine
    <3> QED
      BY <3>1, <3>2
  <2> QED
    BY <1>1, <2>5, <2>6 DEF ReadersInv
<1> QED
  BY <1>2, <1>3

\* All runs, at every step.
LEMMA ReadersHold == Spec => []ReadersInv
<1>1. ASSUME Init PROVE ReadersInv
  <2>1. \A r \in Run : Mine(r) = {}
    BY <1>1 DEF Init, Mine
  <2>2. \A r \in Run : ThreadKnows(r)
    BY <1>1 DEF Init, ThreadKnows
  <2>3. SignalsKeepTheirIds
    BY <1>1 DEF Init, SignalsKeepTheirIds
  <2> QED
    BY <2>1, <2>2, <2>3 DEF ReadersInv, MineAreOfTheFeed
<1>2. ASSUME ReadersInv, UNCHANGED vars PROVE ReadersInv'
  BY <1>2 DEF vars, run, ReadersInv, ThreadKnows, MineAreOfTheFeed, Mine, Event,
     SignalsKeepTheirIds
<1>3. RunsInv /\ WorkInv /\ ReadersInv /\ [Next]_vars => ReadersInv'
  BY <1>2, ReadersStep
<1> QED
  BY <1>1, <1>3, RunsInvHolds, WorkHolds, PTL DEF Spec

-----------------------------------------------------------------------------
(* The contract: what every step is to the readers *)

\* A run without bars has nothing to store.
LEMMA NothingToStore ==
  ASSUME NEW r \in Run
  PROVE  PlanOf(r, NoFeed) = Contract!NoPlan
<1>1. Answered(NoFeed) = {}
  BY DEF Answered, NoFeed
<1> QED
  BY <1>1 DEF PlanOf, BarsOf, Contract!NoPlan

\* The signals that the bars of a run call for are made of these bars.
LEMMA PlansAreOfTheirBars ==
  ASSUME NEW r \in Run, NEW f \in Feed
  PROVE  Contract!IsPlan(PlanOf(r, f))
<1> SUFFICES ASSUME NEW b \in Bar
             PROVE  BarsOf(Window(f, b)) \subseteq BarsOf([c \in Answered(f) |-> f[c]])
  BY DEF Contract!IsPlan, PlanOf, Recorded, Event, Answered
<1>1. \A c \in DOMAIN Window(f, b) : c \in Answered(f) /\ Window(f, b)[c] = f[c]
  BY WindowIsPast DEF Answered
<1> QED
  BY <1>1 DEF BarsOf

\* The bars stored are the pairs of a time and the content stored for it.
LEMMA StoredBarsAre ==
  ASSUME NEW x
  PROVE  x \in StoredBars <=> \E b \in Bar : bars[b] # NoBar /\ x = <<b, bars[b]>>
BY DEF StoredBars, BarsOf, Answered

\* A step that leaves the bars of the runs and the server leaves what they have
\* to store.
LEMMA PlansStay == ASSUME UNCHANGED <<feed, life>> PROVE Plans' = Plans
BY DEF Plans, PlanOf, Recorded, Event

\* A step of a server that lives changes a plan only with the bars of the run.
LEMMA PlansFollowTheBars == ASSUME life' = life PROVE Plans' = [r \in Run |-> PlanOf(r, feed'[r])]
BY DEF Plans, PlanOf, Recorded, Event

LEMMA StoresAsTheyAre ==
  /\ bars' = bars => StoredBars' = StoredBars
  /\ signals' = signals => StoredSignals' = StoredSignals
  /\ stop' = stop => AskedToStop' = AskedToStop
BY DEF StoredBars, StoredSignals, AskedToStop

\* What a thread does to its place, and a handler to the status, is a move of
\* that run alone.
LEMMA RunMoves ==
  ASSUME TypeOK, NEW r \in Run,
         \A q \in Run \ {r} : pc'[q] = pc[q] /\ status'[q] = status[q]
  PROVE  Phases' = [Phases EXCEPT ![r] = Phase(r)']
BY DEF Phases, Phase

\* A run that stays where it is to the readers moves nothing.
LEMMA RunStays ==
  ASSUME TypeOK, NEW r \in Run, Phase(r)' = Phase(r),
         \A q \in Run \ {r} : pc'[q] = pc[q] /\ status'[q] = status[q]
  PROVE  Phases' = Phases
BY DEF Phases, Phase

\* The empty stores, no run started.
LEMMA InitIsOfContract == Init => Contract!Init
<1> SUFFICES ASSUME Init PROVE Contract!Init
  OBVIOUS
<1>1. Phases = [r \in Run |-> "idle"] /\ AskedToStop = {}
  BY DEF Init, Phases, Phase, AskedToStop
<1>2. Plans = [r \in Run |-> Contract!NoPlan]
  <2>1. Plans = [r \in Run |-> PlanOf(r, NoFeed)]
    BY DEF Init, Plans
  <2> QED
    BY <2>1, NothingToStore
<1>3. StoredBars = {}
  BY StoredBarsAre DEF Init, NoFeed
<1>4. StoredSignals = {}
  BY DEF Init, StoredSignals
<1> QED
  BY <1>1, <1>2, <1>3, <1>4 DEF Contract!Init

\* A run learns its plan with its bars, or nothing when the request fails.
LEMMA FetchIsOfContract ==
  ASSUME RunsInv, RunsInv', ReadersInv, NEW r \in Run, Fetch(r)
  PROVE  [Contract!Next]_(Contract!vars)
<1>1. /\ pc[r] = "fetching" /\ pc'[r] \in {"looping", "failing"} /\ feed[r] = NoFeed
      /\ UNCHANGED <<bars, signals, status, stop, life>>
      /\ \A q \in Run \ {r} : pc'[q] = pc[q]
      /\ feed' = [feed EXCEPT ![r] = feed'[r]]
      /\ feed'[r] \in Feed
  BY DEF Fetch, Goto, ReadersInv, ThreadKnows, RunsInv, TypeOK
<1>2. Phase(r) = "running" /\ Phase(r)' = "running"
  BY <1>1 DEF Phase
<1>3. UNCHANGED <<Phases, AskedToStop, StoredBars, StoredSignals>>
  BY <1>1, <1>2, RunStays, StoresAsTheyAre DEF RunsInv
<1>4. Phases[r] = "running" /\ Plans[r] = Contract!NoPlan
  BY <1>1, <1>2, NothingToStore DEF Phases, Plans
<1>5. Plans'[r] = PlanOf(r, feed'[r]) /\ Plans' = [Plans EXCEPT ![r] = Plans'[r]]
  <2>1. Plans' = [q \in Run |-> PlanOf(q, feed'[q])]
    BY <1>1, PlansFollowTheBars
  <2>2. \A q \in Run \ {r} : feed'[q] = feed[q]
    BY <1>1 DEF RunsInv, TypeOK
  <2> QED
    BY <2>1, <2>2 DEF Plans
<1>6. Contract!IsPlan(Plans'[r])
  BY <1>1, <1>5, PlansAreOfTheirBars
<1>7. Contract!Learns(r)
  BY <1>4, <1>5, <1>6 DEF Contract!Learns
<1>8. Contract!Fetch(r)
  BY <1>3, <1>4, <1>7 DEF Contract!Fetch
<1> QED
  BY <1>8 DEF Contract!Next

\* The bar that a run stores is one of its own, under a key that had none.
LEMMA SaveInsertIsOfContract ==
  ASSUME RunsInv, ReadersInv, NEW r \in Run, SaveInsert(r)
  PROVE  [Contract!Next]_(Contract!vars)
<1>1. /\ pc[r] = "insertingBar" /\ pc'[r] \in {"deciding", "failing"}
      /\ UNCHANGED <<signals, status, stop, feed, life>>
      /\ \A q \in Run \ {r} : pc'[q] = pc[q]
      /\ at[r] \in Bar /\ feed[r][at[r]] \in Content
  BY RunsAssumption DEF SaveInsert, Goto, RunsInv, TypeOK, CountersFollow, Bar
<1>2. Phase(r) = "running" /\ Phase(r)' = "running"
  BY <1>1 DEF Phase
<1>3. UNCHANGED <<Phases, AskedToStop, Plans, StoredSignals>>
  BY <1>1, <1>2, RunStays, PlansStay, StoresAsTheyAre DEF RunsInv
<1>4. CASE bars[at[r]] # NoBar
  <2>1. bars' = bars
    BY <1>4 DEF SaveInsert
  <2> QED
    BY <1>3, <2>1, StoresAsTheyAre DEF Contract!vars
<1>5. CASE bars[at[r]] = NoBar
  <2> DEFINE new == <<at[r], feed[r][at[r]]>>
  <2>1. bars' = [bars EXCEPT ![at[r]] = feed[r][at[r]]] /\ DOMAIN bars = Bar
    BY <1>5 DEF SaveInsert, RunsInv, TypeOK, Feed
  <2>2. at[r] \in Answered(feed[r])
    BY <1>1, RunsAssumption DEF Answered
  <2>3. new \in Plans[r].bars
    BY <2>2 DEF Plans, PlanOf, BarsOf
  <2>4. \A x \in StoredBars : x[1] # new[1]
    BY <1>5, StoredBarsAre
  <2>5. StoredBars' = StoredBars \cup {new}
    <3>1. \A x : x \in StoredBars' <=> \E b \in Bar : bars'[b] # NoBar /\ x = <<b, bars'[b]>>
      BY DEF StoredBars, BarsOf, Answered
    <3>2. \A b \in Bar : bars'[b] = IF b = at[r] THEN feed[r][at[r]] ELSE bars[b]
      BY <2>1
    <3>3. feed[r][at[r]] # NoBar
      BY <1>1, RunsAssumption
    <3> QED
      BY <1>1, <1>5, <3>1, <3>2, <3>3, StoredBarsAre
  <2>6. Phases[r] = "running"
    BY <1>2 DEF Phases
  <2> HIDE DEF new
  <2>7. Contract!StoreBar(r)
    BY <1>3, <2>3, <2>4, <2>5, <2>6 DEF Contract!StoreBar
  <2> QED
    BY <2>7 DEF Contract!Next
<1> QED
  BY <1>4, <1>5

\* The signal that a run stores is one its bars call for, and the bars it is
\* made of are stored.
LEMMA AppendInsertIsOfContract ==
  ASSUME RunsInv, WorkInv, ReadersInv, NEW r \in Run, AppendInsert(r)
  PROVE  [Contract!Next]_(Contract!vars)
<1>1. /\ pc[r] = "insertingSignal" /\ pc'[r] \in {"counting", "failing"}
      /\ UNCHANGED <<bars, status, stop, feed, life>>
      /\ \A q \in Run \ {r} : pc'[q] = pc[q]
  BY DEF AppendInsert, Goto, RunsInv, TypeOK
<1>2. Phase(r) = "running" /\ Phase(r)' = "running"
  BY <1>1 DEF Phase
<1>3. UNCHANGED <<Phases, AskedToStop, Plans, StoredBars>>
  BY <1>1, <1>2, RunStays, PlansStay, StoresAsTheyAre DEF RunsInv
<1>4. CASE signals' = signals
  BY <1>3, <1>4, StoresAsTheyAre DEF Contract!vars
<1>5. CASE signals' # signals
  <2> DEFINE id == IdOf(feed[r], at[r])
             e == Event(id, r, Window(feed[r], at[r]))
  <2>1. /\ id \in SignalId /\ signals[id] = NoEvent /\ signals'[id] = e
        /\ \A i \in SignalId \ {id} : signals'[i] = signals[i]
    BY <1>5, InsertedSignal DEF RunsInv, WorkInv
  <2>2. e = event[r] /\ e # NoEvent
    BY <1>1, EventInHand DEF RunsInv, WorkInv
  <2>3. at[r] \in Answered(feed[r]) /\ HasCandidate(feed[r], at[r])
    BY <1>1 DEF WorkInv, WorkOf, EventIsOfTheBar, ReadersInv, ThreadKnows, Answered
  <2>4. Recorded(e) \in Plans[r].signals
    BY <2>3 DEF Plans, PlanOf
  <2>5. Recorded(e).bars \subseteq StoredBars
    <3>1. AnEvent(e) /\ WindowStored(e)
      BY <2>2 DEF RunsInv, TypeOK, EventsInHandComeFromStoredBars
    <3>2. \A b \in DOMAIN e.window : b \in Bar /\ bars[b] = e.window[b] /\ bars[b] # NoBar
      BY <3>1, RunsAssumption DEF AnEvent, WindowStored
    <3>3. \A b \in DOMAIN e.window : <<b, e.window[b]>> \in StoredBars
      BY <3>2, StoredBarsAre
    <3> QED
      BY <3>3 DEF Recorded, BarsOf
  <2>6. Recorded(e).id = id
    BY DEF Recorded, Event
  <2> HIDE DEF id, e
  <2>7. \A t \in StoredSignals : t.id # Recorded(e).id
    BY <2>1, <2>6 DEF StoredSignals, Recorded, ReadersInv, SignalsKeepTheirIds
  <2>8. StoredSignals' = StoredSignals \cup {Recorded(e)}
    BY <2>1, <2>2 DEF StoredSignals
  <2>9. Phases[r] = "running"
    BY <1>2 DEF Phases
  <2>10. Contract!StoreSignal(r)
    BY <1>3, <2>4, <2>5, <2>7, <2>8, <2>9 DEF Contract!StoreSignal
  <2> QED
    BY <2>10 DEF Contract!Next
<1> QED
  BY <1>4, <1>5

\* Every bar of a run that ends as COMPLETED is stored, and every signal they
\* call for.
LEMMA CompletedLeavesNothingOut ==
  ASSUME RunsInv, WorkInv', ReadersInv, NEW r \in Run, End(r), status'[r] = "COMPLETED"
  PROVE  Plans[r].bars \subseteq StoredBars /\ Plans[r].signals \subseteq StoredSignals
<1>1. \A b \in Answered(feed[r]) :
        /\ b \in Bar /\ feed[r][b] # NoBar /\ bars[b] = feed[r][b]
        /\ HasCandidate(feed[r], b) => IdOf(feed[r], b) \in Mine(r)
  <2>1. CompletedIsComplete(r)'
    BY DEF WorkInv, WorkOf
  <2>2. UNCHANGED <<bars, signals, feed, life>>
    BY DEF End
  <2>3. Mine(r)' = Mine(r)
    BY <2>2 DEF Mine
  <2> QED
    BY <2>1, <2>2, <2>3 DEF CompletedIsComplete, Answered
<1>2. \A b \in Answered(feed[r]) : <<b, feed[r][b]>> \in StoredBars
  BY <1>1, StoredBarsAre
<1>3. ASSUME NEW b \in Answered(feed[r]), HasCandidate(feed[r], b)
      PROVE  Recorded(Event(IdOf(feed[r], b), r, Window(feed[r], b))) \in StoredSignals
  <2>1. IdOf(feed[r], b) \in Mine(r) /\ IdOf(feed[r], b)[1] = b
    BY <1>1, <1>3 DEF IdOf
  <2>2. signals[IdOf(feed[r], b)] = Event(IdOf(feed[r], b), r, Window(feed[r], b))
    BY <2>1 DEF ReadersInv, MineAreOfTheFeed
  <2> QED
    BY <2>1, <2>2 DEF StoredSignals, Mine
<1>4. Plans[r].bars \subseteq StoredBars
  BY <1>2 DEF Plans, PlanOf, BarsOf
<1>5. Plans[r].signals \subseteq StoredSignals
  BY <1>3 DEF Plans, PlanOf
<1> QED
  BY <1>4, <1>5

\* A run ends as it says it does.
LEMMA EndIsOfContract ==
  ASSUME RunsInv, RunsInv', WorkInv', ReadersInv, NEW r \in Run, End(r) \/ Fail(r)
  PROVE  [Contract!Next]_(Contract!vars)
<1>1. /\ pc[r] \in {"ending", "failing"} /\ pc'[r] = "done" /\ status'[r] \in Terminal
      /\ UNCHANGED <<bars, signals, stop, feed, life>>
      /\ \A q \in Run \ {r} : pc'[q] = pc[q] /\ status'[q] = status[q]
      /\ status'[r] = "COMPLETED" => ~stop[r]
      /\ status'[r] = "STOPPED" => stop[r]
  BY DEF End, Fail, Outcome, Goto, SetStatus, Terminal, RunsInv, TypeOK, ReadersInv, ThreadKnows
<1>2. Phase(r) = "running" /\ Phase(r)' = status'[r]
  BY <1>1 DEF Phase
<1>3. UNCHANGED <<AskedToStop, Plans, StoredBars, StoredSignals>>
  BY <1>1, PlansStay, StoresAsTheyAre
<1>4. Phases[r] = "running" /\ Contract!Moves(r, status'[r])
  <2>1. Phases' = [Phases EXCEPT ![r] = status'[r]]
    BY <1>1, <1>2, RunMoves DEF RunsInv
  <2> QED
    BY <1>2, <2>1 DEF Contract!Moves, Phases
<1>5. r \in AskedToStop <=> stop[r]
  BY DEF AskedToStop
<1>6. CASE status'[r] = "COMPLETED"
  <2>1. Plans[r].bars \subseteq StoredBars /\ Plans[r].signals \subseteq StoredSignals
    <3>1. End(r)
      BY <1>6 DEF Fail, SetStatus, RunsInv, TypeOK
    <3> QED
      BY <1>6, <3>1, CompletedLeavesNothingOut
  <2>2. Contract!Complete(r)
    BY <1>1, <1>3, <1>4, <1>5, <1>6, <2>1 DEF Contract!Complete
  <2> QED
    BY <2>2 DEF Contract!Next
<1>7. CASE status'[r] = "STOPPED"
  <2>1. Contract!Stop(r)
    BY <1>1, <1>3, <1>4, <1>5, <1>7 DEF Contract!Stop
  <2> QED
    BY <2>1 DEF Contract!Next
<1>8. CASE status'[r] = "FAILED"
  <2>1. Contract!Fail(r)
    BY <1>3, <1>4, <1>8 DEF Contract!Fail
  <2> QED
    BY <2>1 DEF Contract!Next
<1> QED
  BY <1>1, <1>6, <1>7, <1>8 DEF Terminal

\* What the HTTP handlers do.
LEMMA HandlersAreOfContract ==
  ASSUME RunsInv, ReadersInv, NEW r \in Run, StartRun(r) \/ StopRun(r)
  PROVE  [Contract!Next]_(Contract!vars)
<1>1. CASE StartRun(r)
  <2>1. /\ pc[r] = "none" /\ pc'[r] = "starting" /\ feed[r] = NoFeed
        /\ UNCHANGED <<bars, signals, stop, feed, life>>
        /\ \A q \in Run \ {r} : pc'[q] = pc[q] /\ status'[q] = status[q]
    BY <1>1 DEF StartRun, Goto, SetStatus, RunsInv, TypeOK, ReadersInv, ThreadKnows
  <2>2. Phase(r) = "idle" /\ Phase(r)' = "running"
    BY <2>1 DEF Phase
  <2>3. UNCHANGED <<AskedToStop, Plans, StoredBars, StoredSignals>>
    BY <2>1, PlansStay, StoresAsTheyAre
  <2>4. Phases[r] = "idle" /\ Contract!Moves(r, "running")
    <3>1. Phases' = [Phases EXCEPT ![r] = "running"]
      BY <2>1, <2>2, RunMoves DEF RunsInv
    <3> QED
      BY <2>2, <3>1 DEF Contract!Moves, Phases
  <2>5. Plans[r] = Contract!NoPlan /\ DOMAIN Plans = Run
    BY <2>1, NothingToStore DEF Plans
  <2>6. Contract!Learns(r)
    <3>1. Contract!IsPlan(Contract!NoPlan)
      BY DEF Contract!IsPlan, Contract!NoPlan
    <3>2. Plans' = [Plans EXCEPT ![r] = Plans'[r]]
      BY <2>3, <2>5 DEF Plans
    <3> QED
      BY <2>3, <2>5, <3>1, <3>2 DEF Contract!Learns
  <2>7. Contract!Begin(r)
    BY <2>3, <2>4, <2>6 DEF Contract!Begin
  <2> QED
    BY <2>7 DEF Contract!Next
<1>2. CASE StopRun(r)
  <2>1. /\ stop' = [stop EXCEPT ![r] = TRUE] /\ status[r] # "NONE"
        /\ UNCHANGED <<bars, signals, pc, feed, life>>
        /\ \A q \in Run \ {r} : status'[q] = status[q]
        /\ status'[r] = status[r] \/ status[r] \in {"STARTING", "RUNNING"}
    BY <1>2 DEF StopRun, SetStatus, RunsInv, TypeOK
  <2>2. Phase(r)' = Phase(r) /\ Phase(r) # "idle"
    BY <2>1 DEF Phase, RunsInv, ThreadEndsTerminal, Terminal, ReadersInv, ThreadKnows
  <2>3. Phases' = Phases /\ Phases[r] # "idle"
    BY <2>1, <2>2, RunStays DEF RunsInv, Phases
  <2>4. UNCHANGED <<Plans, StoredBars, StoredSignals>>
    BY <2>1, PlansStay, StoresAsTheyAre
  <2>5. AskedToStop' = AskedToStop \cup {r}
    BY <2>1 DEF AskedToStop, RunsInv, TypeOK
  <2>6. Contract!Ask(r)
    BY <2>3, <2>4, <2>5 DEF Contract!Ask
  <2> QED
    BY <2>6 DEF Contract!Next
<1> QED
  BY <1>1, <1>2

\* The steps of a thread between those that readers can tell.
LEMMA InnerStepsAreOfContract ==
  ASSUME RunsInv, NEW r \in Run,
         \/ Begin(r) \/ NextBar(r) \/ LeaveLoop(r) \/ SaveRead(r)
         \/ DecideOnBar(r) \/ AppendRead(r) \/ Count(r)
  PROVE  [Contract!Next]_(Contract!vars)
<1>1. /\ pc[r] \notin {"none", "done"} /\ pc'[r] \notin {"none", "done"}
      /\ UNCHANGED <<bars, signals, stop, feed, life>>
      /\ \A q \in Run \ {r} : pc'[q] = pc[q] /\ status'[q] = status[q]
  BY DEF Begin, NextBar, LeaveLoop, SaveRead, DecideOnBar, AppendRead, Count, Goto,
     SetStatus, RunsInv, TypeOK
<1>2. Phase(r) = "running" /\ Phase(r)' = "running"
  BY <1>1 DEF Phase
<1>3. Phases' = Phases
  BY <1>1, <1>2, RunStays DEF RunsInv
<1>4. UNCHANGED <<AskedToStop, Plans, StoredBars, StoredSignals>>
  BY <1>1, PlansStay, StoresAsTheyAre
<1> QED
  BY <1>3, <1>4 DEF Contract!vars

\* The death of the server.
LEMMA RestartIsOfContract ==
  ASSUME Restart
  PROVE  [Contract!Next]_(Contract!vars)
<1>1. UNCHANGED <<StoredBars, StoredSignals>>
  BY StoresAsTheyAre DEF Restart
<1>2. Phases' = [r \in Run |-> "idle"] /\ AskedToStop' = {}
  BY DEF Restart, Phases, Phase, AskedToStop
<1>3. Plans' = [r \in Run |-> Contract!NoPlan]
  <2> SUFFICES ASSUME NEW r \in Run PROVE PlanOf(r, feed[r])' = Contract!NoPlan
    BY DEF Plans
  <2>1. feed'[r] = NoFeed
    BY DEF Restart
  <2>2. Answered(feed'[r]) = {}
    BY <2>1 DEF Answered, NoFeed
  <2> QED
    BY <2>2 DEF PlanOf, BarsOf, Contract!NoPlan
<1>4. Contract!Forget
  BY <1>1, <1>2, <1>3 DEF Contract!Forget
<1> QED
  BY <1>4 DEF Contract!Next

\* Every step of the shadow runs is one that the contract allows, or one that
\* readers of the stores do not see.
LEMMA NextIsOfContract ==
  RunsInv /\ RunsInv' /\ WorkInv /\ WorkInv' /\ ReadersInv /\ [Next]_vars
    => [Contract!Next]_(Contract!vars)
<1> SUFFICES ASSUME RunsInv, RunsInv', WorkInv, WorkInv', ReadersInv, [Next]_vars
             PROVE  [Contract!Next]_(Contract!vars)
  OBVIOUS
<1>1. CASE UNCHANGED vars
  <2>1. UNCHANGED <<Phases, AskedToStop, Plans, StoredBars, StoredSignals>>
    BY <1>1, PlansStay, StoresAsTheyAre DEF vars, run, Phases, Phase
  <2> QED
    BY <2>1 DEF Contract!vars
<1>2. ASSUME NEW r \in Run, StartRun(r) \/ StopRun(r) \/ Thread(r)
      PROVE  [Contract!Next]_(Contract!vars)
  <2>1. CASE StartRun(r) \/ StopRun(r)
    BY <2>1, HandlersAreOfContract
  <2>2. CASE Fetch(r)
    BY <2>2, FetchIsOfContract
  <2>3. CASE SaveInsert(r)
    BY <2>3, SaveInsertIsOfContract
  <2>4. CASE AppendInsert(r)
    BY <2>4, AppendInsertIsOfContract
  <2>5. CASE End(r) \/ Fail(r)
    BY <2>5, EndIsOfContract
  <2>6. CASE \/ Begin(r) \/ NextBar(r) \/ LeaveLoop(r) \/ SaveRead(r)
             \/ DecideOnBar(r) \/ AppendRead(r) \/ Count(r)
    BY <2>6, InnerStepsAreOfContract
  <2> QED
    BY <1>2, <2>1, <2>2, <2>3, <2>4, <2>5, <2>6 DEF Thread
<1> QED
  BY <1>1, <1>2, RestartIsOfContract DEF Next

\* The shadow runs keep the contract of RecordedRuns with whoever reads their
\* stores, for any number of runs that race for a key between its read and its
\* insert, are stopped late, fail, or are killed with the server: nothing is
\* stored twice or without its bars, nothing a run was not called to store, and
\* COMPLETED and STOPPED mean what they say.
THEOREM ShadowRunsKeepTheContract == Spec => ImplementsContract
<1>1. Spec => Contract!Spec
  BY InitIsOfContract, NextIsOfContract, RunsInvHolds, WorkHolds, ReadersHold, PTL
     DEF Spec, Contract!Spec
<1> QED
  BY <1>1 DEF ImplementsContract
=========================================================================
