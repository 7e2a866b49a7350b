--------------------------- MODULE ShadowRuns ---------------------------
(***************************************************************************)
(* Shadow runs of the dashboard (dashboard/shadow.py): each run is a thread *)
(* that fetches the bars of its window once, stores each with save_bar,     *)
(* lets the strategies decide and stores the SignalEvent with               *)
(* append_signal, while HTTP handlers start and stop runs.  All runs share  *)
(* the two SQLite stores; both save methods read a key and then insert it,  *)
(* two steps that interleave with those of other runs.                      *)
(*                                                                         *)
(* The runs are over one symbol, timeframe and pair of data versions: only  *)
(* then do they meet in the stores.  The strategies are registered before   *)
(* the server serves (create_app), so start_run finds them.                 *)
(***************************************************************************)
EXTENDS Naturals, FiniteSets

CONSTANTS
  Run,          \* runs that may be started between two starts of the server
  NumBars,      \* market_data_times, in order
  Content,      \* contents (fingerprints) the provider may give a bar
  NoBar,        \* no bar: not answered, quarantined, or not stored
  Lookback,     \* lookback of RollingFeatureEngine
  Decide(_),    \* direction that the strategies give a feature window, if any
  NoEvent,      \* no signal is stored
  FetchMayFail, \* can the request to the provider fail?
  MaxRestarts   \* bound on restarts of the server

ASSUME RunsAssumption == /\ NumBars \in Nat
                         /\ Lookback \in Nat \ {0}
                         /\ NoBar \notin Content
                         /\ FetchMayFail \in BOOLEAN
                         /\ MaxRestarts \in Nat

VARIABLES
  bars,     \* market_bars: the content stored for each market_data_time
  signals,  \* signals: the event stored for each signal_id
  status,   \* ShadowRunState.status, NONE for a run not in _runs
  stop,     \* _stop_requested
  seen,     \* bars_seen
  created,  \* signals_created
  pc,       \* where the thread of a run is
  feed,     \* the bars it fetched
  at,       \* the bar it is at
  event,    \* the event it is about to store
  life      \* restarts of the server so far

run == <<status, stop, seen, created, pc, feed, at, event>>
vars == <<bars, signals, run, life>>

Bar == 1..NumBars

Direction == {"BUY", "SELL"}

\* deterministic_signal_id: of what it hashes, the time of the bar and the
\* direction vary here; event_time is not part of it.
SignalId == Bar \X Direction

Feed == [Bar -> Content \cup {NoBar}]

NoFeed == [b \in Bar |-> NoBar]

\* A SignalEvent: the run (and so the event_time) that created it and the
\* feature window it was computed from.  Two runs never read the same time.
Event(id, r, window) == [id |-> id, run |-> r, life |-> life, window |-> window]

\* The events there may be; NoEvent, the None of the code, is none of them.
SignalEvent == [id : SignalId, run : Run, life : 0..MaxRestarts,
                window : UNION {[S -> Content] : S \in SUBSET Bar}]

ASSUME EventAssumption == NoEvent \notin SignalEvent

Status == {"NONE", "STARTING", "RUNNING", "STOPPING", "STOPPED", "COMPLETED",
           "FAILED"}

Terminal == {"STOPPED", "COMPLETED", "FAILED"}

PC == {"none", "starting", "fetching", "looping", "saving", "insertingBar",
       "deciding", "appending", "insertingSignal", "counting", "ending",
       "failing", "done"}

-----------------------------------------------------------------------------
(* What a run computes from its bars *)

Answered(f) == {b \in Bar : f[b] # NoBar}

\* The times of the feature window of bar b: the last Lookback bars up to b.
WindowTimes(f, b) ==
  {c \in Answered(f) : c <= b /\ Cardinality({d \in Answered(f) : c < d /\ d <= b}) < Lookback}

\* RollingFeatureEngine.update_closed_bar: the window the features are made of.
Window(f, b) == [c \in WindowTimes(f, b) |-> f[c]]

\* The strategies emit nothing on a window that is too short.
HasCandidate(f, b) == /\ Cardinality(WindowTimes(f, b)) = Lookback
                      /\ Decide(Window(f, b)) \in Direction

IdOf(f, b) == <<b, Decide(Window(f, b))>>

-----------------------------------------------------------------------------
(* The HTTP handlers *)

Init == /\ bars = NoFeed
        /\ signals = [id \in SignalId |-> NoEvent]
        /\ status = [r \in Run |-> "NONE"]
        /\ stop = [r \in Run |-> FALSE]
        /\ seen = [r \in Run |-> 0]
        /\ created = [r \in Run |-> 0]
        /\ pc = [r \in Run |-> "none"]
        /\ feed = [r \in Run |-> NoFeed]
        /\ at = [r \in Run |-> 0]
        /\ event = [r \in Run |-> NoEvent]
        /\ life = 0

Goto(r, label) == pc' = [pc EXCEPT ![r] = label]

SetStatus(r, s) == status' = [status EXCEPT ![r] = s]

\* start_run: the state is registered and the thread is started.
StartRun(r) ==
  /\ pc[r] = "none"
  /\ SetStatus(r, "STARTING")
  /\ Goto(r, "starting")
  /\ UNCHANGED <<bars, signals, stop, seen, created, feed, at, event, life>>

\* stop_run
StopRun(r) ==
  /\ status[r] # "NONE"
  /\ stop' = [stop EXCEPT ![r] = TRUE]
  /\ IF status[r] \in {"STARTING", "RUNNING"} THEN SetStatus(r, "STOPPING")
                                              ELSE UNCHANGED status
  /\ UNCHANGED <<bars, signals, seen, created, pc, feed, at, event, life>>

-----------------------------------------------------------------------------
(* The thread of a run *)

\* _set_status(RUNNING), whatever the status has become meanwhile.
Begin(r) ==
  /\ pc[r] = "starting"
  /\ SetStatus(r, "RUNNING")
  /\ Goto(r, "fetching")
  /\ UNCHANGED <<bars, signals, stop, seen, created, feed, at, event, life>>

\* SinaMarketDataSource.read: the request is made once and times out.
Fetch(r) ==
  /\ pc[r] = "fetching"
  /\ \/ /\ feed' \in {[feed EXCEPT ![r] = f] : f \in Feed}
        /\ Goto(r, "looping")
     \/ /\ FetchMayFail
        /\ Goto(r, "failing")
        /\ UNCHANGED feed
  /\ UNCHANGED <<bars, signals, status, stop, seen, created, at, event, life>>

\* Mutant of Rest: the loop does not get past the bar it is at.
RestWithCurrent(r) == {b \in Answered(feed[r]) : b >= at[r]}

\* The bars that the loop has still to take.
Rest(r) == {b \in Answered(feed[r]) : b > at[r]}

\* Mutant of NextBar: the bars are not sorted.
NextBarUnsorted(r) ==
  /\ pc[r] = "looping" /\ ~stop[r]
  /\ \E b \in Rest(r) : at' = [at EXCEPT ![r] = b]
  /\ Goto(r, "saving")
  /\ UNCHANGED <<bars, signals, status, stop, seen, created, feed, event, life>>

\* The loop over the sorted bars goes on to the next one.
NextBar(r) ==
  /\ pc[r] = "looping" /\ ~stop[r]
  /\ \E b \in Rest(r) : /\ \A c \in Rest(r) : b <= c
                        /\ at' = [at EXCEPT ![r] = b]
  /\ Goto(r, "saving")
  /\ UNCHANGED <<bars, signals, status, stop, seen, created, feed, event, life>>

\* The stop flag is looked at before each bar, and not after the last one.
LeaveLoop(r) ==
  /\ pc[r] = "looping"
  /\ \/ Rest(r) # {} /\ stop[r] /\ SetStatus(r, "STOPPED")
     \/ Rest(r) = {} /\ UNCHANGED status
  /\ Goto(r, "ending")
  /\ UNCHANGED <<bars, signals, stop, seen, created, feed, at, event, life>>

\* Mutant of SaveRead: a stored bar is a duplicate whatever its content.
SaveReadAnyContent(r) ==
  /\ pc[r] = "saving"
  /\ \/ bars[at[r]] = NoBar /\ Goto(r, "insertingBar")
     \/ bars[at[r]] # NoBar /\ Goto(r, "deciding")
  /\ UNCHANGED <<bars, signals, status, stop, seen, created, feed, at, event, life>>

\* save_bar reads the row of the version key: none, a duplicate, a conflict.
SaveRead(r) ==
  /\ pc[r] = "saving"
  /\ \/ bars[at[r]] = NoBar /\ Goto(r, "insertingBar")
     \/ bars[at[r]] = feed[r][at[r]] /\ Goto(r, "deciding")
     \/ bars[at[r]] \notin {NoBar, feed[r][at[r]]} /\ Goto(r, "failing")
  /\ UNCHANGED <<bars, signals, status, stop, seen, created, feed, at, event, life>>

\* save_bar inserts; the primary key refuses a row that came meanwhile, even
\* one with the same content.
SaveInsert(r) ==
  /\ pc[r] = "insertingBar"
  /\ IF bars[at[r]] = NoBar
       THEN /\ bars' = [bars EXCEPT ![at[r]] = feed[r][at[r]]]
            /\ Goto(r, "deciding")
       ELSE /\ Goto(r, "failing")
            /\ UNCHANGED bars
  /\ UNCHANGED <<signals, status, stop, seen, created, feed, at, event, life>>

\* Features, strategies, bars_seen, and the event if there is a candidate.
DecideOnBar(r) ==
  /\ pc[r] = "deciding"
  /\ seen' = [seen EXCEPT ![r] = @ + 1]
  /\ IF HasCandidate(feed[r], at[r])
       THEN /\ event' = [event EXCEPT ![r] =
                 Event(IdOf(feed[r], at[r]), r, Window(feed[r], at[r]))]
            /\ Goto(r, "appending")
       ELSE /\ Goto(r, "looping")
            /\ UNCHANGED event
  /\ UNCHANGED <<bars, signals, status, stop, created, feed, at, life>>

\* append_signal reads the row of the signal_id; an equal event is accepted,
\* another one is a conflict.
AppendRead(r) ==
  /\ pc[r] = "appending"
  /\ LET stored == signals[event[r].id] IN
       \/ stored = NoEvent /\ Goto(r, "insertingSignal")
       \/ stored = event[r] /\ Goto(r, "counting")
       \/ stored \notin {NoEvent, event[r]} /\ Goto(r, "failing")
  /\ UNCHANGED <<bars, signals, status, stop, seen, created, feed, at, event, life>>

\* Mutant of AppendInsert: INSERT OR REPLACE.
AppendReplace(r) ==
  /\ pc[r] = "insertingSignal"
  /\ signals' = [signals EXCEPT ![event[r].id] = event[r]]
  /\ Goto(r, "counting")
  /\ UNCHANGED <<bars, status, stop, seen, created, feed, at, event, life>>

\* append_signal inserts; the primary key refuses a row that came meanwhile.
AppendInsert(r) ==
  /\ pc[r] = "insertingSignal"
  /\ IF signals[event[r].id] = NoEvent
       THEN /\ signals' = [signals EXCEPT ![event[r].id] = event[r]]
            /\ Goto(r, "counting")
       ELSE /\ Goto(r, "failing")
            /\ UNCHANGED signals
  /\ UNCHANGED <<bars, status, stop, seen, created, feed, at, event, life>>

\* signals_created, under the lock, once the event is stored.
Count(r) ==
  /\ pc[r] = "counting"
  /\ created' = [created EXCEPT ![r] = @ + 1]
  /\ event' = [event EXCEPT ![r] = NoEvent]
  /\ Goto(r, "looping")
  /\ UNCHANGED <<bars, signals, status, stop, seen, feed, at, life>>

\* Mutants of Outcome: the flag is not looked at; nothing is looked at.
OutcomeByStatus(r) == IF status[r] \in {"FAILED", "STOPPED"} THEN status[r] ELSE "COMPLETED"
OutcomeCompleted(r) == "COMPLETED"

\* The status that the end of _run_shadow sets.
Outcome(r) == IF stop[r] THEN "STOPPED"
              ELSE IF status[r] \in {"FAILED", "STOPPED"} THEN status[r]
              ELSE "COMPLETED"

End(r) ==
  /\ pc[r] = "ending"
  /\ SetStatus(r, Outcome(r))
  /\ Goto(r, "done")
  /\ UNCHANGED <<bars, signals, stop, seen, created, feed, at, event, life>>

\* Mutant of Fail: the thread dies without its except clause.
FailSilently(r) ==
  /\ pc[r] = "failing"
  /\ Goto(r, "done")
  /\ UNCHANGED <<bars, signals, status, stop, seen, created, feed, at, event, life>>

\* except: an exception at any point ends the run as FAILED.
Fail(r) ==
  /\ pc[r] = "failing"
  /\ SetStatus(r, "FAILED")
  /\ Goto(r, "done")
  /\ UNCHANGED <<bars, signals, stop, seen, created, feed, at, event, life>>

Thread(r) == \/ Begin(r) \/ Fetch(r) \/ NextBar(r) \/ LeaveLoop(r)
             \/ SaveRead(r) \/ SaveInsert(r) \/ DecideOnBar(r)
             \/ AppendRead(r) \/ AppendInsert(r) \/ Count(r)
             \/ End(r) \/ Fail(r)

\* The server dies and starts again: its daemon threads and the runs it
\* remembers are gone, what they stored is not.
Restart ==
  /\ \E r \in Run : pc[r] # "none"
  /\ life < MaxRestarts
  /\ life' = life + 1
  /\ status' = [r \in Run |-> "NONE"]
  /\ stop' = [r \in Run |-> FALSE]
  /\ seen' = [r \in Run |-> 0]
  /\ created' = [r \in Run |-> 0]
  /\ pc' = [r \in Run |-> "none"]
  /\ feed' = [r \in Run |-> NoFeed]
  /\ at' = [r \in Run |-> 0]
  /\ event' = [r \in Run |-> NoEvent]
  /\ UNCHANGED <<bars, signals>>

Next == \/ \E r \in Run : StartRun(r) \/ StopRun(r) \/ Thread(r)
        \/ Restart

Spec == Init /\ [][Next]_vars

\* A thread that can go on goes on: it waits for nothing but its lock, which
\* is held for single assignments, and for a request with a timeout.
FairSpec == Spec /\ \A r \in Run : WF_vars(Thread(r))

-----------------------------------------------------------------------------
(* Properties *)

AnEvent(e) == /\ e.id \in SignalId /\ e.run \in Run /\ e.life \in 0..life
              /\ DOMAIN e.window \subseteq Bar
              /\ \A b \in DOMAIN e.window : e.window[b] \in Content

\* Stores, run states and threads are of their types.
TypeOK ==
  /\ bars \in Feed
  /\ DOMAIN signals = SignalId
  /\ \A id \in SignalId : signals[id] # NoEvent => AnEvent(signals[id])
  /\ status \in [Run -> Status]
  /\ stop \in [Run -> BOOLEAN]
  /\ seen \in [Run -> 0..NumBars]
  /\ created \in [Run -> 0..NumBars]
  /\ pc \in [Run -> PC]
  /\ feed \in [Run -> Feed]
  /\ at \in [Run -> 0..NumBars]
  /\ DOMAIN event = Run
  /\ \A r \in Run : event[r] # NoEvent => AnEvent(event[r])
  /\ life \in 0..MaxRestarts

\* IF a signal is stored THEN its feature window is made of bars that are
\* stored, with the contents they are stored with: whatever runs raced, failed
\* or were killed, and however the provider revised its bars.
SignalsComeFromStoredBars ==
  \A id \in SignalId : signals[id] # NoEvent =>
    \A b \in DOMAIN signals[id].window : bars[b] = signals[id].window[b]

\* IF a run says COMPLETED THEN it left nothing out: every bar it was given is
\* stored and seen, and every signal they call for is stored, by this run.
CompletedMeansComplete ==
  \A r \in Run : status[r] = "COMPLETED" =>
    /\ seen[r] = Cardinality(Answered(feed[r]))
    /\ \A b \in Answered(feed[r]) :
         /\ bars[b] = feed[r][b]
         /\ HasCandidate(feed[r], b) =>
              /\ signals[IdOf(feed[r], b)] # NoEvent
              /\ signals[IdOf(feed[r], b)].run = r
              /\ signals[IdOf(feed[r], b)].life = life

\* The signals stored by a run are those it has counted, and the one it is
\* about to count: none was overwritten by another run.
StoredSignalsAreCounted ==
  \A r \in Run :
    Cardinality({id \in SignalId : /\ signals[id] # NoEvent
                                   /\ signals[id].run = r
                                   /\ signals[id].life = life})
      = created[r] + (IF pc[r] = "counting" THEN 1 ELSE 0)

\* A run that was told to stop before it ended does not end as COMPLETED,
\* even when it has no bar left, or shows RUNNING again after the request.
StopIsNotLost ==
  [][\A r \in Run : stop[r] /\ status[r] \notin Terminal => status'[r] # "COMPLETED"]_vars

\* The status of a run that has ended does not change while the server lives,
\* however often it is told to stop.
EndedStaysEnded ==
  [][\A r \in Run : pc[r] = "done" /\ life' = life => status'[r] = status[r]]_vars

\* A run that is started ends and says so, unless the server dies.
StartedRunsEnd ==
  \A r \in Run : status[r] = "STARTING" ~> (status[r] \in Terminal \/ status[r] = "NONE")

-----------------------------------------------------------------------------
(* What readers of the stores rely on *)

\* The contents of some bars, as pairs of a time and a content.
BarsOf(window) == {<<b, window[b]>> : b \in DOMAIN window}

Recorded(e) == [id |-> e.id, event |-> e, bars |-> BarsOf(e.window)]

\* What run r has to store of the bars f: all, and the signals they call for.
PlanOf(r, f) ==
  LET called == {b \in Answered(f) : HasCandidate(f, b)} IN
  [bars |-> BarsOf([b \in Answered(f) |-> f[b]]),
   signals |-> {Recorded(Event(IdOf(f, b), r, Window(f, b))) : b \in called}]

Plans == [r \in Run |-> PlanOf(r, feed[r])]

\* A run is idle until it is started, and then running until its thread ends.
Phase(r) == IF pc[r] = "none" THEN "idle" ELSE IF pc[r] = "done" THEN status[r] ELSE "running"

Phases == [r \in Run |-> Phase(r)]

AskedToStop == {r \in Run : stop[r]}

StoredBars == BarsOf([b \in Answered(bars) |-> bars[b]])

StoredSignals == {Recorded(signals[id]) : id \in {i \in SignalId : signals[i] # NoEvent}}

Contract == INSTANCE RecordedRuns
  WITH phase <- Phases, asked <- AskedToStop, plan <- Plans, bars <- StoredBars,
       signals <- StoredSignals

\* Any number of runs that race for the stores, are stopped, fail or are killed
\* keep the contract of RecordedRuns: what they store is written once and called
\* for, and COMPLETED and STOPPED mean what they say.
ImplementsContract == Contract!Spec

\* The same signal for the same market data is accepted again from a later run
\* (src/quant_signal_system/contracts/signals.py:138): append_signal does not
\* refuse an event made of the same feature window as the one that is stored.
SameSignalIsDeduplicated ==
  [][\A r \in Run :
       /\ pc[r] = "appending"
       /\ signals[event[r].id] # NoEvent
       /\ signals[event[r].id].window = event[r].window
       => pc'[r] # "failing"]_vars
==========================================================================
