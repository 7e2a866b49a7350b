-------------------------- MODULE RecordedRuns --------------------------
(***************************************************************************)
(* What a run over market data promises to those who read its stores: bars  *)
(* and signals are written once, a signal only after the bars it was made   *)
(* of and only if the run's own bars call for it, and a run that says       *)
(* COMPLETED has stored all that they call for.  Nothing here speaks of     *)
(* loops, threads, universes or the order of the work.  BacktestRun is      *)
(* shown to implement it with one run, ShadowRuns with any number that      *)
(* share their stores.                                                      *)
(***************************************************************************)
CONSTANT Run  \* the runs

VARIABLES
  phase,   \* where each run is: idle, running, or how it ended
  asked,   \* the runs that were told to stop
  plan,    \* what each run has to store: bars, and the signals they call for
  bars,    \* the bars that are stored: pairs of a key and its content
  signals  \* the signals that are stored, each with the bars it is made of

vars == <<phase, asked, plan, bars, signals>>

NoPlan == [bars |-> {}, signals |-> {}]

\* The signals of a plan are made of its bars.
IsPlan(p) == UNION {s.bars : s \in p.signals} \subseteq p.bars

Init == /\ phase = [r \in Run |-> "idle"]
        /\ asked = {}
        /\ plan = [r \in Run |-> NoPlan]
        /\ bars = {}
        /\ signals = {}

Moves(r, to) == phase' = [phase EXCEPT ![r] = to]

\* The run learns what it has to store, once.
Learns(r) == /\ plan[r] = NoPlan
             /\ IsPlan(plan'[r])
             /\ plan' = [plan EXCEPT ![r] = plan'[r]]

\* A run begins, with its bars or without.
Begin(r) ==
  /\ phase[r] = "idle" /\ Moves(r, "running")
  /\ Learns(r)
  /\ UNCHANGED <<asked, bars, signals>>

\* It is given its bars.
Fetch(r) ==
  /\ phase[r] = "running" /\ Learns(r)
  /\ UNCHANGED <<phase, asked, bars, signals>>

\* A bar is stored under a key that has none.
StoreBar(r) ==
  /\ phase[r] = "running"
  /\ \E new \in bars' \ bars : /\ bars' = bars \cup {new}
                               /\ \A b \in bars : b[1] # new[1]
                               /\ new \in plan[r].bars
  /\ UNCHANGED <<phase, asked, plan, signals>>

\* A signal is stored under an id that has none; its bars are.
StoreSignal(r) ==
  /\ phase[r] = "running"
  /\ \E new \in signals' \ signals : /\ signals' = signals \cup {new}
                                     /\ \A s \in signals : s.id # new.id
                                     /\ new.bars \subseteq bars
                                     /\ new \in plan[r].signals
  /\ UNCHANGED <<phase, asked, plan, bars>>

\* A run is told to stop, in time or not.
Ask(r) ==
  /\ phase[r] # "idle"
  /\ asked' = asked \cup {r}
  /\ UNCHANGED <<phase, plan, bars, signals>>

\* Nothing is left out.
Complete(r) ==
  /\ phase[r] = "running" /\ r \notin asked
  /\ Moves(r, "COMPLETED")
  /\ plan[r].bars \subseteq bars /\ plan[r].signals \subseteq signals
  /\ UNCHANGED <<asked, plan, bars, signals>>

Stop(r) ==
  /\ phase[r] = "running" /\ r \in asked
  /\ Moves(r, "STOPPED")
  /\ UNCHANGED <<asked, plan, bars, signals>>

\* A run fails at any point, even before it has begun.
Fail(r) ==
  /\ phase[r] \in {"idle", "running"}
  /\ Moves(r, "FAILED")
  /\ UNCHANGED <<asked, plan, bars, signals>>

\* The process dies: the stores are what remains.
Forget ==
  /\ phase' = [r \in Run |-> "idle"]
  /\ asked' = {}
  /\ plan' = [r \in Run |-> NoPlan]
  /\ UNCHANGED <<bars, signals>>

Next == \/ \E r \in Run : \/ Begin(r) \/ Fetch(r) \/ StoreBar(r) \/ StoreSignal(r)
                          \/ Ask(r) \/ Complete(r) \/ Stop(r) \/ Fail(r)
        \/ Forget

Spec == Init /\ [][Next]_vars
==========================================================================
