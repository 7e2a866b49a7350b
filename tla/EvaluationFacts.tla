------------------------- MODULE EvaluationFacts -------------------------
(***************************************************************************)
(* What the evaluation pipeline promises to the reports that read it: for  *)
(* each task (a signal and a horizon) at most one SignalEvaluation, written *)
(* once and never rewritten, and a task counted as finished only when its  *)
(* evaluation is a final one.  Nothing here speaks of workers, leases or   *)
(* time.  EvaluationTasks is shown to implement it.                        *)
(***************************************************************************)
CONSTANTS
  Task,     \* the evaluation tasks
  Fact,     \* the evaluations that may be stored
  Settled,  \* those with status COMPLETED or CENSORED
  NoFact    \* no evaluation is stored

VARIABLES
  fact,     \* what signal_evaluations holds for each task
  finished  \* the tasks marked COMPLETED

vars == <<fact, finished>>

Init == /\ fact = [t \in Task |-> NoFact]
        /\ finished = {}

\* The evaluation of a task is stored; there was none.
Record(t) ==
  /\ fact[t] = NoFact
  /\ \E f \in Fact : fact' = [fact EXCEPT ![t] = f]
  /\ UNCHANGED finished

\* A task with a final evaluation is marked finished.
Finish(t) ==
  /\ fact[t] \in Settled
  /\ finished' = finished \cup {t}
  /\ UNCHANGED fact

\* A late worker may take a finished task up again; its evaluation stays.
Reopen(t) ==
  /\ finished' = finished \ {t}
  /\ UNCHANGED fact

Next == \E t \in Task : Record(t) \/ Finish(t) \/ Reopen(t)

Spec == Init /\ [][Next]_vars
==========================================================================
