------------------------ MODULE MCEvaluationTasks ------------------------
(* Small instances of EvaluationTasks for TLC. *)
EXTENDS EvaluationTasks, TLC

\* Every task is created one tick before its due_time.
MCDueIn == [t \in Task |-> 1]

\* Workers are interchangeable: no constant tells them apart.
WorkerSymmetry == Permutations(Worker)
==========================================================================
