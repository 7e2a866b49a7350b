------------------------- MODULE EvaluationTasks -------------------------
(***************************************************************************)
(* The table of evaluation tasks and the workers that drain it: the task   *)
(* store of signals/sqlite_repository.py, SignalEvaluator.evaluate and the *)
(* sequence of calls  find -> claim -> evaluate -> upsert -> complete or    *)
(* postpone  that the tests and docs/architecture/module-design.md 5.2      *)
(* prescribe for a worker.                                                 *)
(*                                                                         *)
(* Every repository method opens its own connection, so the steps of two   *)
(* workers interleave between a method's SELECT and its UPDATE: claim,      *)
(* complete_task, postpone_task and upsert_evaluation are two steps each.   *)
(*                                                                         *)
(* Time is kept as what is left of each deadline, so that it needs no       *)
(* bound: due, lease and retry count down to 0, and "deadline <= now" is    *)
(* "counter = 0".  attempts, claimed_at, worker_id and last_error are read  *)
(* by no guard and are left out.                                           *)
(***************************************************************************)
EXTENDS Naturals, FiniteSets

CONSTANTS
  Task,       \* task keys (signal, horizon, policy and data versions)
  Worker,     \* worker processes
  DueIn,      \* ticks from the creation of a task to its due_time
  Lease,      \* lease_seconds, in ticks
  RetryDelay, \* next_retry_at - now of a postponed task, in ticks
  MaxPath,    \* bars in the window of a task
  Fillable,   \* tasks whose first bar is neither HALTED nor CLOSED
  LastStamp,  \* clock readings are 0..LastStamp, reused once forgotten
  PersistUnavailable, \* does the worker store POSTPONED evaluations too?
  MaxCrashes  \* bound on worker crashes

ASSUME TasksAssumption ==
  /\ DueIn \in [Task -> Nat]
  /\ Lease \in Nat
  /\ RetryDelay \in Nat
  /\ MaxPath \in Nat
  /\ Fillable \subseteq Task
  /\ LastStamp \in Nat
  /\ PersistUnavailable \in BOOLEAN
  /\ MaxCrashes \in Nat

VARIABLES
  task,       \* evaluation_tasks: the row of each task key
  evaluation, \* signal_evaluations: the row of each task key
  path,       \* number of bars of the task's window already persisted
  clock,      \* the reading of the clock (compared for equality only)
  pc,         \* where each worker is
  cur,        \* the tasks in each worker's hands (one, or none)
  held,       \* the EvaluationTask object in each worker's hands
  result,     \* the SignalEvaluation each worker computed
  crashes     \* crashes so far

vars == <<task, evaluation, path, clock, pc, cur, held, result, crashes>>

-----------------------------------------------------------------------------
(* Data *)

TaskStatus == {"ABSENT", "PENDING", "RUNNING", "COMPLETED", "POSTPONED"}

\* A row of evaluation_tasks; status ABSENT means there is none.
TaskRow == [status : TaskStatus, due : Nat, lease : Nat, retry : Nat]

NoRow == [status |-> "ABSENT", due |-> 0, lease |-> 0, retry |-> 0]

NewRow(t) == [status |-> "PENDING", due |-> DueIn[t], lease |-> 0, retry |-> 0]

Stamp == 0..LastStamp

\* A SignalEvaluation: its status, the number of bars it was computed from
\* (which stands for all its prices and returns) and created_at.
Evaluation == [status : {"POSTPONED", "CENSORED", "COMPLETED"},
               path : 0..MaxPath, created : Stamp]

NoEvaluation == [status |-> "NONE", path |-> 0, created |-> 0]

Final(e) == e.status \in {"COMPLETED", "CENSORED"}

\* A counter of remaining time after one tick.
Less(n) == IF n = 0 THEN 0 ELSE n - 1

Elapse(row) == [row EXCEPT !.due = Less(row.due), !.lease = Less(row.lease),
                           !.retry = Less(row.retry)]

-----------------------------------------------------------------------------
(* What the repository answers *)

\* Mutant of IsDue: the query forgets "due_time <= ?".
IsDueIgnoringDueTime(row) == row.status \in {"PENDING", "POSTPONED"} /\ row.retry = 0

\* find_due_tasks
IsDue(row) == /\ row.status \in {"PENDING", "POSTPONED"}
              /\ row.due = 0
              /\ row.retry = 0

\* Mutant of LeaseExpired: the scan asks for POSTPONED rows, not RUNNING ones.
LeaseExpiredOfPostponed(row) == row.status = "POSTPONED" /\ row.lease = 0

\* find_expired_leases
LeaseExpired(row) == row.status = "RUNNING" /\ row.lease = 0

\* The refusal of claim: another lease is still active.
Leased(row) == row.status = "RUNNING" /\ row.lease > 0

Claimed(row) == [row EXCEPT !.status = "RUNNING", !.lease = Lease]

Completed(row) == [row EXCEPT !.status = "COMPLETED"]

\* Mutant of Postponed: replace() sets next_retry_at and forgets the status.
PostponedAsItWas(row) == [row EXCEPT !.retry = RetryDelay]

Postponed(row) == [row EXCEPT !.status = "POSTPONED", !.retry = RetryDelay]

\* Mutant of Evaluated: "if not path" is missing.
EvaluatedWithoutBars(t) ==
  [status |-> IF t \in Fillable THEN "COMPLETED" ELSE "CENSORED",
   path |-> path[t], created |-> clock]

\* SignalEvaluator.evaluate: no bar, an unexecutable fill, or an evaluation.
Evaluated(t) == [status  |-> IF path[t] = 0 THEN "POSTPONED"
                             ELSE IF t \in Fillable THEN "COMPLETED"
                             ELSE "CENSORED",
                 path    |-> path[t],
                 created |-> clock]

-----------------------------------------------------------------------------
(* Workers *)

Idle == "idle"
Working == {"evaluating", "storing", "inserting"}
PC == {Idle, "found", "claiming", "completing", "postponing", "finishing",
       "conflict"} \cup Working

Mine(w, t) == cur[w] = {t}

Goto(w, label) == pc' = [pc EXCEPT ![w] = label]

\* The worker lets go of its task and of what it computed.
Forget(w) == /\ Goto(w, Idle)
             /\ cur' = [cur EXCEPT ![w] = {}]
             /\ held' = [held EXCEPT ![w] = NoRow]
             /\ result' = [result EXCEPT ![w] = NoEvaluation]

\* What a worker does once its evaluation is stored.
AfterStore(w) == Goto(w, IF Final(result[w]) THEN "completing" ELSE "postponing")

Init == /\ task = [t \in Task |-> NoRow]
        /\ evaluation = [t \in Task |-> NoEvaluation]
        /\ path = [t \in Task |-> 0]
        /\ clock = 0
        /\ pc = [w \in Worker |-> Idle]
        /\ cur = [w \in Worker |-> {}]
        /\ held = [w \in Worker |-> NoRow]
        /\ result = [w \in Worker |-> NoEvaluation]
        /\ crashes = 0

\* Mutant of InsertOrIgnore: INSERT OR REPLACE.
InsertOrReplace(t) == NewRow(t)

\* upsert_task: insert or ignore.  It runs again for a task that exists when
\* the tasks of a signal are created twice, and then changes nothing.
InsertOrIgnore(t) == IF task[t].status = "ABSENT" THEN NewRow(t) ELSE task[t]

UpsertTask(t) ==
  /\ task' = [task EXCEPT ![t] = InsertOrIgnore(t)]
  /\ UNCHANGED <<evaluation, path, clock, pc, cur, held, result, crashes>>

\* A worker picks a task out of find_due_tasks or find_expired_leases.
Discover(w, t) ==
  /\ pc[w] = Idle
  /\ IsDue(task[t]) \/ LeaseExpired(task[t])
  /\ Goto(w, "found")
  /\ cur' = [cur EXCEPT ![w] = {t}]
  /\ UNCHANGED <<task, evaluation, path, clock, held, result, crashes>>

\* claim refuses: SignalConflictError, and the worker looks for other work.
ClaimRefused(w, t) ==
  /\ pc[w] = "found" /\ Mine(w, t)
  /\ Leased(task[t])
  /\ Forget(w)
  /\ UNCHANGED <<task, evaluation, path, clock, crashes>>

\* claim reads the row and builds the claimed one.
ClaimRead(w, t) ==
  /\ pc[w] = "found" /\ Mine(w, t)
  /\ ~Leased(task[t])
  /\ held' = [held EXCEPT ![w] = Claimed(task[t])]
  /\ Goto(w, "claiming")
  /\ UNCHANGED <<task, evaluation, path, clock, cur, result, crashes>>

\* claim writes it with _replace_task, whatever the row has become.
ClaimWrite(w, t) ==
  /\ pc[w] = "claiming" /\ Mine(w, t)
  /\ task' = [task EXCEPT ![t] = held[w]]
  /\ Goto(w, "evaluating")
  /\ UNCHANGED <<evaluation, path, clock, cur, held, result, crashes>>

\* Mutant of Evaluate: the task is marked before its evaluation is stored.
EvaluateAndComplete(w, t) ==
  /\ pc[w] = "evaluating" /\ Mine(w, t)
  /\ result' = [result EXCEPT ![w] = Evaluated(t)]
  /\ Goto(w, IF Final(Evaluated(t)) THEN "completing" ELSE "postponing")
  /\ UNCHANGED <<task, evaluation, path, clock, cur, held, crashes>>

Evaluate(w, t) ==
  /\ pc[w] = "evaluating" /\ Mine(w, t)
  /\ result' = [result EXCEPT ![w] = Evaluated(t)]
  /\ Goto(w, IF Final(Evaluated(t)) \/ PersistUnavailable
             THEN "storing" ELSE "postponing")
  /\ UNCHANGED <<task, evaluation, path, clock, cur, held, crashes>>

\* upsert_evaluation reads the row of the evaluation key.
UpsertRead(w, t) ==
  /\ pc[w] = "storing" /\ Mine(w, t)
  /\ \/ /\ evaluation[t] = NoEvaluation
        /\ Goto(w, "inserting")
     \/ /\ evaluation[t] = result[w]
        /\ AfterStore(w)
     \/ /\ evaluation[t] \notin {NoEvaluation, result[w]}
        /\ Goto(w, "conflict")
  /\ UNCHANGED <<task, evaluation, path, clock, cur, held, result, crashes>>

\* Mutant of UpsertInsert: INSERT OR REPLACE.
UpsertReplace(w, t) ==
  /\ pc[w] = "inserting" /\ Mine(w, t)
  /\ evaluation' = [evaluation EXCEPT ![t] = result[w]]
  /\ AfterStore(w)
  /\ UNCHANGED <<task, path, clock, cur, held, result, crashes>>

\* upsert_evaluation inserts; the primary key refuses a second row.
UpsertInsert(w, t) ==
  /\ pc[w] = "inserting" /\ Mine(w, t)
  /\ IF evaluation[t] = NoEvaluation
       THEN /\ evaluation' = [evaluation EXCEPT ![t] = result[w]]
            /\ AfterStore(w)
       ELSE /\ Goto(w, "conflict")
            /\ UNCHANGED evaluation
  /\ UNCHANGED <<task, path, clock, cur, held, result, crashes>>

\* The exception of a refused write ends the worker's attempt.
Abandon(w) ==
  /\ pc[w] = "conflict"
  /\ Forget(w)
  /\ UNCHANGED <<task, evaluation, path, clock, crashes>>

\* complete_task and postpone_task read the row: neither looks at who holds
\* the lease or whether it is still running.
CompleteRead(w, t) ==
  /\ pc[w] = "completing" /\ Mine(w, t)
  /\ held' = [held EXCEPT ![w] = Completed(task[t])]
  /\ Goto(w, "finishing")
  /\ UNCHANGED <<task, evaluation, path, clock, cur, result, crashes>>

PostponeRead(w, t) ==
  /\ pc[w] = "postponing" /\ Mine(w, t)
  /\ held' = [held EXCEPT ![w] = Postponed(task[t])]
  /\ Goto(w, "finishing")
  /\ UNCHANGED <<task, evaluation, path, clock, cur, result, crashes>>

\* ... and write it back with _replace_task.
FinishWrite(w, t) ==
  /\ pc[w] = "finishing" /\ Mine(w, t)
  /\ task' = [task EXCEPT ![t] = held[w]]
  /\ Forget(w)
  /\ UNCHANGED <<evaluation, path, clock, crashes>>

\* A worker dies; it comes back with nothing in memory.
Crash(w) ==
  /\ pc[w] # Idle
  /\ crashes < MaxCrashes
  /\ crashes' = crashes + 1
  /\ Forget(w)
  /\ UNCHANGED <<task, evaluation, path, clock>>

-----------------------------------------------------------------------------
(* The environment *)

\* The readings of the clock that something still remembers.
Remembered == {evaluation[t].created : t \in Task} \cup
              {result[w].created : w \in Worker}

\* Time passes: every deadline is nearer, the clock shows a new reading.
Tick ==
  /\ \E s \in Stamp \ Remembered :
       /\ \A r \in Stamp \ Remembered : s <= r
       /\ clock' = s
  /\ task' = [t \in Task |-> Elapse(task[t])]
  /\ held' = [w \in Worker |-> Elapse(held[w])]
  /\ UNCHANGED <<evaluation, path, pc, cur, result, crashes>>

\* A bar of the task's window is persisted by save_bar, on time or late.
BarArrives(t) ==
  /\ path[t] < MaxPath
  /\ path' = [path EXCEPT ![t] = path[t] + 1]
  /\ UNCHANGED <<task, evaluation, clock, pc, cur, held, result, crashes>>

Step(w, t) == \/ ClaimRefused(w, t) \/ ClaimRead(w, t) \/ ClaimWrite(w, t)
              \/ Evaluate(w, t) \/ UpsertRead(w, t) \/ UpsertInsert(w, t)
              \/ CompleteRead(w, t) \/ PostponeRead(w, t) \/ FinishWrite(w, t)

Next == \/ \E t \in Task : UpsertTask(t) \/ BarArrives(t)
        \/ \E w \in Worker, t \in Task : Discover(w, t)
        \/ \E w \in Worker, t \in Task : Step(w, t)
        \/ \E w \in Worker : Abandon(w) \/ Crash(w)
        \/ Tick

Spec == Init /\ [][Next]_vars

(* Fairness: a worker that has started a task goes on, the loop of some      *)
(* worker comes round to every task that find_due_tasks or                   *)
(* find_expired_leases keeps returning (it walks the whole list, so strong   *)
(* fairness), time passes and the missing bars arrive.  Nothing makes a      *)
(* crash or the creation of a task happen.                                   *)
Fairness ==
  /\ WF_vars(Tick)
  /\ \A t \in Task : /\ WF_vars(BarArrives(t))
                     /\ SF_vars(\E w \in Worker : Discover(w, t))
  /\ \A w \in Worker : /\ WF_vars(\E t \in Task : Step(w, t))
                       /\ WF_vars(Abandon(w))

FairSpec == Spec /\ Fairness

-----------------------------------------------------------------------------
(* Properties *)

\* The object a worker is about to write back, or has decided to make, fits
\* the evaluation it computed: COMPLETED for a final one, POSTPONED otherwise.
HandsFit(w) ==
  /\ pc[w] \in {"storing", "inserting"} => result[w] # NoEvaluation
  /\ pc[w] = "claiming" => held[w].status = "RUNNING"
  /\ pc[w] = "completing" => Final(result[w])
  /\ pc[w] = "postponing" => result[w].status = "POSTPONED"
  /\ pc[w] = "finishing" =>
       held[w].status = IF Final(result[w]) THEN "COMPLETED" ELSE "POSTPONED"

\* Every row, object and computed evaluation is of its type; a worker outside
\* its idle loop has exactly one task in its hands, and the row it writes back
\* says of this task what its evaluation says, whatever other workers have
\* done to the row since (complete_task and postpone_task).
TypeOK ==
  /\ task \in [Task -> TaskRow]
  /\ evaluation \in [Task -> Evaluation \cup {NoEvaluation}]
  /\ path \in [Task -> 0..MaxPath]
  /\ clock \in Stamp
  /\ pc \in [Worker -> PC]
  /\ cur \in [Worker -> SUBSET Task]
  /\ held \in [Worker -> TaskRow]
  /\ result \in [Worker -> Evaluation \cup {NoEvaluation}]
  /\ crashes \in 0..MaxCrashes
  /\ \A w \in Worker : IF pc[w] = Idle THEN cur[w] = {}
                       ELSE \E t \in Task : cur[w] = {t}
  /\ \A w \in Worker : HandsFit(w)

\* IF a task is marked COMPLETED THEN its final evaluation is stored: with
\* stale objects being written back by two workers, complete_task still never
\* gets ahead of upsert_evaluation.
CompletedHasEvaluation ==
  \A t \in Task : task[t].status = "COMPLETED" => Final(evaluation[t])

\* IF an evaluation is stored, or a task was ever claimed, THEN the due_time
\* of the task has passed: no worker evaluates a window that is still open,
\* although claim itself does not look at due_time.
NeverEvaluatedEarly ==
  \A t \in Task :
    /\ evaluation[t] # NoEvaluation => task[t].due = 0
    /\ task[t].status \in {"RUNNING", "POSTPONED", "COMPLETED"} => task[t].due = 0

\* IF a final evaluation is stored THEN it was computed from at least one bar
\* and from no bar that is not persisted.
EvaluationsComeFromBars ==
  \A t \in Task : Final(evaluation[t]) => evaluation[t].path \in 1..path[t]

\* A step never sends a task that a worker has already taken back to PENDING,
\* nor does it remove a row: creating the tasks of a signal again is harmless.
TasksAreNeverReset ==
  [][\A t \in Task :
       /\ task[t].status # "ABSENT" => task'[t].status # "ABSENT"
       /\ task[t].status \in {"RUNNING", "POSTPONED", "COMPLETED"}
            => task'[t].status # "PENDING"]_vars

\* The worker holds the lease that its claim wrote, and it has not run out.
Holding(w, t) == pc[w] \in Working /\ Mine(w, t) /\ held[w].lease > 0

\* Two workers never hold a running lease on the same task
\* (docs/architecture/testing-and-evaluation.md:136).
LeaseIsExclusive ==
  \A w, v \in Worker, t \in Task : Holding(w, t) /\ Holding(v, t) => w = v

\* The pipeline implements the abstract one: evaluations are write-once facts
\* and the tasks marked COMPLETED are finished by a final one.
Facts == INSTANCE EvaluationFacts
           WITH Fact <- Evaluation, Settled <- {e \in Evaluation : Final(e)},
                NoFact <- NoEvaluation, fact <- evaluation,
                finished <- {t \in Task : task[t].status = "COMPLETED"}

ImplementsFacts == Facts!Spec

\* Every task that is created is eventually evaluated, whatever the workers'
\* races and crashes, once its bars arrive.
EventuallyEvaluated ==
  \A t \in Task : task[t].status # "ABSENT" ~> Final(evaluation[t])

\* A task whose evaluation is stored is eventually marked COMPLETED: the retry
\* of a worker that died in between finishes the job
\* (docs/architecture/testing-and-evaluation.md:129 and :135).
StoredTaskCompletes ==
  \A t \in Task : Final(evaluation[t]) ~> task[t].status = "COMPLETED"
==========================================================================
