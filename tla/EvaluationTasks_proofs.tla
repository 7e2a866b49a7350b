---------------------- MODULE EvaluationTasks_proofs ----------------------
(***************************************************************************)
(* Proofs about EvaluationTasks, for any number of tasks and workers, any   *)
(* lease, delays and bound on crashes.                                     *)
(***************************************************************************)
EXTENDS EvaluationTasks, TLAPS

-----------------------------------------------------------------------------
(* Rows and evaluations *)

\* Each update that the repository makes to a row gives a row.
LEMMA RowUpdates ==
  /\ NoRow \in TaskRow
  /\ \A t \in Task : NewRow(t) \in TaskRow
  /\ \A row \in TaskRow : /\ Claimed(row) \in TaskRow
                          /\ Completed(row) \in TaskRow
                          /\ Postponed(row) \in TaskRow
                          /\ Elapse(row) \in TaskRow
<1>1. NoRow \in TaskRow /\ \A t \in Task : NewRow(t) \in TaskRow
  BY TasksAssumption DEF TaskRow, TaskStatus, NoRow, NewRow
<1>2. ASSUME NEW row \in TaskRow
      PROVE  Claimed(row) \in TaskRow /\ Completed(row) \in TaskRow
  BY TasksAssumption DEF TaskRow, TaskStatus, Claimed, Completed
<1>3. ASSUME NEW row \in TaskRow
      PROVE  Postponed(row) \in TaskRow
  BY TasksAssumption DEF TaskRow, TaskStatus, Postponed
<1>4. ASSUME NEW row \in TaskRow
      PROVE  Elapse(row) \in TaskRow
  <2>1. \A n \in Nat : Less(n) \in Nat
    BY DEF Less
  <2> QED
    BY <2>1 DEF TaskRow, Elapse
<1> QED
  BY <1>1, <1>2, <1>3, <1>4

\* Only claim, complete_task and postpone_task change a status, and only the
\* passing of time changes due_time.
LEMMA RowFields ==
  ASSUME NEW row \in TaskRow
  PROVE  /\ Claimed(row).status = "RUNNING" /\ Claimed(row).due = row.due
         /\ Completed(row).status = "COMPLETED" /\ Completed(row).due = row.due
         /\ Postponed(row).status = "POSTPONED" /\ Postponed(row).due = row.due
         /\ Elapse(row).status = row.status
         /\ row.due = 0 => Elapse(row).due = 0
BY DEF TaskRow, Claimed, Completed, Postponed, Elapse, Less

\* The evaluation of a task is an evaluation, and a final one comes from bars.
LEMMA EvaluatedFields ==
  ASSUME path \in [Task -> 0..MaxPath], clock \in Stamp, NEW t \in Task
  PROVE  /\ Evaluated(t) \in Evaluation
         /\ Final(Evaluated(t)) => Evaluated(t).path \in 1..path[t]
BY TasksAssumption DEF Evaluated, Evaluation, Final

\* The absent evaluation is neither an evaluation nor a final one.
LEMMA NoEvaluationIsNone ==
  NoEvaluation \notin Evaluation /\ ~Final(NoEvaluation)
BY DEF NoEvaluation, Evaluation, Final

-----------------------------------------------------------------------------
(* Type correctness *)

\* TypeOK without what it says of the objects in the workers' hands.
FieldsTyped ==
  /\ task \in [Task -> TaskRow]
  /\ evaluation \in [Task -> Evaluation \cup {NoEvaluation}]
  /\ path \in [Task -> 0..MaxPath]
  /\ clock \in Stamp
  /\ pc \in [Worker -> PC]
  /\ cur \in [Worker -> SUBSET Task]
  /\ held \in [Worker -> TaskRow]
  /\ result \in [Worker -> Evaluation \cup {NoEvaluation}]
  /\ crashes \in 0..MaxCrashes
  /\ \A w \in Worker : IF pc[w] = Idle THEN cur[w] = {}
                       ELSE \E t \in Task : cur[w] = {t}

LEMMA TypesAndHands == TypeOK <=> FieldsTyped /\ \A w \in Worker : HandsFit(w)
BY DEF TypeOK, FieldsTyped

\* The first states are of their types.
LEMMA InitTypeOK == Init => TypeOK
<1> SUFFICES ASSUME Init PROVE FieldsTyped /\ \A w \in Worker : HandsFit(w)
  BY TypesAndHands
<1>1. FieldsTyped
  BY TasksAssumption, RowUpdates DEF Init, FieldsTyped, PC, Stamp, Idle
<1>2. \A w \in Worker : HandsFit(w)
  BY DEF Init, HandsFit, Idle
<1> QED
  BY <1>1, <1>2

\* Every step keeps the types of the variables.
LEMMA NextFieldsTyped == FieldsTyped /\ [Next]_vars => FieldsTyped'
<1> SUFFICES ASSUME FieldsTyped, [Next]_vars PROVE FieldsTyped'
  OBVIOUS
<1> USE DEF FieldsTyped, Goto, Mine
<1>1. CASE \E t \in Task : UpsertTask(t)
  BY <1>1, RowUpdates DEF UpsertTask, InsertOrIgnore
<1>2. CASE \E t \in Task : BarArrives(t)
  BY <1>2, TasksAssumption DEF BarArrives
<1>3. ASSUME NEW w \in Worker, NEW t \in Task, Discover(w, t)
      PROVE  FieldsTyped'
  BY <1>3 DEF Discover, PC, Idle, Working
<1>4. ASSUME NEW w \in Worker, Forget(w), task' \in [Task -> TaskRow],
             crashes' \in 0..MaxCrashes, UNCHANGED <<evaluation, path, clock>>
      PROVE  FieldsTyped'
  BY <1>4, RowUpdates DEF Forget, PC, Idle
<1>5. ASSUME NEW w \in Worker, NEW t \in Task, Step(w, t)
      PROVE  FieldsTyped'
  <2>1. CASE ClaimRefused(w, t)
    BY <2>1, <1>4 DEF ClaimRefused
  <2>2. CASE ClaimRead(w, t)
    BY <2>2, RowUpdates DEF ClaimRead, PC, Idle, Working
  <2>3. CASE ClaimWrite(w, t)
    BY <2>3 DEF ClaimWrite, PC, Idle, Working
  <2>4. CASE Evaluate(w, t)
    BY <2>4, EvaluatedFields DEF Evaluate, PC, Idle, Working
  <2>5. CASE UpsertRead(w, t)
    BY <2>5 DEF UpsertRead, AfterStore, PC, Idle, Working
  <2>6. CASE UpsertInsert(w, t)
    BY <2>6 DEF UpsertInsert, AfterStore, PC, Idle, Working
  <2>7. CASE CompleteRead(w, t)
    BY <2>7, RowUpdates DEF CompleteRead, PC, Idle, Working
  <2>8. CASE PostponeRead(w, t)
    BY <2>8, RowUpdates DEF PostponeRead, PC, Idle, Working
  <2>9. CASE FinishWrite(w, t)
    BY <2>9, <1>4 DEF FinishWrite
  <2> QED
    BY <1>5, <2>1, <2>2, <2>3, <2>4, <2>5, <2>6, <2>7, <2>8, <2>9 DEF Step
<1>6. CASE \E w \in Worker : Abandon(w)
  BY <1>6, <1>4 DEF Abandon
<1>7. ASSUME NEW w \in Worker, Crash(w)
      PROVE  FieldsTyped'
  <2>1. crashes' \in 0..MaxCrashes
    BY <1>7, TasksAssumption DEF Crash
  <2> QED
    BY <1>7, <1>4, <2>1 DEF Crash
<1>8. CASE Tick
  BY <1>8, RowUpdates DEF Tick
<1>9. CASE UNCHANGED vars
  BY <1>9 DEF vars
<1> QED
  BY <1>1, <1>2, <1>3, <1>5, <1>6, <1>7, <1>8, <1>9 DEF Next

\* One worker moves and its hands fit: the hands of the others still do.
LEMMA HandsStay ==
  ASSUME TypeOK, NEW w \in Worker, HandsFit(w)',
         \A v \in Worker \ {w} : /\ pc'[v] = pc[v] /\ held'[v] = held[v]
                                 /\ result'[v] = result[v]
  PROVE  \A v \in Worker : HandsFit(v)'
BY DEF TypeOK, HandsFit

\* A worker that lets go of everything has nothing in its hands.
LEMMA ForgetFits ==
  ASSUME TypeOK, NEW w \in Worker, Forget(w)
  PROVE  \A v \in Worker : HandsFit(v)'
<1>1. /\ pc'[w] = Idle
      /\ \A v \in Worker \ {w} : /\ pc'[v] = pc[v] /\ held'[v] = held[v]
                                 /\ result'[v] = result[v]
  BY DEF TypeOK, Forget, Goto
<1>2. HandsFit(w)'
  BY <1>1 DEF HandsFit, Idle
<1> QED
  BY <1>1, <1>2, HandsStay

\* What a worker reads, computes and decides fits what it goes on to do.
LEMMA StepFits ==
  ASSUME TypeOK, NEW w \in Worker, NEW t \in Task, Step(w, t)
  PROVE  \A v \in Worker : HandsFit(v)'
<1> USE DEF Goto
<1>t. FieldsTyped /\ HandsFit(w)
  BY TypesAndHands
<1>1. CASE ClaimRefused(w, t) \/ FinishWrite(w, t)
  BY <1>1, ForgetFits DEF ClaimRefused, FinishWrite
<1>2. CASE ClaimRead(w, t) \/ CompleteRead(w, t) \/ PostponeRead(w, t)
  <2>1. /\ result' = result
        /\ \A v \in Worker \ {w} : pc'[v] = pc[v] /\ held'[v] = held[v]
        /\ \/ pc'[w] = "claiming" /\ held'[w] = Claimed(task[t])
           \/ /\ pc[w] = "completing" /\ pc'[w] = "finishing"
              /\ held'[w] = Completed(task[t])
           \/ /\ pc[w] = "postponing" /\ pc'[w] = "finishing"
              /\ held'[w] = Postponed(task[t])
    BY <1>2, <1>t DEF FieldsTyped, ClaimRead, CompleteRead, PostponeRead
  <2>2. task[t] \in TaskRow
    BY <1>t DEF FieldsTyped
  <2>3. HandsFit(w)'
    BY <2>1, <2>2, <1>t, RowFields DEF HandsFit, Final
  <2> QED
    BY <2>1, <2>3, HandsStay
<1>3. CASE ClaimWrite(w, t) \/ Evaluate(w, t)
  <2>1. /\ held' = held
        /\ \A v \in Worker \ {w} : pc'[v] = pc[v] /\ result'[v] = result[v]
        /\ \/ pc'[w] = "evaluating"
           \/ pc'[w] = "storing" /\ result'[w] = Evaluated(t)
           \/ /\ pc'[w] = "postponing" /\ result'[w] = Evaluated(t)
              /\ ~Final(Evaluated(t))
    BY <1>3, <1>t DEF FieldsTyped, ClaimWrite, Evaluate
  <2>2. HandsFit(w)'
    BY <2>1, <1>t, EvaluatedFields, NoEvaluationIsNone
       DEF FieldsTyped, HandsFit, Final, Evaluation
  <2> QED
    BY <2>1, <2>2, HandsStay
<1>4. CASE UpsertRead(w, t) \/ UpsertInsert(w, t)
  <2>1. /\ held' = held /\ result' = result
        /\ \A v \in Worker \ {w} : pc'[v] = pc[v]
        /\ pc[w] \in {"storing", "inserting"}
        /\ \/ pc'[w] \in {"inserting", "conflict"}
           \/ pc'[w] = IF Final(result[w]) THEN "completing" ELSE "postponing"
    BY <1>4, <1>t DEF FieldsTyped, UpsertRead, UpsertInsert, AfterStore
  <2>2. result[w] \in Evaluation
    BY <2>1, <1>t DEF FieldsTyped, HandsFit
  <2>3. HandsFit(w)'
    BY <2>1, <2>2, NoEvaluationIsNone DEF HandsFit, Final, Evaluation
  <2> QED
    BY <2>1, <2>3, HandsStay
<1> QED
  BY <1>1, <1>2, <1>3, <1>4 DEF Step

\* Every step keeps the types, and what is in the workers' hands fits.
LEMMA NextTypeOK == TypeOK /\ [Next]_vars => TypeOK'
<1>0. (FieldsTyped /\ (\A w \in Worker : HandsFit(w)) => TypeOK)'
  BY DEF TypeOK, FieldsTyped
<1> SUFFICES ASSUME TypeOK, [Next]_vars PROVE \A w \in Worker : HandsFit(w)'
  BY <1>0, TypesAndHands, NextFieldsTyped
<1>1. FieldsTyped /\ \A w \in Worker : HandsFit(w)
  BY TypesAndHands
<1>2. ASSUME UNCHANGED <<pc, held, result>>
      PROVE  \A w \in Worker : HandsFit(w)'
  BY <1>1, <1>2 DEF HandsFit
<1>3. CASE \E t \in Task : UpsertTask(t) \/ BarArrives(t)
  BY <1>3, <1>2 DEF UpsertTask, BarArrives
<1>4. ASSUME NEW w \in Worker, NEW t \in Task, Discover(w, t)
      PROVE  \A v \in Worker : HandsFit(v)'
  <2>1. /\ pc'[w] = "found" /\ UNCHANGED <<held, result>>
        /\ \A v \in Worker \ {w} : pc'[v] = pc[v]
    BY <1>1, <1>4 DEF FieldsTyped, Discover, Goto
  <2>2. HandsFit(w)'
    BY <2>1 DEF HandsFit
  <2> QED
    BY <2>1, <2>2, HandsStay
<1>5. CASE \E w \in Worker, t \in Task : Step(w, t)
  BY <1>5, StepFits
<1>6. CASE \E w \in Worker : Abandon(w) \/ Crash(w)
  BY <1>6, ForgetFits DEF Abandon, Crash
<1>7. CASE Tick
  <2>1. /\ UNCHANGED <<pc, result>>
        /\ \A w \in Worker : held'[w].status = held[w].status
    BY <1>1, <1>7, RowFields DEF FieldsTyped, Tick
  <2> QED
    BY <1>1, <2>1 DEF HandsFit
<1>8. CASE UNCHANGED vars
  BY <1>8, <1>2 DEF vars
<1> QED
  BY <1>3, <1>4, <1>5, <1>6, <1>7, <1>8 DEF Next

\* Rows, objects in the workers' hands and evaluations keep their types for
\* any number of tasks and workers.
THEOREM TypeCorrect == Spec => []TypeOK
BY InitTypeOK, NextTypeOK, PTL DEF Spec

-----------------------------------------------------------------------------
(* The inductive invariant.  CompletedHasEvaluation is not inductive: what a  *)
(* worker writes back was decided earlier, so the invariant says of every     *)
(* place a worker can be in what its next write may rely on.                  *)

Taken == {"RUNNING", "POSTPONED", "COMPLETED"}

\* What worker w knows about the task t in its hands.
Knows(w, t) ==
  /\ task[t].status # "ABSENT"
  /\ task[t].due = 0
  /\ pc[w] = "claiming" => held[w].status = "RUNNING"
  /\ pc[w] \in {"storing", "inserting"} =>
       /\ result[w] \in Evaluation
       /\ Final(result[w]) => result[w].path \in 1..path[t]
  /\ pc[w] = "completing" => Final(evaluation[t])
  /\ pc[w] = "finishing" =>
       /\ held[w].status \in {"POSTPONED", "COMPLETED"}
       /\ held[w].status = "COMPLETED" => Final(evaluation[t])

WorkersKnow == \A w \in Worker : /\ held[w].due = 0
                                 /\ \A t \in Task : Mine(w, t) => Knows(w, t)

\* An evaluation is stored only for a task that was created.
EvaluationsHaveTasks ==
  \A t \in Task : evaluation[t] # NoEvaluation => task[t].status # "ABSENT"

TasksInv == /\ TypeOK
            /\ EvaluationsHaveTasks
            /\ CompletedHasEvaluation
            /\ NeverEvaluatedEarly
            /\ EvaluationsComeFromBars
            /\ WorkersKnow

\* Without rows and evaluations the invariant holds.
LEMMA InitTasksInv == Init => TasksInv
BY InitTypeOK, NoEvaluationIsNone
   DEF Init, TasksInv, CompletedHasEvaluation, NeverEvaluatedEarly,
       EvaluationsComeFromBars, EvaluationsHaveTasks, WorkersKnow, Mine, NoRow

\* A worker with a task in its hands is not idle.
LEMMA BusyWorker ==
  ASSUME TypeOK, NEW w \in Worker, NEW t \in Task, Mine(w, t)
  PROVE  pc[w] # Idle /\ \A u \in Task : Mine(w, u) => u = t
BY DEF TypeOK, Mine

\* A step that only moves worker w, and leaves the tables alone, keeps the
\* invariant as soon as it keeps what w itself knows.
LEMMA OneWorkerMoves ==
  ASSUME TasksInv, TypeOK', NEW w \in Worker,
         UNCHANGED <<task, evaluation, path>>,
         \A v \in Worker \ {w} : /\ pc'[v] = pc[v] /\ cur'[v] = cur[v]
                                 /\ held'[v] = held[v] /\ result'[v] = result[v],
         held'[w].due = 0,
         \A t \in Task : Mine(w, t)' => Knows(w, t)'
  PROVE  TasksInv'
<1>1. (/\ CompletedHasEvaluation /\ NeverEvaluatedEarly
        /\ EvaluationsComeFromBars /\ EvaluationsHaveTasks)'
  BY DEF TasksInv, CompletedHasEvaluation, NeverEvaluatedEarly,
         EvaluationsComeFromBars, EvaluationsHaveTasks
<1>2. ASSUME NEW v \in Worker
      PROVE  held'[v].due = 0 /\ \A t \in Task : Mine(v, t)' => Knows(v, t)'
  <2>1. CASE v = w
    BY <2>1
  <2>2. CASE v # w
    BY <2>2 DEF TasksInv, WorkersKnow, Mine, Knows
  <2> QED
    BY <2>1, <2>2
<1> QED
  BY <1>1, <1>2 DEF TasksInv, WorkersKnow

\* A worker that lets go of its task while the tables stay as they are.
LEMMA ForgetKeepsInv ==
  ASSUME TasksInv, TypeOK', NEW w \in Worker, Forget(w),
         UNCHANGED <<task, evaluation, path>>
  PROVE  TasksInv'
<1>1. /\ held'[w].due = 0
      /\ \A t \in Task : ~Mine(w, t)'
      /\ \A v \in Worker \ {w} : /\ pc'[v] = pc[v] /\ cur'[v] = cur[v]
                                 /\ held'[v] = held[v] /\ result'[v] = result[v]
  BY DEF Forget, Goto, Mine, NoRow, TasksInv, TypeOK
<1> QED
  BY <1>1, OneWorkerMoves

\* The row of task t is replaced by one that keeps due_time, and either is
\* not COMPLETED or has its final evaluation.
LEMMA WriteKeepsInv ==
  ASSUME TasksInv, TypeOK', NEW w \in Worker, NEW t \in Task,
         task' = [task EXCEPT ![t] = held[w]],
         held[w].status \in Taken,
         held[w].status = "COMPLETED" => Final(evaluation[t]),
         UNCHANGED <<evaluation, path>>,
         \A v \in Worker \ {w} : /\ pc'[v] = pc[v] /\ cur'[v] = cur[v]
                                 /\ held'[v] = held[v] /\ result'[v] = result[v],
         held'[w].due = 0,
         \A u \in Task : Mine(w, u)' => Knows(w, u)'
  PROVE  TasksInv'
<1>1. held[w].due = 0
  BY DEF TasksInv, WorkersKnow
<1>2. /\ task'[t] = held[w]
      /\ \A u \in Task \ {t} : task'[u] = task[u]
  BY DEF TasksInv, TypeOK
<1>3. (/\ CompletedHasEvaluation /\ NeverEvaluatedEarly
        /\ EvaluationsComeFromBars /\ EvaluationsHaveTasks)'
  BY <1>1, <1>2 DEF TasksInv, CompletedHasEvaluation, NeverEvaluatedEarly,
                    EvaluationsComeFromBars, EvaluationsHaveTasks, Taken
<1>4. ASSUME NEW v \in Worker
      PROVE  held'[v].due = 0 /\ \A u \in Task : Mine(v, u)' => Knows(v, u)'
  <2>1. CASE v = w
    BY <2>1
  <2>2. CASE v # w
    BY <2>2, <1>1, <1>2 DEF TasksInv, WorkersKnow, Mine, Knows, Taken
  <2> QED
    BY <2>1, <2>2
<1> QED
  BY <1>3, <1>4 DEF TasksInv, WorkersKnow

\* One step of worker w on task t.
LEMMA StepTasksInv ==
  ASSUME TasksInv, TypeOK', NEW w \in Worker, NEW t \in Task, Step(w, t)
  PROVE  TasksInv'
<1> USE DEF Goto
<1>t. TypeOK
  BY DEF TasksInv
<1>k. Mine(w, t) => Knows(w, t) /\ held[w].due = 0
  BY DEF TasksInv, WorkersKnow
<1>m. \A u \in Task : Mine(w, t) /\ Mine(w, u) => u = t
  BY <1>t, BusyWorker
<1>1. CASE ClaimRefused(w, t)
  BY <1>1, ForgetKeepsInv DEF ClaimRefused
<1>2. CASE ClaimRead(w, t)
  <2>1. held'[w] = Claimed(task[t]) /\ pc'[w] = "claiming"
    BY <1>2, <1>t DEF ClaimRead, TypeOK
  <2>2. held'[w].status = "RUNNING" /\ held'[w].due = 0
    BY <2>1, <1>2, <1>k, <1>t, RowFields DEF ClaimRead, Knows, TypeOK
  <2>3. \A u \in Task : Mine(w, u)' => Knows(w, u)'
    BY <2>1, <2>2, <1>2, <1>k, <1>m DEF ClaimRead, Knows, Mine
  <2>4. \A v \in Worker \ {w} : /\ pc'[v] = pc[v] /\ cur'[v] = cur[v]
                                /\ held'[v] = held[v] /\ result'[v] = result[v]
    BY <1>2, <1>t DEF ClaimRead, TypeOK
  <2> QED
    BY <1>2, <2>2, <2>3, <2>4, OneWorkerMoves DEF ClaimRead
<1>3. CASE ClaimWrite(w, t)
  <2>1. held[w].status = "RUNNING" /\ held[w].due = 0 /\ Mine(w, t)
    BY <1>3, <1>k DEF ClaimWrite, Knows
  <2>2. pc'[w] = "evaluating" /\ task'[t] = held[w]
    BY <1>3, <1>t DEF ClaimWrite, TypeOK
  <2>3. \A u \in Task : Mine(w, u)' => Knows(w, u)'
    BY <2>1, <2>2, <1>3, <1>m DEF ClaimWrite, Knows, Mine
  <2>4. \A v \in Worker \ {w} : /\ pc'[v] = pc[v] /\ cur'[v] = cur[v]
                                /\ held'[v] = held[v] /\ result'[v] = result[v]
    BY <1>3, <1>t DEF ClaimWrite, TypeOK
  <2> QED
    BY <1>3, <2>1, <2>3, <2>4, WriteKeepsInv DEF ClaimWrite, Taken
<1>4. CASE Evaluate(w, t)
  <2>1. result'[w] = Evaluated(t) /\ pc'[w] \in {"storing", "postponing"}
    BY <1>4, <1>t DEF Evaluate, TypeOK
  <2>2. \A u \in Task : Mine(w, u)' => Knows(w, u)'
    BY <2>1, <1>4, <1>k, <1>m, <1>t, EvaluatedFields DEF TypeOK, Evaluate, Knows, Mine
  <2>3. \A v \in Worker \ {w} : /\ pc'[v] = pc[v] /\ cur'[v] = cur[v]
                                /\ held'[v] = held[v] /\ result'[v] = result[v]
    BY <1>4, <1>t DEF Evaluate, TypeOK
  <2> QED
    BY <1>4, <1>k, <2>2, <2>3, OneWorkerMoves DEF Evaluate
<1>5. CASE UpsertRead(w, t)
  <2>1. /\ pc'[w] \in {"inserting", "completing", "postponing", "conflict"}
        /\ pc'[w] = "completing" => Final(evaluation[t])
    BY <1>5, <1>t DEF UpsertRead, AfterStore, TypeOK
  <2>2. \A u \in Task : Mine(w, u)' => Knows(w, u)'
    BY <2>1, <1>5, <1>k, <1>m DEF UpsertRead, Knows, Mine
  <2>3. \A v \in Worker \ {w} : /\ pc'[v] = pc[v] /\ cur'[v] = cur[v]
                                /\ held'[v] = held[v] /\ result'[v] = result[v]
    BY <1>5, <1>t DEF UpsertRead, AfterStore, TypeOK
  <2> QED
    BY <1>5, <1>k, <2>2, <2>3, OneWorkerMoves DEF UpsertRead
<1>6. CASE UpsertInsert(w, t)
  <2>1. /\ Mine(w, t) /\ task[t].due = 0 /\ task[t].status # "ABSENT"
        /\ result[w] \in Evaluation
        /\ Final(result[w]) => result[w].path \in 1..path[t]
    BY <1>6, <1>k DEF UpsertInsert, Knows
  <2>2. /\ \A u \in Task \ {t} : evaluation'[u] = evaluation[u]
        /\ \/ evaluation'[t] = evaluation[t] /\ pc'[w] = "conflict"
           \/ /\ evaluation[t] = NoEvaluation
              /\ evaluation'[t] = result[w]
              /\ pc'[w] \in {"completing", "postponing"}
              /\ pc'[w] = "completing" => Final(result[w])
    BY <1>6, <1>t DEF UpsertInsert, AfterStore, TypeOK
  <2>3. \A u \in Task : Final(evaluation[u]) => Final(evaluation'[u])
    BY <2>2, NoEvaluationIsNone
  <2>4. (/\ CompletedHasEvaluation /\ NeverEvaluatedEarly
        /\ EvaluationsComeFromBars /\ EvaluationsHaveTasks)'
    BY <1>6, <2>1, <2>2, <2>3 DEF UpsertInsert, TasksInv, CompletedHasEvaluation,
                                  NeverEvaluatedEarly, EvaluationsComeFromBars,
                                  EvaluationsHaveTasks
  <2>5. ASSUME NEW v \in Worker
        PROVE  held'[v].due = 0 /\ \A u \in Task : Mine(v, u)' => Knows(v, u)'
    <3>1. CASE v = w
      BY <3>1, <1>6, <1>k, <1>m, <2>2 DEF UpsertInsert, Knows, Mine
    <3>2. CASE v # w
      <4>1. pc'[v] = pc[v]
        BY <3>2, <1>6, <1>t DEF UpsertInsert, AfterStore, TypeOK
      <4> QED
        BY <4>1, <1>6, <2>3 DEF UpsertInsert, TasksInv, WorkersKnow, Knows, Mine
    <3> QED
      BY <3>1, <3>2
  <2> QED
    BY <2>4, <2>5 DEF TasksInv, WorkersKnow
<1>7. CASE CompleteRead(w, t)
  <2>1. held'[w] = Completed(task[t]) /\ pc'[w] = "finishing"
    BY <1>7, <1>t DEF CompleteRead, TypeOK
  <2>2. held'[w].status = "COMPLETED" /\ held'[w].due = 0 /\ Final(evaluation[t])
    BY <2>1, <1>7, <1>k, <1>t, RowFields DEF CompleteRead, Knows, TypeOK
  <2>3. \A u \in Task : Mine(w, u)' => Knows(w, u)'
    BY <2>1, <2>2, <1>7, <1>k, <1>m DEF CompleteRead, Knows, Mine
  <2>4. \A v \in Worker \ {w} : /\ pc'[v] = pc[v] /\ cur'[v] = cur[v]
                                /\ held'[v] = held[v] /\ result'[v] = result[v]
    BY <1>7, <1>t DEF CompleteRead, TypeOK
  <2> QED
    BY <1>7, <2>2, <2>3, <2>4, OneWorkerMoves DEF CompleteRead
<1>8. CASE PostponeRead(w, t)
  <2>1. held'[w] = Postponed(task[t]) /\ pc'[w] = "finishing"
    BY <1>8, <1>t DEF PostponeRead, TypeOK
  <2>2. held'[w].status = "POSTPONED" /\ held'[w].due = 0
    BY <2>1, <1>8, <1>k, <1>t, RowFields DEF PostponeRead, Knows, TypeOK
  <2>3. \A u \in Task : Mine(w, u)' => Knows(w, u)'
    BY <2>1, <2>2, <1>8, <1>k, <1>m DEF PostponeRead, Knows, Mine
  <2>4. \A v \in Worker \ {w} : /\ pc'[v] = pc[v] /\ cur'[v] = cur[v]
                                /\ held'[v] = held[v] /\ result'[v] = result[v]
    BY <1>8, <1>t DEF PostponeRead, TypeOK
  <2> QED
    BY <1>8, <2>2, <2>3, <2>4, OneWorkerMoves DEF PostponeRead
<1>9. CASE FinishWrite(w, t)
  <2>1. /\ held[w].status \in {"POSTPONED", "COMPLETED"}
        /\ held[w].status = "COMPLETED" => Final(evaluation[t])
    BY <1>9, <1>k DEF FinishWrite, Knows
  <2>2. /\ held'[w].due = 0
        /\ \A u \in Task : ~Mine(w, u)'
        /\ \A v \in Worker \ {w} : /\ pc'[v] = pc[v] /\ cur'[v] = cur[v]
                                   /\ held'[v] = held[v] /\ result'[v] = result[v]
    BY <1>9, <1>t DEF FinishWrite, Forget, Mine, NoRow, TypeOK
  <2> QED
    BY <1>9, <2>1, <2>2, WriteKeepsInv DEF FinishWrite, Taken
<1> QED
  BY <1>1, <1>2, <1>3, <1>4, <1>5, <1>6, <1>7, <1>8, <1>9 DEF Step

\* Every step keeps the invariant.
LEMMA NextTasksInv == TasksInv /\ [Next]_vars => TasksInv'
<1> SUFFICES ASSUME TasksInv, [Next]_vars PROVE TasksInv'
  OBVIOUS
<1>t. TypeOK /\ TypeOK'
  BY NextTypeOK DEF TasksInv
<1> USE DEF TasksInv, CompletedHasEvaluation, NeverEvaluatedEarly,
            EvaluationsComeFromBars, EvaluationsHaveTasks
<1>1. ASSUME NEW t \in Task, UpsertTask(t)
      PROVE  TasksInv'
  <2>1. \A u \in Task : \/ task'[u] = task[u]
                        \/ /\ task[u].status = "ABSENT"
                           /\ task'[u].status = "PENDING"
    BY <1>1, <1>t DEF UpsertTask, InsertOrIgnore, NewRow, TypeOK
  <2>2. WorkersKnow'
    BY <1>1, <2>1 DEF UpsertTask, WorkersKnow, Knows, Mine
  <2> QED
    BY <1>1, <1>t, <2>1, <2>2 DEF UpsertTask
<1>2. ASSUME NEW t \in Task, BarArrives(t)
      PROVE  TasksInv'
  <2>1. \A u \in Task : path[u] \in Nat /\ path'[u] \in Nat /\ path'[u] >= path[u]
    BY <1>2, <1>t, TasksAssumption DEF BarArrives, TypeOK
  <2>2. EvaluationsComeFromBars'
    BY <1>2, <2>1 DEF BarArrives
  <2>3. WorkersKnow'
    BY <1>2, <2>1 DEF BarArrives, WorkersKnow, Knows, Mine
  <2> QED
    BY <1>2, <1>t, <2>2, <2>3 DEF BarArrives
<1>3. ASSUME NEW w \in Worker, NEW t \in Task, Discover(w, t)
      PROVE  TasksInv'
  <2>1. task[t].due = 0 /\ task[t].status # "ABSENT"
    BY <1>3 DEF Discover, IsDue, LeaseExpired
  <2>2. /\ pc'[w] = "found" /\ cur'[w] = {t} /\ held'[w] = held[w]
        /\ \A v \in Worker \ {w} : /\ pc'[v] = pc[v] /\ cur'[v] = cur[v]
                                   /\ held'[v] = held[v] /\ result'[v] = result[v]
    BY <1>3, <1>t DEF Discover, Goto, TypeOK
  <2>3. \A u \in Task : Mine(w, u)' => Knows(w, u)'
    BY <1>3, <2>1, <2>2 DEF Discover, Mine, Knows
  <2>4. held'[w].due = 0
    BY <2>2 DEF WorkersKnow
  <2> QED
    BY <1>3, <1>t, <2>2, <2>3, <2>4, OneWorkerMoves DEF Discover
<1>4. CASE \E w \in Worker, t \in Task : Step(w, t)
  BY <1>4, <1>t, StepTasksInv
<1>5. CASE \E w \in Worker : Abandon(w)
  BY <1>5, <1>t, ForgetKeepsInv DEF Abandon
<1>6. CASE \E w \in Worker : Crash(w)
  BY <1>6, <1>t, ForgetKeepsInv DEF Crash
<1>7. CASE Tick
  <2>1. \A u \in Task : /\ task'[u].status = task[u].status
                        /\ task[u].due = 0 => task'[u].due = 0
    BY <1>7, <1>t, RowFields DEF Tick, TypeOK
  <2>2. \A w \in Worker : /\ held'[w].status = held[w].status
                          /\ held[w].due = 0 => held'[w].due = 0
    BY <1>7, <1>t, RowFields DEF Tick, TypeOK
  <2>3. /\ evaluation' = evaluation /\ path' = path /\ pc' = pc
        /\ cur' = cur /\ result' = result
    BY <1>7 DEF Tick
  <2>4. ASSUME NEW w \in Worker
        PROVE  held'[w].due = 0 /\ \A t \in Task : Mine(w, t)' => Knows(w, t)'
    BY <2>1, <2>2, <2>3 DEF WorkersKnow, Knows, Mine
  <2>5. (/\ CompletedHasEvaluation /\ NeverEvaluatedEarly
         /\ EvaluationsComeFromBars /\ EvaluationsHaveTasks)'
    BY <2>1, <2>3
  <2> QED
    BY <1>t, <2>4, <2>5 DEF WorkersKnow
<1>8. CASE UNCHANGED vars
  BY <1>8, <1>t DEF vars, WorkersKnow, Knows, Mine
<1> QED
  BY <1>1, <1>2, <1>3, <1>4, <1>5, <1>6, <1>7, <1>8 DEF Next

\* TasksInv is inductive, so that it holds in every state.
LEMMA TasksInvariant == Spec => []TasksInv
BY InitTasksInv, NextTasksInv, PTL DEF Spec

\* A task marked COMPLETED has its final evaluation, whatever the workers do.
THEOREM CompletedOnlyWithEvaluation == Spec => []CompletedHasEvaluation
<1>1. TasksInv => CompletedHasEvaluation
  BY DEF TasksInv
<1> QED
  BY <1>1, TasksInvariant, PTL

\* No task is claimed, and no evaluation stored, before its due_time.
THEOREM NothingEvaluatedEarly == Spec => []NeverEvaluatedEarly
<1>1. TasksInv => NeverEvaluatedEarly
  BY DEF TasksInv
<1> QED
  BY <1>1, TasksInvariant, PTL

\* A final evaluation was computed from bars that are persisted.
THEOREM FinalEvaluationsComeFromBars == Spec => []EvaluationsComeFromBars
<1>1. TasksInv => EvaluationsComeFromBars
  BY DEF TasksInv
<1> QED
  BY <1>1, TasksInvariant, PTL

-----------------------------------------------------------------------------
(* What one step may do to the tables *)

\* What happens to the row of a task in one step: it is created, it is
\* written by a worker that knows its evaluation, or it only ages.
RowStep(t) ==
  \/ task'[t] = task[t]
  \/ task[t].status = "ABSENT" /\ task'[t].status = "PENDING"
  \/ task'[t].status = task[t].status
  \/ /\ task[t].status # "ABSENT"
     /\ task'[t].status \in Taken
     /\ task'[t].status = "COMPLETED" => Final(evaluation[t])

\* What happens to the evaluation of a task: nothing, or it is stored once.
EvaluationStep(t) ==
  \/ evaluation'[t] = evaluation[t]
  \/ evaluation[t] = NoEvaluation /\ evaluation'[t] \in Evaluation

\* A step writes the row of one task, or stores one evaluation, or neither.
TablesStep ==
  \/ UNCHANGED <<task, evaluation>>
  \/ /\ UNCHANGED evaluation
     /\ \E t \in Task : /\ RowStep(t)
                        /\ task' = [task EXCEPT ![t] = task'[t]]
  \/ /\ UNCHANGED evaluation
     /\ \A t \in Task : task'[t].status = task[t].status
  \/ /\ UNCHANGED task
     /\ \E t \in Task :
          /\ EvaluationStep(t)
          /\ evaluation' = [evaluation EXCEPT ![t] = evaluation'[t]]

\* What one step can make of the two tables.
LEMMA TablesMove == TasksInv /\ [Next]_vars => TablesStep
<1> SUFFICES ASSUME TasksInv, [Next]_vars PROVE TablesStep
  OBVIOUS
<1>t. TypeOK
  BY DEF TasksInv
<1>1. ASSUME NEW t \in Task, UpsertTask(t)
      PROVE  TablesStep
  <2>1. RowStep(t)
    BY <1>1, <1>t DEF UpsertTask, InsertOrIgnore, NewRow, TypeOK, RowStep
  <2>2. task' = [task EXCEPT ![t] = task'[t]]
    BY <1>1, <1>t DEF UpsertTask, TypeOK
  <2> QED
    BY <1>1, <2>1, <2>2 DEF UpsertTask, TablesStep
<1>2. ASSUME NEW w \in Worker, NEW t \in Task,
             ClaimWrite(w, t) \/ FinishWrite(w, t)
      PROVE  TablesStep
  <2>1. /\ Mine(w, t)
        /\ task' = [task EXCEPT ![t] = held[w]]
        /\ UNCHANGED evaluation
    BY <1>2 DEF ClaimWrite, FinishWrite
  <2>2. Knows(w, t)
    BY <2>1 DEF TasksInv, WorkersKnow
  <2>3. task'[t] = held[w]
    BY <2>1, <1>t DEF TypeOK
  <2>4. RowStep(t)
    BY <1>2, <2>2, <2>3 DEF ClaimWrite, FinishWrite, Knows, RowStep, Taken
  <2> QED
    BY <2>1, <2>3, <2>4 DEF TablesStep
<1>3. ASSUME NEW w \in Worker, NEW t \in Task, UpsertInsert(w, t)
      PROVE  TablesStep
  <2>1. Mine(w, t) /\ pc[w] = "inserting" /\ UNCHANGED task
    BY <1>3 DEF UpsertInsert
  <2>2. result[w] \in Evaluation
    BY <2>1 DEF TasksInv, WorkersKnow, Knows
  <2>3. CASE UNCHANGED evaluation
    BY <2>1, <2>3 DEF TablesStep
  <2>4. CASE /\ evaluation[t] = NoEvaluation
             /\ evaluation' = [evaluation EXCEPT ![t] = result[w]]
    <3>1. evaluation'[t] = result[w]
      BY <2>4, <1>t DEF TypeOK
    <3>2. EvaluationStep(t)
      BY <2>2, <2>4, <3>1 DEF EvaluationStep
    <3> QED
      BY <2>1, <2>4, <3>1, <3>2 DEF TablesStep
  <2> QED
    BY <1>3, <2>3, <2>4 DEF UpsertInsert
<1>4. CASE Tick
  <2>1. \A t \in Task : task'[t].status = task[t].status
    BY <1>4, <1>t, RowFields DEF Tick, TypeOK
  <2>2. UNCHANGED evaluation
    BY <1>4 DEF Tick
  <2> QED
    BY <2>1, <2>2 DEF TablesStep
<1>5. ASSUME NEW w \in Worker, NEW t \in Task,
             Discover(w, t) \/ Step(w, t) \/ Abandon(w) \/ Crash(w)
      PROVE  TablesStep
  <2>1. CASE Discover(w, t) \/ Abandon(w) \/ Crash(w)
    BY <2>1 DEF Discover, Abandon, Crash, TablesStep
  <2>2. CASE \/ ClaimRefused(w, t) \/ ClaimRead(w, t) \/ Evaluate(w, t)
             \/ UpsertRead(w, t) \/ CompleteRead(w, t) \/ PostponeRead(w, t)
    BY <2>2 DEF ClaimRefused, ClaimRead, Evaluate, UpsertRead, CompleteRead,
                PostponeRead, TablesStep
  <2> QED
    BY <1>2, <1>3, <1>5, <2>1, <2>2 DEF Step
<1>6. ASSUME NEW w \in Worker, Abandon(w) \/ Crash(w)
      PROVE  TablesStep
  BY <1>6 DEF Abandon, Crash, TablesStep
<1>7. CASE \E t \in Task : BarArrives(t)
  BY <1>7 DEF BarArrives, TablesStep
<1>8. CASE UNCHANGED vars
  BY <1>8 DEF vars, TablesStep
<1> QED
  BY <1>1, <1>4, <1>5, <1>6, <1>7, <1>8 DEF Next

\* Creating a task again, and a worker writing back what it read long ago,
\* never remove a row nor make a taken task PENDING.
THEOREM TasksNeverReset == Spec => TasksAreNeverReset
<1>1. TasksInv /\ [Next]_vars =>
        [\A t \in Task :
           /\ task[t].status # "ABSENT" => task'[t].status # "ABSENT"
           /\ task[t].status \in {"RUNNING", "POSTPONED", "COMPLETED"}
                => task'[t].status # "PENDING"]_vars
  <2> SUFFICES ASSUME TasksInv, [Next]_vars, NEW t \in Task
               PROVE  /\ task[t].status # "ABSENT" => task'[t].status # "ABSENT"
                      /\ task[t].status \in {"RUNNING", "POSTPONED", "COMPLETED"}
                           => task'[t].status # "PENDING"
    OBVIOUS
  <2>1. TablesStep /\ TypeOK
    BY TablesMove DEF TasksInv
  <2>2. CASE task'[t].status = task[t].status
    BY <2>2
  <2>3. CASE RowStep(t)
    BY <2>3 DEF RowStep, Taken
  <2> QED
    BY <2>1, <2>2, <2>3 DEF TablesStep, TypeOK
<1> QED
  BY <1>1, TasksInvariant, PTL DEF Spec, TasksAreNeverReset

-----------------------------------------------------------------------------
(* Refinement *)

\* The first states are first states of EvaluationFacts.
LEMMA InitFacts == Init => Facts!Init
BY DEF Init, Facts!Init, NoRow

\* Every step is a step of EvaluationFacts, or changes nothing there.
LEMMA NextFacts == TasksInv /\ TasksInv' /\ [Next]_vars => [Facts!Next]_(Facts!vars)
<1> SUFFICES ASSUME TasksInv, TasksInv', [Next]_vars
             PROVE  [Facts!Next]_(Facts!vars)
  OBVIOUS
<1> DEFINE Marked == {t \in Task : task[t].status = "COMPLETED"}
<1>t. TypeOK /\ TypeOK'
  BY DEF TasksInv
<1>1. TablesStep
  BY TablesMove
<1>2. CASE UNCHANGED <<task, evaluation>>
  BY <1>2 DEF Facts!vars
<1>3. CASE /\ UNCHANGED evaluation
           /\ \A t \in Task : task'[t].status = task[t].status
  BY <1>3 DEF Facts!vars
<1>4. ASSUME NEW t \in Task, UNCHANGED evaluation, RowStep(t),
             task' = [task EXCEPT ![t] = task'[t]]
      PROVE  [Facts!Next]_(Facts!vars)
  <2>1. \A u \in Task \ {t} : task'[u] = task[u]
    BY <1>4, <1>t DEF TypeOK
  <2>2. CASE task'[t].status = "COMPLETED"
    <3>1. Marked' = Marked \cup {t}
      BY <2>1, <2>2
    <3>2. evaluation[t] \in Evaluation /\ Final(evaluation[t])
      BY <2>2, <1>4, <1>t, NoEvaluationIsNone
         DEF TasksInv, CompletedHasEvaluation, TypeOK
    <3>3. Facts!Finish(t)
      BY <1>4, <3>1, <3>2 DEF Facts!Finish
    <3> QED
      BY <3>3 DEF Facts!Next
  <2>3. CASE task'[t].status # "COMPLETED"
    <3>1. Marked' = Marked \ {t}
      BY <2>1, <2>3
    <3>2. Facts!Reopen(t)
      BY <1>4, <3>1 DEF Facts!Reopen
    <3> QED
      BY <3>2 DEF Facts!Next
  <2> QED
    BY <2>2, <2>3
<1>5. ASSUME NEW t \in Task, UNCHANGED task, EvaluationStep(t),
             evaluation' = [evaluation EXCEPT ![t] = evaluation'[t]]
      PROVE  [Facts!Next]_(Facts!vars)
  <2>1. CASE evaluation'[t] = evaluation[t]
    <3>1. UNCHANGED evaluation
      BY <1>5, <1>t, <2>1 DEF TypeOK
    <3> QED
      BY <1>5, <3>1 DEF Facts!vars
  <2>2. CASE evaluation[t] = NoEvaluation /\ evaluation'[t] \in Evaluation
    <3>1. Facts!Record(t)
      BY <1>5, <2>2 DEF Facts!Record
    <3> QED
      BY <3>1 DEF Facts!Next
  <2> QED
    BY <1>5, <2>1, <2>2 DEF EvaluationStep
<1> QED
  BY <1>1, <1>2, <1>3, <1>4, <1>5 DEF TablesStep

\* The workers implement the abstract pipeline: an evaluation is stored once
\* and never rewritten, and a task is finished only by its final evaluation.
THEOREM TasksImplementFacts == Spec => ImplementsFacts
<1>1. Spec => Facts!Spec
  BY InitFacts, NextFacts, TasksInvariant, PTL DEF Spec, Facts!Spec
<1> QED
  BY <1>1 DEF ImplementsFacts
==========================================================================
