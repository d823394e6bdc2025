----------------------- MODULE ExperimentRunnerProofs -----------------------
(***************************************************************************)
(* Proofs about ExperimentRunner, for every number of requests, modes,     *)
(* experiments and tasks.  Types and NoStrandedRun hold however requests   *)
(* overlap, RunsInOrder and OutcomeIsFinal as long as they do not.         *)
(* OneAtATime and ClearedOnlyAtRest, which are about requests that         *)
(* overlap, fail and are not here.                                         *)
(***************************************************************************)
EXTENDS ExperimentRunner, TLAPS

LEMMA RunIs ==
  /\ \A r \in Run : r[1] \in Experiment /\ r[2] \in 1..RunCount /\ r = <<r[1], r[2]>>
  /\ \A e \in Experiment, n \in 1..RunCount : <<e, n>> \in Run
BY DEF Run

LEMMA SameRun ==
  ASSUME NEW r \in Run, NEW s \in Run, r[1] = s[1], r[2] = s[2]
  PROVE  r = s
BY DEF Run

LEMMA ConstantFacts ==
  /\ RunCount \in Nat \ {0} /\ MaxExperiments \in Nat /\ MaxTasks \in Nat
  /\ NoTask \notin Task
  /\ 1 \in 1..RunCount
BY RunnerAssumption DEF Task

-----------------------------------------------------------------------------
(* Types.  A task that has not been created is nowhere; one that has been  *)
(* works on a run; a request that has committed has inserted something.    *)

TasksAreCreated ==
  /\ \A t \in Task : place[t] # "none" => t <= created /\ run[t] \in Run
  /\ _task # NoTask => place[_task] # "none"

CommittedInserted ==
  \A q \in Request : pc[q] = "committed" => inserted[q] \in Experiment

RunnerTypes == TypeOK /\ TasksAreCreated /\ CommittedInserted

LEMMA InitTypes == Init => RunnerTypes
BY ConstantFacts
DEF Init, RunnerTypes, TypeOK, TasksAreCreated, CommittedInserted

LEMMA StepKeepsTypes ==
  ASSUME RunnerTypes, [Next]_vars
  PROVE  RunnerTypes'
<1> USE ConstantFacts
<1> USE DEF RunnerTypes, TypeOK, TasksAreCreated, CommittedInserted, rows,
            requestVars, taskVars
<1>1. ASSUME NEW q \in Request,
             AskToRun(q) \/ AskToClear(q) \/ RequestFails(q)
      PROVE  RunnerTypes'
  <2>1. CASE AskToRun(q) \/ AskToClear(q)
    BY <2>1 DEF AskToRun, AskToClear
  <2>2. CASE RequestFails(q)
    BY <2>2 DEF RequestFails
  <2>3. QED
    BY <1>1, <2>1, <2>2
<1>2. ASSUME NEW q \in Request, InsertExperiment(q)
      PROVE  RunnerTypes'
  BY <1>2 DEF InsertExperiment, RunStatus, Experiment
<1>3. ASSUME NEW q \in Request, CreateTask(q)
      PROVE  RunnerTypes'
  <2>1. created' \in Task /\ created' = created + 1
    BY <1>3 DEF CreateTask, Task
  <2>2. <<inserted[q], 1>> \in Run
    BY <1>3, RunIs DEF CreateTask
  <2>3. place'[created'] = "preparing" /\ run'[created'] = <<inserted[q], 1>>
    BY <1>3, <2>1 DEF CreateTask
  <2>4. \A t \in Task \ {created'} : place'[t] = place[t] /\ run'[t] = run[t]
    BY <1>3, <2>1 DEF CreateTask
  <2>5. TypeOK'
    BY <1>3, <2>1, <2>2 DEF CreateTask, Alive, Task
  <2>6. TasksAreCreated'
    BY <1>3, <2>1, <2>2, <2>3, <2>4 DEF Task, CreateTask
  <2>7. CommittedInserted'
    BY <1>3 DEF CreateTask
  <2>8. QED
    BY <2>5, <2>6, <2>7
<1>4. ASSUME NEW q \in Request, ClearHistory(q)
      PROVE  RunnerTypes'
  BY <1>4 DEF ClearHistory
<1>5. ASSUME NEW t \in Task, InsertJobs(t) \/ MarkRunning(t) \/ Outcome(t) \/ TaskFails(t)
      PROVE  RunnerTypes'
  <2>1. CASE InsertJobs(t)
    BY <2>1 DEF InsertJobs, GoTo, Alive
  <2>2. CASE MarkRunning(t)
    BY <2>2 DEF MarkRunning, GoTo, SetStatus, Alive, RunStatus
  <2>3. CASE Outcome(t)
    BY <2>3 DEF Outcome, GoTo, Alive
  <2>4. CASE TaskFails(t)
    BY <2>4 DEF TaskFails, GoTo, Alive
  <2>5. QED
    BY <1>5, <2>1, <2>2, <2>3, <2>4
<1>6. ASSUME NEW t \in Task, MarkEnded(t)
      PROVE  RunnerTypes'
  <2>1. place[t] \in {"finished", "failed"} /\ run[t] \in Run
    BY <1>6 DEF MarkEnded
  <2>2. CASE run[t][2] < RunCount
    <3>1. <<run[t][1], run[t][2] + 1>> \in Run
      BY <2>1, <2>2, RunIs
    <3>2. QED
      BY <1>6, <2>1, <2>2, <3>1 DEF MarkEnded, GoTo, SetStatus, Alive, RunStatus
  <2>3. CASE ~(run[t][2] < RunCount)
    BY <1>6, <2>1, <2>3 DEF MarkEnded, GoTo, SetStatus, Alive, RunStatus
  <2>4. QED
    BY <2>2, <2>3
<1>7. CASE StartApp \/ CloseRecovers
  BY <1>7 DEF StartApp, CloseRecovers, Recovered, RunStatus
<1>8. CASE Close \/ CloseRaises
  BY <1>8 DEF Close, CloseRaises
<1>9. CASE Stop
  <2>1. place' \in [Task -> Alive \cup {"none", "ended", "crashed"}]
    BY <1>9 DEF Stop
  <2>2. TypeOK'
    BY <1>9, <2>1 DEF Stop
  <2>3. TasksAreCreated'
    BY <1>9 DEF Stop, Alive
  <2>4. CommittedInserted'
    BY <1>9 DEF Stop
  <2>5. QED
    BY <2>2, <2>3, <2>4
<1>10. CASE UNCHANGED vars
  BY <1>10 DEF vars
<1>11. QED
  BY <1>1, <1>2, <1>3, <1>4, <1>5, <1>6, <1>7, <1>8, <1>9, <1>10 DEF Next

LEMMA RunnerTypesHold == Spec => []RunnerTypes
BY InitTypes, StepKeepsTypes, PTL DEF Spec

(* Rows, requests and tasks keep their types: a task is created under a    *)
(* number of its own, and never goes on to a run that its experiment does  *)
(* not have.                                                               *)
THEOREM RunnerTypeCorrect == Spec => []TypeOK
BY RunnerTypesHold, PTL DEF RunnerTypes

-----------------------------------------------------------------------------
(* No run is stranded, however requests overlap.                           *)

Committed(r) == \E q \in Request : pc[q] = "committed" /\ inserted[q] = r[1]

Pursues(t, r) ==
  /\ run[t][1] = r[1]
  /\ \/ place[t] \in Alive /\ run[t][2] <= r[2]
     \/ place[t] = "crashed"

Accounted(r) ==
  Committed(r) \/ (\E t \in Task : Pursues(t, r)) \/ r[1] \in unanswered

LEMMA StrandedIs ==
  NoStrandedRun <=>
    (app = "up" => \A r \in Run : status[r] \in Unfinished => Accounted(r))
BY DEF NoStrandedRun, Accounted, Committed, Pursues

(* Who accounted for a run goes on to do so, or hands it over.             *)
LEMMA RequestsHandOver ==
  ASSUME RunnerTypes, NEW r \in Run, Accounted(r), NEW q \in Request,
         \/ AskToRun(q) \/ InsertExperiment(q) \/ CreateTask(q)
         \/ RequestFails(q) \/ AskToClear(q)
  PROVE  Accounted(r)'
<1> USE ConstantFacts DEF RunnerTypes, TypeOK, TasksAreCreated
<1>1. CASE AskToRun(q) \/ AskToClear(q)
  BY <1>1
  DEF AskToRun, AskToClear, Accounted, Committed, Pursues, taskVars
<1>2. CASE InsertExperiment(q)
  BY <1>2 DEF InsertExperiment, Accounted, Committed, Pursues, taskVars
<1>3. CASE RequestFails(q)
  BY <1>3 DEF RequestFails, Accounted, Committed, Pursues, taskVars
<1>4. CASE CreateTask(q)
  <2>1. created' \in Task /\ created' = created + 1 /\ UNCHANGED unanswered
    BY <1>4 DEF CreateTask, Task
  <2>2. CASE pc[q] = "committed" /\ inserted[q] = r[1]
    <3>1. place'[created'] = "preparing" /\ run'[created'] = <<r[1], 1>>
      BY <1>4, <2>1, <2>2 DEF CreateTask
    <3>2. Pursues(created, r)' /\ r[2] >= 1
      BY <3>1, RunIs DEF Pursues, Alive
    <3>3. QED
      BY <2>1, <3>2 DEF Accounted
  <2>3. CASE \E p \in Request \ {q} : pc[p] = "committed" /\ inserted[p] = r[1]
    BY <1>4, <2>3 DEF CreateTask, Accounted, Committed
  <2>4. ASSUME NEW t \in Task, Pursues(t, r)
        PROVE  Accounted(r)'
    <3>1. t # created'
      BY <2>1, <2>4 DEF Pursues, Alive, Task
    <3>2. Pursues(t, r)'
      BY <1>4, <2>4, <3>1 DEF CreateTask, Pursues
    <3>3. QED
      BY <3>2 DEF Accounted
  <2>5. QED
    BY <2>1, <2>2, <2>3, <2>4 DEF Accounted, Committed
<1>5. QED
  BY <1>1, <1>2, <1>3, <1>4

LEMMA TasksHandOver ==
  ASSUME RunnerTypes, NEW r \in Run, Accounted(r), NEW t \in Task,
         \/ InsertJobs(t) \/ MarkRunning(t) \/ Outcome(t) \/ MarkEnded(t)
         \/ TaskFails(t),
         status'[r] \in Unfinished
  PROVE  Accounted(r)'
<1> USE ConstantFacts DEF RunnerTypes, TypeOK, TasksAreCreated
<1>1. UNCHANGED requestVars
  BY DEF InsertJobs, MarkRunning, Outcome, MarkEnded, TaskFails
<1>2. CASE Committed(r) \/ r[1] \in unanswered
  BY <1>1, <1>2 DEF Accounted, Committed, requestVars
<1>3. ASSUME NEW u \in Task, Pursues(u, r)
      PROVE  Pursues(u, r)'
  <2>1. CASE u # t
    BY <1>3, <2>1
    DEF InsertJobs, MarkRunning, Outcome, MarkEnded, TaskFails, GoTo, Pursues
  <2>2. CASE u = t /\ ~MarkEnded(t)
    BY <1>3, <2>2
    DEF InsertJobs, MarkRunning, Outcome, TaskFails, GoTo, Pursues, Alive
  <2>3. CASE u = t /\ MarkEnded(t)
    <3>1. /\ place[t] \in {"finished", "failed"} /\ run[t] \in Run
          /\ run[t][1] = r[1] /\ run[t][2] <= r[2]
      BY <1>3, <2>3 DEF MarkEnded, Pursues
    <3>2. run[t] # r
      BY <2>3, <3>1 DEF MarkEnded, SetStatus, Unfinished
    <3>3. run[t][2] < r[2] /\ r[2] <= RunCount
      <4>1. run[t][2] # r[2]
        BY <3>1, <3>2, SameRun
      <4>2. run[t][2] \in 1..RunCount /\ r[2] \in 1..RunCount
        BY <3>1, RunIs
      <4>3. QED
        BY <3>1, <4>1, <4>2
    <3>4. /\ run'[t] = <<run[t][1], run[t][2] + 1>>
          /\ place'[t] = "preparing"
      BY <2>3, <3>1, <3>3, RunIs DEF MarkEnded, GoTo
    <3>5. QED
      BY <2>3, <3>1, <3>3, <3>4, RunIs DEF Pursues, Alive
  <2>4. QED
    BY <2>1, <2>2, <2>3
<1>4. QED
  BY <1>2, <1>3 DEF Accounted

LEMMA StepStrandsNoRun ==
  ASSUME RunnerTypes, NoStrandedRun, [Next]_vars
  PROVE  NoStrandedRun'
<1> USE ConstantFacts DEF RunnerTypes, TypeOK
<1> SUFFICES ASSUME app' = "up", NEW r \in Run, status'[r] \in Unfinished
             PROVE  Accounted(r)'
  BY DEF NoStrandedRun, Accounted, Committed, Pursues
<1>1. ASSUME app = "up", status[r] \in Unfinished
      PROVE  Accounted(r)
  BY <1>1, StrandedIs
<1>2. ASSUME NEW q \in Request,
             AskToRun(q) \/ CreateTask(q) \/ RequestFails(q) \/ AskToClear(q)
      PROVE  Accounted(r)'
  <2>1. app = "up" /\ status[r] \in Unfinished
    BY <1>2 DEF AskToRun, CreateTask, RequestFails, AskToClear, rows
  <2>2. QED
    BY <1>1, <1>2, <2>1, RequestsHandOver
<1>3. ASSUME NEW q \in Request, InsertExperiment(q)
      PROVE  Accounted(r)'
  <2>1. CASE r[1] = next_id
    BY <1>3, <2>1 DEF InsertExperiment, Accounted, Committed
  <2>2. CASE r[1] # next_id
    <3>1. app = "up" /\ status[r] \in Unfinished
      BY <1>3, <2>2 DEF InsertExperiment
    <3>2. QED
      BY <1>1, <1>3, <3>1, RequestsHandOver
  <2>3. QED
    BY <2>1, <2>2
<1>4. ASSUME NEW q \in Request, ClearHistory(q)
      PROVE  FALSE
  BY <1>4 DEF ClearHistory, Unfinished
<1>5. ASSUME NEW t \in Task,
             \/ InsertJobs(t) \/ MarkRunning(t) \/ Outcome(t) \/ MarkEnded(t)
             \/ TaskFails(t)
      PROVE  Accounted(r)'
  <2>1. app = "up"
    BY <1>5 DEF InsertJobs, MarkRunning, Outcome, MarkEnded, TaskFails
  <2>2. CASE status[r] \in Unfinished
    BY <1>1, <1>5, <2>1, <2>2, TasksHandOver
  <2>3. CASE status[r] \notin Unfinished
    <3>1. MarkRunning(t) /\ run[t] = r
      BY <1>5, <2>3
      DEF InsertJobs, MarkRunning, Outcome, MarkEnded, TaskFails, rows,
          SetStatus, Unfinished
    <3>2. place'[t] = "working" /\ run'[t] = r
      BY <3>1 DEF MarkRunning, GoTo
    <3>3. QED
      BY <3>2, RunIs DEF Accounted, Pursues, Alive
  <2>4. QED
    BY <2>2, <2>3
<1>6. CASE StartApp
  BY <1>6 DEF StartApp, Recovered, Unfinished
<1>7. CASE Close \/ CloseRaises \/ CloseRecovers \/ Stop
  BY <1>7 DEF Close, CloseRaises, CloseRecovers, Stop
<1>8. CASE UNCHANGED vars
  BY <1>1, <1>8 
  DEF vars, rows, requestVars, taskVars, Accounted, Committed, Pursues
<1>9. QED
  BY <1>2, <1>3, <1>4, <1>5, <1>6, <1>7, <1>8 DEF Next

(* A run that is queued or running while the web app is up has a request   *)
(* or a task that will go on with it, or a database error has ended that   *)
(* one: crashes, restarts and overlapping requests strand no run.          *)
THEOREM NoStrandedRunHolds == Spec => []NoStrandedRun
<1>1. Init => NoStrandedRun
  BY DEF Init, NoStrandedRun
<1>2. RunnerTypes /\ NoStrandedRun /\ [Next]_vars => NoStrandedRun'
  BY StepStrandsNoRun
<1>3. QED
  BY <1>1, <1>2, RunnerTypesHold, PTL DEF Spec

-----------------------------------------------------------------------------
(* Requests that do not overlap: as many as there may be, one after the    *)
(* other.                                                                  *)

OneByOne == \A p, q \in Request : pc[p] # "idle" /\ pc[q] # "idle" => p = q

(* The inductive invariant.  A request is answered by a process that is    *)
(* up, and finds no task alive; a task that is alive is runner._task, of a *)
(* process that is up, and nobody is asking for anything.                  *)
RequestsAlone == \A q \in Request : pc[q] # "idle" => app = "up"

TaskAlone ==
  \A t \in Task : place[t] \in Alive =>
     t = _task /\ app = "up" /\ \A q \in Request : pc[q] = "idle"

(* Ids that have not been handed out have no rows; what a request has      *)
(* committed waits for its task.                                           *)
FreshIds == \A r \in Run : r[1] >= next_id => status[r] = "absent"

CommittedQueued ==
  \A q \in Request, r \in Run :
     pc[q] = "committed" /\ r[1] = inserted[q] => status[r] = "queued"

(* The rows say where the task is.                                         *)
Ready == {"preparing", "marking"}

RowsFollow(t) ==
  \A r \in Run : r[1] = run[t][1] =>
    /\ r[2] < run[t][2] => status[r] \in {"finished", "failed"}
    /\ r[2] > run[t][2] => status[r] = "queued"
    /\ r[2] = run[t][2] =>
         status[r] = IF place[t] \in Ready THEN "queued" ELSE "running"

RowsFollowTasks == \A t \in Task : place[t] \in Alive => RowsFollow(t)

SerialInv ==
  /\ RunnerTypes
  /\ RequestsAlone
  /\ TaskAlone
  /\ FreshIds
  /\ CommittedQueued
  /\ RowsFollowTasks

LEMMA InitSerial == Init => SerialInv
BY InitTypes
DEF Init, SerialInv, RequestsAlone, TaskAlone, FreshIds, CommittedQueued,
    RowsFollowTasks, Alive

(* While a request is in progress nothing is alive.                        *)
LEMMA RequestsFindRest ==
  ASSUME SerialInv, NEW q \in Request, pc[q] # "idle" \/ ~running
  PROVE  \A t \in Task : place[t] \notin Alive
BY ConstantFacts DEF SerialInv, TaskAlone, running

LEMMA RequestsKeepSerial ==
  ASSUME SerialInv, OneByOne, RunnerTypes', NEW q \in Request,
         \/ AskToRun(q) \/ InsertExperiment(q) \/ CreateTask(q)
         \/ RequestFails(q) \/ AskToClear(q) \/ ClearHistory(q)
  PROVE  SerialInv'
<1> USE ConstantFacts DEF RunnerTypes, TypeOK
<1>1. \A t \in Task : place[t] \notin Alive
  BY RequestsFindRest
  DEF AskToRun, InsertExperiment, CreateTask, RequestFails, AskToClear,
      ClearHistory
<1>2. CASE AskToRun(q) \/ AskToClear(q) \/ RequestFails(q)
  <2>1. /\ UNCHANGED <<app, rows, inserted, taskVars>>
        /\ pc' \in [Request -> {"idle", "starting", "committed", "clearing"}]
        /\ \A p \in Request : pc'[p] = "committed" => pc[p] = "committed"
        /\ \A p \in Request : pc'[p] # "idle" => pc[p] # "idle" \/ app = "up"
    BY <1>2 DEF AskToRun, AskToClear, RequestFails, SerialInv
  <2>2. QED
    BY <1>1, <2>1
    DEF SerialInv, RequestsAlone, TaskAlone, FreshIds, CommittedQueued,
        RowsFollowTasks, rows, taskVars
<1>3. CASE InsertExperiment(q)
  <2>1. /\ UNCHANGED <<app, taskVars>>
        /\ pc[q] = "starting"
        /\ next_id' = next_id + 1
        /\ \A r \in Run : status'[r] = IF r[1] = next_id THEN "queued" ELSE status[r]
        /\ inserted'[q] = next_id
        /\ \A p \in Request : p # q => pc'[p] = pc[p]
    BY <1>3 DEF InsertExperiment, SerialInv
  <2>2. \A p \in Request : p # q => pc'[p] = "idle"
    BY <2>1 DEF OneByOne
  <2>3. RequestsAlone' /\ CommittedQueued'
    BY <2>1, <2>2 DEF SerialInv, RequestsAlone, CommittedQueued
  <2>4. FreshIds'
    BY <2>1, RunIs DEF SerialInv, FreshIds, Experiment
  <2>5. TaskAlone' /\ RowsFollowTasks'
    BY <1>1, <2>1 DEF TaskAlone, RowsFollowTasks, taskVars
  <2>6. QED
    BY <2>3, <2>4, <2>5 DEF SerialInv
<1>4. CASE CreateTask(q)
  <2>1. /\ UNCHANGED <<app, rows>>
        /\ pc[q] = "committed" /\ pc'[q] = "idle"
        /\ \A p \in Request : p # q => pc'[p] = pc[p]
        /\ created' \in Task /\ _task' = created'
        /\ place'[created'] = "preparing"
        /\ run'[created'] = <<inserted[q], 1>>
        /\ \A t \in Task : t # created' => place'[t] = place[t]
    BY <1>4 DEF CreateTask, SerialInv, Task
  <2>2. \A p \in Request : pc'[p] = "idle"
    BY <2>1 DEF OneByOne
  <2>3. \A t \in Task : place'[t] \in Alive => t = created'
    BY <1>1, <2>1
  <2>4. RequestsAlone' /\ CommittedQueued' /\ TaskAlone'
    BY <2>1, <2>2, <2>3
    DEF SerialInv, RequestsAlone, CommittedQueued, TaskAlone
  <2>5. FreshIds'
    BY <2>1 DEF SerialInv, FreshIds, rows
  <2>6. ASSUME NEW t \in Task, t = created'
        PROVE  RowsFollow(t)'
    <3>1. run'[t] = <<inserted[q], 1>> /\ place'[t] \in Ready
      BY <2>1, <2>6 DEF Ready
    <3>2. \A r \in Run : r[1] = inserted[q] => status'[r] = "queued" /\ r[2] >= 1
      BY <2>1, RunIs DEF SerialInv, CommittedQueued, rows
    <3>3. QED
      BY <3>1, <3>2, RunIs DEF RowsFollow
  <2>7. QED
    BY <2>3, <2>4, <2>5, <2>6 DEF SerialInv, RowsFollowTasks
<1>5. CASE ClearHistory(q)
  <2>1. /\ UNCHANGED <<app, taskVars>>
        /\ pc[q] = "clearing" /\ pc'[q] = "idle"
        /\ \A p \in Request : p # q => pc'[p] = pc[p]
        /\ \A r \in Run : status'[r] = "absent"
    BY <1>5 DEF ClearHistory, SerialInv
  <2>2. \A p \in Request : pc'[p] = "idle"
    BY <2>1 DEF OneByOne
  <2>3. QED
    BY <1>1, <2>1, <2>2
    DEF SerialInv, RequestsAlone, CommittedQueued, TaskAlone, FreshIds,
        RowsFollowTasks, taskVars
<1>6. QED
  BY <1>2, <1>3, <1>4, <1>5

(* A task that is alive is the only one, and nobody asks for anything.     *)
LEMMA TasksKeepSerial ==
  ASSUME SerialInv, RunnerTypes', NEW t \in Task,
         \/ InsertJobs(t) \/ MarkRunning(t) \/ Outcome(t) \/ MarkEnded(t)
         \/ TaskFails(t)
  PROVE  SerialInv'
<1> USE ConstantFacts DEF RunnerTypes, TypeOK
<1>1. /\ place[t] \in Alive
      /\ UNCHANGED <<app, next_id, requestVars, _task>>
      /\ \A u \in Task : u # t => place'[u] = place[u] /\ run'[u] = run[u]
      /\ \A r \in Run : status[r] = "absent" => status'[r] = "absent"
      /\ \A r \in Run : r # run[t] => status'[r] = status[r]
  BY DEF SerialInv, InsertJobs, MarkRunning, Outcome, MarkEnded, TaskFails,
         GoTo, SetStatus, Alive, rows
<1>2. t = _task /\ app = "up" /\ \A q \in Request : pc[q] = "idle"
  BY <1>1 DEF SerialInv, TaskAlone
<1>3. \A u \in Task : place'[u] \in Alive => u = t
  BY <1>1, <1>2 DEF SerialInv, TaskAlone
<1>4. RequestsAlone' /\ CommittedQueued' /\ TaskAlone' /\ FreshIds'
  BY <1>1, <1>2, <1>3
  DEF SerialInv, RequestsAlone, CommittedQueued, TaskAlone, FreshIds, requestVars
<1>5. run[t] \in Run /\ RowsFollow(t)
  BY <1>1 DEF SerialInv, TasksAreCreated, RowsFollowTasks, Alive
<1>6. place'[t] \in Alive => RowsFollow(t)'
  <2>1. CASE InsertJobs(t) \/ Outcome(t)
    BY <1>5, <2>1
    DEF SerialInv, InsertJobs, Outcome, GoTo, RowsFollow, Ready, rows
  <2>2. CASE MarkRunning(t)
    <3>1. /\ place'[t] = "working" /\ run' = run
          /\ status[run[t]] = "queued" /\ status'[run[t]] = "running"
      BY <1>5, <2>2 DEF SerialInv, MarkRunning, GoTo, SetStatus, RowsFollow, Ready
    <3>2. QED
      BY <1>1, <1>5, <3>1, SameRun DEF RowsFollow, Ready
  <2>3. CASE MarkEnded(t) /\ run[t][2] < RunCount
    <3>1. /\ place'[t] = "preparing"
          /\ run'[t] = <<run[t][1], run[t][2] + 1>>
          /\ status[run[t]] = "running"
          /\ status'[run[t]] \in {"finished", "failed"}
      BY <1>5, <2>3 DEF SerialInv, MarkEnded, GoTo, SetStatus, RowsFollow, Ready
    <3>2. ASSUME NEW r \in Run, r[1] = run[t][1]
          PROVE  /\ r[2] < run[t][2] + 1 => status'[r] \in {"finished", "failed"}
                 /\ r[2] >= run[t][2] + 1 => status'[r] = "queued"
      <4>1. r[2] \in Nat /\ run[t][2] \in Nat
        BY <1>5, RunIs
      <4>2. CASE r[2] = run[t][2]
        BY <1>5, <3>1, <3>2, <4>1, <4>2, SameRun
      <4>3. CASE r[2] # run[t][2]
        BY <1>1, <1>5, <3>2, <4>1, <4>3 DEF RowsFollow
      <4>4. QED
        BY <4>2, <4>3
    <3>3. QED
      BY <1>5, <3>1, <3>2, RunIs DEF RowsFollow, Ready
  <2>4. CASE TaskFails(t) \/ (MarkEnded(t) /\ ~(run[t][2] < RunCount))
    BY <2>4 DEF SerialInv, TaskFails, MarkEnded, GoTo, Alive
  <2>5. QED
    BY <2>1, <2>2, <2>3, <2>4
<1>7. QED
  BY <1>3, <1>4, <1>6 DEF SerialInv, RowsFollowTasks

LEMMA AppKeepsSerial ==
  ASSUME SerialInv, RunnerTypes',
         StartApp \/ Close \/ CloseRaises \/ CloseRecovers \/ Stop
  PROVE  SerialInv'
<1> USE ConstantFacts DEF RunnerTypes, TypeOK
<1>1. \A t \in Task : place'[t] \notin Alive
  <2>1. CASE StartApp \/ CloseRecovers \/ Stop
    BY <2>1 DEF SerialInv, TaskAlone, StartApp, CloseRecovers, Stop, taskVars, Alive
  <2>2. CASE Close \/ CloseRaises
    BY <2>2 DEF SerialInv, TaskAlone, Close, CloseRaises, taskVars, Alive
  <2>3. QED
    BY <2>1, <2>2
<1>2. /\ \A q \in Request : pc'[q] = "idle"
      /\ UNCHANGED next_id
      /\ \A r \in Run : status[r] = "absent" => status'[r] = "absent"
  BY DEF SerialInv, RequestsAlone, StartApp, Close, CloseRaises, CloseRecovers,
         Stop, Recovered, Unfinished, rows, requestVars
<1>3. QED
  BY <1>1, <1>2
  DEF SerialInv, RequestsAlone, TaskAlone, FreshIds, CommittedQueued,
      RowsFollowTasks

LEMMA SerialInvHolds == Spec /\ []OneByOne => []SerialInv
<1>1. SerialInv /\ OneByOne /\ [Next]_vars => SerialInv'
  <2> SUFFICES ASSUME SerialInv, OneByOne, [Next]_vars
               PROVE  SerialInv'
    OBVIOUS
  <2>1. RunnerTypes'
    BY StepKeepsTypes DEF SerialInv
  <2>2. CASE UNCHANGED vars
    BY <2>1, <2>2
    DEF SerialInv, RequestsAlone, TaskAlone, FreshIds, CommittedQueued,
        RowsFollowTasks, RowsFollow, vars, rows, requestVars, taskVars
  <2>3. QED
    BY <2>1, <2>2, RequestsKeepSerial, TasksKeepSerial, AppKeepsSerial DEF Next
<1>2. QED
  BY <1>1, InitSerial, PTL DEF Spec

(* As long as no two requests overlap, the runs of an experiment follow    *)
(* each other, through crashes and restarts.                               *)
THEOREM RunsInOrderHolds == Spec /\ []OneByOne => []RunsInOrder
<1>1. SerialInv => RunsInOrder
  BY DEF SerialInv, RowsFollowTasks, RowsFollow, RunsInOrder, Ready, Alive
<1>2. QED
  BY <1>1, SerialInvHolds, PTL

(* As long as no two requests overlap, what a run came to is final: no     *)
(* start, task or recovery changes it.                                     *)
THEOREM OutcomeIsFinalHolds == Spec /\ []OneByOne => OutcomeIsFinal
<1>1. ASSUME SerialInv, [Next]_vars, NEW r \in Run,
             status[r] \notin Unfinished \cup {"absent"}
      PROVE  status'[r] \in {status[r], "absent"}
  <2> USE ConstantFacts DEF SerialInv, RunnerTypes, TypeOK
  <2>1. ASSUME NEW q \in Request,
               \/ AskToRun(q) \/ InsertExperiment(q) \/ CreateTask(q)
               \/ RequestFails(q) \/ AskToClear(q) \/ ClearHistory(q)
        PROVE  status'[r] \in {status[r], "absent"}
    <3>1. r[1] # next_id
      BY <1>1, RunIs DEF FreshIds, Experiment
    <3>2. QED
      BY <2>1, <3>1
      DEF AskToRun, InsertExperiment, CreateTask, RequestFails, AskToClear,
          ClearHistory, rows
  <2>2. ASSUME NEW t \in Task,
               \/ InsertJobs(t) \/ MarkRunning(t) \/ Outcome(t) \/ MarkEnded(t)
               \/ TaskFails(t)
        PROVE  status'[r] \in {status[r], "absent"}
    <3>1. place[t] \in Alive
      BY <2>2 DEF InsertJobs, MarkRunning, Outcome, MarkEnded, TaskFails, Alive
    <3>2. run[t] # r
      BY <1>1, <3>1 DEF RowsFollowTasks, RowsFollow, Unfinished
    <3>3. CASE InsertJobs(t) \/ Outcome(t) \/ TaskFails(t)
      BY <3>3 DEF InsertJobs, Outcome, TaskFails, rows
    <3>4. CASE MarkRunning(t) \/ MarkEnded(t)
      BY <1>1, <3>2, <3>4 DEF MarkRunning, MarkEnded, SetStatus
    <3>5. QED
      BY <2>2, <3>3, <3>4
  <2>3. CASE StartApp \/ Close \/ CloseRaises \/ CloseRecovers \/ Stop
    BY <1>1, <2>3
    DEF StartApp, Close, CloseRaises, CloseRecovers, Stop, Recovered, rows
  <2>4. CASE UNCHANGED vars
    BY <2>4 DEF vars, rows
  <2>5. QED
    BY <1>1, <2>1, <2>2, <2>3, <2>4 DEF Next
<1>2. SerialInv /\ [Next]_vars =>
        [\A r \in Run : status[r] \notin Unfinished \cup {"absent"} =>
           status'[r] \in {status[r], "absent"}]_vars
  BY <1>1
<1>3. QED
  BY <1>2, SerialInvHolds, PTL DEF Spec, OutcomeIsFinal
=============================================================================
