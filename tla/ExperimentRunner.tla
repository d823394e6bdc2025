-------------------------- MODULE ExperimentRunner --------------------------
(***************************************************************************)
(* The runner of locking experiments (ExperimentRunner in                  *)
(* app/experiment.py), the requests that start experiments and clear the   *)
(* history (app/routes/experiment.py), and the web app's start and         *)
(* shutdown (app/main.py).  What happens inside a run is the module        *)
(* LockingExperiment; here a run works until it has an outcome.            *)
(*                                                                         *)
(* Requests run concurrently in one event loop: between two awaits of one  *)
(* of them, nothing else happens.  An experiment has one run per mode.     *)
(***************************************************************************)
EXTENDS Integers, FiniteSets

CONSTANTS
  Request,         \* requests that can be in progress at the same time
  RunCount,        \* modes of an experiment
  MaxExperiments,  \* bound: ids the identity columns may hand out
  MaxTasks,        \* bound: tasks created over the life of the system
  NoTask

ASSUME RunnerAssumption ==
  /\ RunCount \in Nat \ {0}
  /\ MaxExperiments \in Nat
  /\ MaxTasks \in Nat
  /\ NoTask \notin 1..MaxTasks

Experiment == 1..MaxExperiments
Run        == Experiment \X (1..RunCount)
Task       == 1..MaxTasks

VARIABLES
  app,        \* the web app's process
  next_id,    \* identity of experiments
  status,     \* experiment_runs.status of each run, "absent" without a row
  jobs,       \* runs whose experiment_jobs have been inserted
  pc,         \* where each request is
  inserted,   \* the experiment a starting request has committed
  _task,      \* runner._task
  created,    \* number of tasks created
  place,      \* where each task is
  run,        \* the run each task is working on
  unanswered  \* history: experiments committed by a start that then failed

rows == <<next_id, status, jobs>>
requestVars == <<pc, inserted, unanswered>>
taskVars == <<_task, created, place, run>>
vars == <<app, rows, requestVars, taskVars>>

RunStatus  == {"queued", "running", "finished", "failed", "interrupted"}
Unfinished == {"queued", "running"}
Alive      == {"preparing", "marking", "working", "finished", "failed"}

TypeOK ==
  /\ app \in {"up", "recovering", "closed", "down"}
  /\ next_id \in 1..(MaxExperiments + 1)
  /\ status \in [Run -> RunStatus \cup {"absent"}]
  /\ jobs \in SUBSET Run
  /\ pc \in [Request -> {"idle", "starting", "committed", "clearing"}]
  /\ inserted \in [Request -> Experiment \cup {0}]
  /\ _task \in Task \cup {NoTask}
  /\ created \in 0..MaxTasks
  /\ place \in [Task -> Alive \cup {"none", "ended", "crashed"}]
  /\ run \in [Task -> Run \cup {<<0, 0>>}]
  /\ unanswered \in SUBSET Experiment

Init ==
  /\ app = "down"
  /\ next_id = 1
  /\ status = [r \in Run |-> "absent"]
  /\ jobs = {}
  /\ pc = [q \in Request |-> "idle"]
  /\ inserted = [q \in Request |-> 0]
  /\ _task = NoTask
  /\ created = 0
  /\ place = [t \in Task |-> "none"]
  /\ run = [t \in Task |-> <<0, 0>>]
  /\ unanswered = {}

-----------------------------------------------------------------------------
(* POST /experiment: run_experiment and ExperimentRunner.start.            *)

running == _task # NoTask /\ place[_task] \in Alive

AskUnchecked(q) ==   \* mutant: the route does not ask whether one is running
  /\ app = "up"
  /\ pc[q] = "idle"
  /\ pc' = [pc EXCEPT ![q] = "starting"]
  /\ UNCHANGED <<app, rows, inserted, unanswered, taskVars>>

(* `if runner.running` passes, and start awaits a connection.              *)
AskToRun(q) ==
  /\ app = "up"
  /\ pc[q] = "idle"
  /\ ~running
  /\ pc' = [pc EXCEPT ![q] = "starting"]
  /\ UNCHANGED <<app, rows, inserted, unanswered, taskVars>>

(* start's transaction commits: one experiment with its queued runs.       *)
InsertExperiment(q) ==
  /\ pc[q] = "starting"
  /\ next_id <= MaxExperiments
  /\ next_id' = next_id + 1
  /\ status' = [r \in Run |-> IF r[1] = next_id THEN "queued" ELSE status[r]]
  /\ inserted' = [inserted EXCEPT ![q] = next_id]
  /\ pc' = [pc EXCEPT ![q] = "committed"]
  /\ UNCHANGED <<app, jobs, unanswered, taskVars>>

(* Back from the await: runner._task is overwritten.                       *)
CreateTask(q) ==
  /\ pc[q] = "committed"
  /\ created < MaxTasks
  /\ created' = created + 1
  /\ _task' = created'
  /\ place' = [place EXCEPT ![created'] = "preparing"]
  /\ run' = [run EXCEPT ![created'] = <<inserted[q], 1>>]
  /\ pc' = [pc EXCEPT ![q] = "idle"]
  /\ UNCHANGED <<app, rows, inserted, unanswered>>

(* psycopg.Error fails the request, perhaps after the commit took place.   *)
RequestFails(q) ==
  /\ pc[q] \in {"starting", "committed", "clearing"}
  /\ pc' = [pc EXCEPT ![q] = "idle"]
  /\ unanswered' =
       IF pc[q] = "committed" THEN unanswered \cup {inserted[q]} ELSE unanswered
  /\ UNCHANGED <<app, rows, inserted, taskVars>>

-----------------------------------------------------------------------------
(* POST /experiment/clear: clear_experiments and clear_history.            *)

AskToClear(q) ==
  /\ app = "up"
  /\ pc[q] = "idle"
  /\ ~running
  /\ pc' = [pc EXCEPT ![q] = "clearing"]
  /\ UNCHANGED <<app, rows, inserted, unanswered, taskVars>>

ClearHistory(q) ==
  /\ pc[q] = "clearing"
  /\ next_id' = 1
  /\ status' = [r \in Run |-> "absent"]
  /\ jobs' = {}
  /\ pc' = [pc EXCEPT ![q] = "idle"]
  /\ unanswered' = {}
  /\ UNCHANGED <<app, inserted, taskVars>>

-----------------------------------------------------------------------------
(* The background task: _run_all and _run.                                 *)

GoTo(t, p) == place' = [place EXCEPT ![t] = p]

(* INSERT INTO experiment_jobs: fails without a run row (foreign key) and  *)
(* when the run's jobs exist already (primary key).                        *)
InsertJobs(t) ==
  /\ place[t] = "preparing"
  /\ status[run[t]] # "absent"
  /\ run[t] \notin jobs
  /\ jobs' = jobs \cup {run[t]}
  /\ GoTo(t, "marking")
  /\ UNCHANGED <<app, next_id, status, requestVars, _task, created, run>>

SetStatus(r, s) ==
  status' = [status EXCEPT ![r] = IF @ = "absent" THEN @ ELSE s]

MarkRunning(t) ==
  /\ place[t] = "marking"
  /\ SetStatus(run[t], "running")
  /\ GoTo(t, "working")
  /\ UNCHANGED <<app, next_id, jobs, requestVars, _task, created, run>>

(* The task group ends; `finished` or `failed` is what will be written.    *)
Outcome(t) ==
  /\ place[t] = "working"
  /\ \E outcome \in {"finished", "failed"} : GoTo(t, outcome)
  /\ UNCHANGED <<app, rows, requestVars, _task, created, run>>

MarkEndedLate(t) ==      \* mutant: only the last run's outcome is written
  /\ place[t] \in {"finished", "failed"}
  /\ IF run[t][2] < RunCount
     THEN /\ run' = [run EXCEPT ![t] = <<@[1], @[2] + 1>>]
          /\ GoTo(t, "preparing")
          /\ UNCHANGED status
     ELSE /\ GoTo(t, "ended")
          /\ SetStatus(run[t], place[t])
          /\ UNCHANGED run
  /\ UNCHANGED <<app, next_id, jobs, requestVars, _task, created>>

MarkEndedOneTooMany(t) ==   \* mutant: goes on to a run that does not exist
  /\ place[t] \in {"finished", "failed"}
  /\ SetStatus(run[t], place[t])
  /\ IF run[t][2] <= RunCount
     THEN /\ run' = [run EXCEPT ![t] = <<@[1], @[2] + 1>>]
          /\ GoTo(t, "preparing")
     ELSE /\ GoTo(t, "ended")
          /\ UNCHANGED run
  /\ UNCHANGED <<app, next_id, jobs, requestVars, _task, created>>

(* The final UPDATE, after which _run_all goes on to the next run.         *)
MarkEnded(t) ==
  /\ place[t] \in {"finished", "failed"}
  /\ SetStatus(run[t], place[t])
  /\ IF run[t][2] < RunCount
     THEN /\ run' = [run EXCEPT ![t] = <<@[1], @[2] + 1>>]
          /\ GoTo(t, "preparing")
     ELSE /\ GoTo(t, "ended")
          /\ UNCHANGED run
  /\ UNCHANGED <<app, next_id, jobs, requestVars, _task, created>>

(* psycopg.Error in a statement outside the try block, constraint          *)
(* violations included: the task ends, its runs stay as they are.          *)
TaskFails(t) ==
  /\ place[t] \in {"preparing", "marking", "finished", "failed"}
  /\ GoTo(t, "crashed")
  /\ UNCHANGED <<app, rows, requestVars, _task, created, run>>

-----------------------------------------------------------------------------
(* The web app: lifespan.  Shutdown waits for the requests in progress.    *)

Recovered ==
  status' = [r \in Run |->
    IF status[r] \in Unfinished THEN "interrupted" ELSE status[r]]

StartWithoutRecover ==   \* mutant: lifespan does not call recover()
  /\ app = "down"
  /\ app' = "up"
  /\ _task' = NoTask
  /\ UNCHANGED <<rows, requestVars, created, place, run>>

StartApp ==
  /\ app = "down"
  /\ app' = "up"
  /\ _task' = NoTask
  /\ Recovered
  /\ UNCHANGED <<next_id, jobs, requestVars, created, place, run>>

(* close(): the task is cancelled and awaited ...                          *)
CloseWithoutAwait ==     \* mutant: ... but its end is not awaited
  /\ app = "up"
  /\ \A q \in Request : pc[q] = "idle"
  /\ _task # NoTask
  /\ app' = "recovering"
  /\ UNCHANGED <<rows, requestVars, _task, created, run, place>>

Close ==
  /\ app = "up"
  /\ \A q \in Request : pc[q] = "idle"
  /\ _task # NoTask
  /\ place[_task] # "crashed"
  /\ app' = "recovering"
  /\ place' = [place EXCEPT ![_task] = "ended"]
  /\ UNCHANGED <<rows, requestVars, _task, created, run>>

(* Awaiting a task that an error has ended raises the error again.         *)
CloseRaises ==
  /\ app = "up"
  /\ \A q \in Request : pc[q] = "idle"
  /\ _task # NoTask
  /\ place[_task] = "crashed"
  /\ app' = "closed"
  /\ UNCHANGED <<rows, requestVars, taskVars>>

(* ... and then recover() marks what it left.                              *)
CloseRecovers ==
  /\ app = "recovering"
  /\ Recovered
  /\ app' = "closed"
  /\ UNCHANGED <<next_id, jobs, requestVars, taskVars>>

(* The process ends, of its own or by a crash, with all that runs in it.   *)
Stop ==
  /\ app # "down"
  /\ app' = "down"
  /\ pc' = [q \in Request |-> "idle"]
  /\ _task' = NoTask
  /\ place' = [t \in Task |-> IF place[t] \in Alive THEN "ended" ELSE place[t]]
  /\ UNCHANGED <<rows, inserted, unanswered, created, run>>

Next ==
  \/ \E q \in Request :
       \/ AskToRun(q) \/ InsertExperiment(q) \/ CreateTask(q) \/ RequestFails(q)
       \/ AskToClear(q) \/ ClearHistory(q)
  \/ \E t \in Task :
       \/ InsertJobs(t) \/ MarkRunning(t) \/ Outcome(t) \/ MarkEnded(t)
       \/ TaskFails(t)
  \/ StartApp \/ Close \/ CloseRaises \/ CloseRecovers \/ Stop

Spec == Init /\ [][Next]_vars

-----------------------------------------------------------------------------
(* Properties.                                                             *)

(* "Runs one experiment at a time in a background task of the web app"     *)
(* (experiment.py:93): no two tasks are alive together.  It holds while    *)
(* requests come one after the other, and fails for two that overlap.      *)
OneAtATime ==
  \A t, u \in Task : place[t] \in Alive /\ place[u] \in Alive => t = u

(* The history is not cleared under an experiment that is running ("Wait   *)
(* for the running experiment to finish.", routes/experiment.py:108): a    *)
(* task never works on rows that are gone.  It fails when the request that *)
(* clears is past its test while another one starts an experiment.         *)
ClearedOnlyAtRest ==
  \A t \in Task : place[t] \in Alive => status[run[t]] # "absent"

(* The runs of an experiment follow each other: while one is being worked  *)
(* on, the earlier ones have ended and the later ones are queued.          *)
RunsInOrder ==
  \A t \in Task, r \in Run :
     place[t] = "working" /\ r[1] = run[t][1] /\ status[r] # "absent" =>
       /\ r[2] < run[t][2] => status[r] \in {"finished", "failed"}
       /\ r[2] = run[t][2] => status[r] = "running"
       /\ r[2] > run[t][2] => status[r] = "queued"

(* What a run came to is final: a run that ended is not resumed, and one   *)
(* that was interrupted is not reported as finished, unless the history    *)
(* is cleared.                                                             *)
OutcomeIsFinal ==
  [][\A r \in Run :
       status[r] \notin Unfinished \cup {"absent"} =>
         status'[r] \in {status[r], "absent"}]_vars

(* While the web app is up, a run that is not over is being worked on or   *)
(* waits for its turn, except where a database error ended its task or     *)
(* its request: nothing else strands a run, not even a crash of an         *)
(* earlier process.                                                        *)
NoStrandedRun ==
  app = "up" =>
    \A r \in Run : status[r] \in Unfinished =>
      \/ \E q \in Request : pc[q] = "committed" /\ inserted[q] = r[1]
      \/ \E t \in Task :
           /\ run[t][1] = r[1]
           /\ \/ place[t] \in Alive /\ run[t][2] <= r[2]
              \/ place[t] = "crashed"
      \/ r[1] \in unanswered
=============================================================================
