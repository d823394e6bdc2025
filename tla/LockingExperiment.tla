------------------------- MODULE LockingExperiment -------------------------
(***************************************************************************)
(* One run of the locking experiment (app/experiment.py): consumers, each  *)
(* with its own connection, take the jobs of the run one by one, and work  *)
(* inside the transaction that selected the job.  The claim query has no   *)
(* locking clause, FOR UPDATE, or FOR UPDATE SKIP LOCKED.                  *)
(*                                                                         *)
(* A statement sees the rows committed when it started (its snapshot); a   *)
(* locking clause visits the rows of the snapshot in order, waits for or   *)
(* skips a row that another transaction has locked, and checks the row     *)
(* again once it has the lock (READ COMMITTED).  Row locks are released    *)
(* when the transaction ends.                                              *)
(***************************************************************************)
EXTENDS Integers, FiniteSets

CONSTANTS
  Job,        \* ids of the run's jobs
  Consumer,   \* the run's consumers
  Modes,      \* the modes to look at
  NoJob       \* the claim query returned no row

ASSUME ExperimentAssumption ==
  /\ Job \subseteq Nat
  /\ Consumer # {}          \* the form asks for at least one
  /\ Modes \subseteq {"no_lock", "for_update", "skip_locked"}
  /\ NoJob \notin Job

VARIABLES
  mode,        \* key of the run's mode
  run,         \* experiment_runs.status
  aborted,     \* the task group is being cancelled
  done,        \* jobs with status 'done', committed
  executions,  \* committed rows of experiment_executions, per job
  pc,          \* where each consumer is in its loop
  rows,        \* rows of the claim query's snapshot still to visit
  held,        \* rows each consumer's transaction has locked
  job          \* the job the claim query returned

consumerVars == <<pc, rows, held, job>>
vars == <<mode, run, aborted, done, executions, consumerVars>>

Busy  == {"working", "completing", "committing"}
Ended == {"returned", "cancelled"}
Place == {"claiming", "selecting", "checking"} \cup Busy \cup Ended

TypeOK ==
  /\ mode \in Modes
  /\ run \in {"running", "finished", "failed", "interrupted"}
  /\ aborted \in BOOLEAN
  /\ done \in SUBSET Job
  /\ executions \in [Job -> Nat]
  /\ pc \in [Consumer -> Place]
  /\ rows \in [Consumer -> SUBSET Job]
  /\ held \in [Consumer -> SUBSET Job]
  /\ job \in [Consumer -> Job \cup {NoJob}]

Init ==
  /\ mode \in Modes
  /\ run = "running"
  /\ aborted = FALSE
  /\ done = {}
  /\ executions = [j \in Job |-> 0]
  /\ pc = [c \in Consumer |-> "claiming"]
  /\ rows = [c \in Consumer |-> {}]
  /\ held = [c \in Consumer |-> {}]
  /\ job = [c \in Consumer |-> NoJob]

-----------------------------------------------------------------------------
(* The claim query.                                                        *)

Locking == mode # "no_lock"

LockedByOther(c, j) == \E d \in Consumer \ {c} : j \in held[d]

(* The row the query visits next: ORDER BY id.                             *)
First(c, j) == j \in rows[c] /\ \A k \in rows[c] : j <= k

(* BEGIN, and the claim query takes its snapshot.                          *)
Begin(c) ==
  /\ pc[c] = "claiming"
  /\ pc' = [pc EXCEPT ![c] = "selecting"]
  /\ rows' = [rows EXCEPT ![c] = Job \ done]
  /\ UNCHANGED <<mode, run, aborted, done, executions, held, job>>

Return(c, j) ==
  /\ job' = [job EXCEPT ![c] = j]
  /\ pc' = [pc EXCEPT ![c] = "working"]
  /\ UNCHANGED rows

(* Without a locking clause the first row of the snapshot is returned.     *)
Select(c, j) ==
  /\ pc[c] = "selecting"
  /\ ~Locking
  /\ First(c, j)
  /\ Return(c, j)
  /\ UNCHANGED <<mode, run, aborted, done, executions, held>>

(* With one, the row is locked first: FOR UPDATE waits until it can be.    *)
LockWithoutRecheck(c, j) ==   \* mutant: the row is returned as first seen
  /\ pc[c] = "selecting"
  /\ Locking
  /\ First(c, j)
  /\ ~LockedByOther(c, j)
  /\ held' = [held EXCEPT ![c] = @ \cup {j}]
  /\ Return(c, j)
  /\ UNCHANGED <<mode, run, aborted, done, executions>>

LockBriefly(c, j) ==          \* mutant: the lock does not outlive the query
  /\ pc[c] = "selecting"
  /\ Locking
  /\ First(c, j)
  /\ ~LockedByOther(c, j)
  /\ \/ j \notin done /\ Return(c, j)
     \/ j \in done /\ rows' = [rows EXCEPT ![c] = @ \ {j}] /\ UNCHANGED <<job, pc>>
  /\ UNCHANGED <<mode, run, aborted, done, executions, held>>

Lock(c, j) ==
  /\ pc[c] = "selecting"
  /\ Locking
  /\ First(c, j)
  /\ ~LockedByOther(c, j)
  /\ held' = [held EXCEPT ![c] = @ \cup {j}]
  /\ \/ j \notin done /\ Return(c, j)
     \/ j \in done /\ rows' = [rows EXCEPT ![c] = @ \ {j}] /\ UNCHANGED <<job, pc>>
  /\ UNCHANGED <<mode, run, aborted, done, executions>>

Skip(c, j) ==
  /\ pc[c] = "selecting"
  /\ mode = "skip_locked"
  /\ First(c, j)
  /\ LockedByOther(c, j)
  /\ rows' = [rows EXCEPT ![c] = @ \ {j}]
  /\ UNCHANGED <<mode, run, aborted, done, executions, pc, held, job>>

EndTransaction(c) == held' = [held EXCEPT ![c] = {}]

(* No row came back, and the transaction ends: every row was visited, or   *)
(* LIMIT 1 was spent on a row that is no longer pending.                   *)
NoRowKeepsTransaction(c) ==   \* mutant: the transaction is left open
  /\ pc[c] = "selecting"
  /\ rows[c] = {} \/ held[c] # {}
  /\ pc' = [pc EXCEPT ![c] = "checking"]
  /\ UNCHANGED <<mode, run, aborted, done, executions, rows, held, job>>

NoRowUnchecked(c) ==          \* mutant: the absence of a row is not tested
  /\ pc[c] = "selecting"
  /\ rows[c] = {} \/ held[c] # {}
  /\ pc' = [pc EXCEPT ![c] = "working"]
  /\ UNCHANGED <<mode, run, aborted, done, executions, rows, held, job>>

NoRow(c) ==
  /\ pc[c] = "selecting"
  /\ rows[c] = {} \/ held[c] # {}
  /\ pc' = [pc EXCEPT ![c] = "checking"]
  /\ EndTransaction(c)
  /\ UNCHANGED <<mode, run, aborted, done, executions, rows, job>>

-----------------------------------------------------------------------------
(* The work, COMPLETE_JOB_SQL and COMMIT.                                  *)

Work(c) ==
  /\ pc[c] = "working"
  /\ pc' = [pc EXCEPT ![c] = "completing"]
  /\ UNCHANGED <<mode, run, aborted, done, executions, rows, held, job>>

(* The UPDATE locks the row; it does not look at its status.               *)
Complete(c) ==
  /\ pc[c] = "completing"
  /\ ~LockedByOther(c, job[c])
  /\ held' = [held EXCEPT ![c] = @ \cup {job[c]}]
  /\ pc' = [pc EXCEPT ![c] = "committing"]
  /\ UNCHANGED <<mode, run, aborted, done, executions, rows, job>>

Commit(c) ==
  /\ pc[c] = "committing"
  /\ done' = done \cup {job[c]}
  /\ executions' = [executions EXCEPT ![job[c]] = @ + 1]
  /\ pc' = [pc EXCEPT ![c] = "claiming"]
  /\ job' = [job EXCEPT ![c] = NoJob]
  /\ EndTransaction(c)
  /\ UNCHANGED <<mode, run, aborted, rows>>

(* The EXISTS query: try again while a pending job is left.                *)
Check(c) ==
  /\ pc[c] = "checking"
  /\ pc' = [pc EXCEPT ![c] = IF Job \subseteq done THEN "returned" ELSE "claiming"]
  /\ UNCHANGED <<mode, run, aborted, done, executions, rows, held, job>>

-----------------------------------------------------------------------------
(* The end of the run: _run's task group, its timeout, recover().          *)

(* The timeout, or an exception in one of the consumers, cancels them.     *)
Abort ==
  /\ run = "running"
  /\ ~aborted
  /\ aborted' = TRUE
  /\ UNCHANGED <<mode, run, done, executions, consumerVars>>

(* A cancelled consumer's transaction is rolled back.                      *)
Cancel(c) ==
  /\ aborted
  /\ pc[c] \notin Ended
  /\ pc' = [pc EXCEPT ![c] = "cancelled"]
  /\ job' = [job EXCEPT ![c] = NoJob]
  /\ EndTransaction(c)
  /\ UNCHANGED <<mode, run, aborted, done, executions, rows>>

EndRunQuietly ==              \* mutant: a timeout or an error is not recorded
  /\ run = "running"
  /\ \A c \in Consumer : pc[c] \in Ended
  /\ run' = "finished"
  /\ UNCHANGED <<mode, aborted, done, executions, consumerVars>>

EndRun ==
  /\ run = "running"
  /\ \A c \in Consumer : pc[c] \in Ended
  /\ run' = IF aborted THEN "failed" ELSE "finished"
  /\ UNCHANGED <<mode, aborted, done, executions, consumerVars>>

(* The web app dies, and its next process marks the run.                   *)
Restart ==
  /\ run = "running"
  /\ run' = "interrupted"
  /\ aborted' = TRUE
  /\ pc' = [c \in Consumer |-> "cancelled"]
  /\ held' = [c \in Consumer |-> {}]
  /\ job' = [c \in Consumer |-> NoJob]
  /\ UNCHANGED <<mode, done, executions, rows>>

Step(c) ==
  \/ \E j \in Job : Select(c, j) \/ Lock(c, j) \/ Skip(c, j)
  \/ Begin(c) \/ NoRow(c) \/ Work(c) \/ Complete(c) \/ Commit(c) \/ Check(c)
  \/ Cancel(c)

(* The run is over: nothing happens to it any more.                        *)
Over == run # "running" /\ UNCHANGED vars

Next == (\E c \in Consumer : Step(c)) \/ Abort \/ EndRun \/ Restart \/ Over

Spec == Init /\ [][Next]_vars

(* The event loop runs every task that can go on, and the database every   *)
(* transaction.  No timeout, failure or restart is promised, and nothing   *)
(* is assumed of who gets a lock that several consumers want.              *)
Fairness ==
  /\ \A c \in Consumer : WF_vars(Step(c))
  /\ WF_vars(EndRun)

FairSpec == Spec /\ Fairness

-----------------------------------------------------------------------------
(* Properties.                                                             *)

(* With a locking clause no job is executed twice, an executed job is      *)
(* done, and a done job was executed ("Every job runs exactly once",       *)
(* experiment.py:54,61); without one a done job was executed at least      *)
(* once.  A rolled back transaction leaves neither.                        *)
ExecutionsMatchResults ==
  \A j \in Job :
     /\ j \in done <=> executions[j] > 0
     /\ Locking => executions[j] <= 1

(* FOR UPDATE without SKIP LOCKED lets one consumer work at a time         *)
(* ("throughput collapses to that of a single consumer").                  *)
OneWorksForUpdate ==
  mode = "for_update" =>
    \A c, d \in Consumer : pc[c] \in Busy /\ pc[d] \in Busy => c = d

(* A run that ends as 'finished' has executed every job, although each     *)
(* consumer decides on its own that nothing is left.                       *)
FinishedIsComplete == run = "finished" => Job \subseteq done

(* Row locks in id order make no deadlock, and asking again for locked     *)
(* rows no livelock: the run ends.                                         *)
RunEnds == <>(run # "running")
=============================================================================
