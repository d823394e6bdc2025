# Verification of fastapi-pg-broker-demo

TLA+ models of the message broker, its workers and its locking experiment,
checked with TLC and, where it says so, proved with TLAPS. Paths below are
relative to the repository (`app/...`, `sql/...`).

## 1. The system and its components

| Component | State it keeps | Operations | Module |
| --- | --- | --- | --- |
| Message table (`app/broker/messages.py`, `sql/schema.sql`) | one row per message: status, queue, priority, attempts, due time, lease, end | publish, claim, ack, nack, renew, reap, requeue, purge, reset | `Messages`; row by row in `Statements` |
| Consumer loop (`app/consumer.py`) | where it is in its loop, current message, `stopping` | claim, handle, ack or nack, wait, database error | `Delivery`; with a server that outlives its clients in `LateStatements` |
| Worker (`app/worker.py`) | consumers, finished consumers, tasks | start, stop, kill, heartbeat, commands, shutdown | `WorkerControl`; leases in `Delivery`; time in `LeaseTiming` |
| Reaper (`app/reaper.py`) | none | take back expired leases, forget lost workers | `Delivery` (leases), `WorkerControl` (registry) |
| Registry, remote control (`app/broker/registry.py`, `control.py`, `app/routes/workers.py`) | `workers`, `consumers`, `worker_commands` | heartbeat, remove, forget, send and take commands | `WorkerControl` |
| Notifier (`app/notifier.py`, triggers of `sql/schema.sql`) | `version`, LISTEN connection | poke, wait_newer, listen | `Notifier` |
| Locking experiment, one run (`_run`, `_consumer` in `app/experiment.py`) | jobs, executions, open transactions and row locks | claim in three modes, work, complete, check, time out | `LockingExperiment` |
| Experiment runner (`ExperimentRunner`, `app/routes/experiment.py`, `app/main.py`) | runs, background task, requests in progress | start, clear, run, recover, close, crash | `ExperimentRunner` |
| Start-up (`app/db.py`, `lifespan` in `app/main.py`, `main` in `app/worker.py`, `sql/schema.sql`) | table locks, the advisory lock | apply the schema, among processes at work | `SchemaBootstrap` |
| Pages, monitoring queries, packaging | none of their own | read, render | not modelled |

The web app and the workers never talk to each other: everything goes through
PostgreSQL. Producers insert rows; a trigger notifies; each consumer of a worker
claims a row with one statement, which makes it the holder of a *lease*
(`locked_by`, `locked_at`), handles it without an open transaction, and acks or
nacks it with a statement that compares `locked_by`. The worker's heartbeat
renews the leases of its consumers; reapers in every process take back leases
that were not renewed.

What is hard here: a lease may end while its holder goes on working; replies and
statements are lost, and the consumer cannot tell which; a heartbeat writes what
it collected before an await; ids and holders repeat, while no statement carries
a number of the lease; crashes happen between any two awaits; and in the
experiment, row locks are held for the length of a job, and requests test a
condition before an await and act on it afterwards. Statements of many processes
overlap in the database and meet on rows and on tables; a lease is only worth as
much as the clocks of heartbeats, timeouts and shutdowns allow. `PROJECT.json` lists these
hazards line by line, with the properties that would show them going wrong.

## 2. Modules

| Module | Contents |
| --- | --- |
| `Messages` | The table; one action per SQL statement. |
| `Workers` | EXTENDS `Messages`: the constants its clients share, which worker each consumer runs in. |
| `Statements` | EXTENDS `Workers`: the same statements executed row by row, with snapshots and row locks, many at a time; implements `Messages`. |
| `Delivery` | EXTENDS `Workers`: consumers, heartbeats, reapers, operator and clock as its clients. |
| `AtLeastOnce` | The abstract promise: a message is waiting, out to one holder, completed or dead. |
| `LateStatements` | EXTENDS `Delivery`: statements executed after their clients have given up. |
| `LeaseTiming` | One worker, one consumer and one lease in real time. |
| `SchemaBootstrap` | The schema script, table locks and the deadlock detector. |
| `LockingExperiment` | One run of the experiment on snapshots and row locks. |
| `ExperimentRunner` | The life of experiments in the web app. |
| `WorkerControl` | One worker process, its registry rows and its commands. |
| `Notifier` | Triggers, the LISTEN connection, and the loops that wait for them. |
| `MC*` | Instances for TLC. |
| `MessagesProofs` (of `Messages` and `Statements`), `DeliveryProofs` (of `Delivery` and `LateStatements`), `LeaseTimingProofs`, `LockingExperimentProofs`, `ExperimentRunnerProofs`, `WorkerControlProofs`, `NotifierProofs`, `SchemaBootstrapProofs` | Theorems and proofs. |

### Messages

One variable per column, indexed by id; `status[m] = "absent"` means that there
is no such row. Pooled connections are in autocommit mode (`app/db.py:19`), so a
statement is one action. A time is kept relative to `now()`: `due_in` counts down
to `available_at`, `lease_age` counts up from `locked_at` (-1 for NULL). `Tick`
makes time pass. Payload, `last_error` and `created_at` decide nothing.

`CLAIM_SQL` takes the first ready row that is not locked. Which rows are locked
by other statements at that moment is a parameter (`locked`), which may be any set:
a claim may come back without a message, or out of priority order. `REAP_SQL` has the
same parameter. `REQUEUE_SQL` and `PURGE_DEAD_SQL` act on any set of dead rows: of those
their WHERE clause names, the ones that were dead in their snapshot and still are.

### Statements

A session (a pooled connection) executes one statement at a time. It begins with the
rows its WHERE clause finds in the snapshot (`Begin`), then takes them one by one: a
row that another transaction has locked is waited for, or passed over where the
statement says SKIP LOCKED; a row that has changed since is looked at again under the
lock (`Take`), and left if it no longer qualifies (`Leave`). `Write` changes what was
taken. The transaction ends with the statement, except in a heartbeat, which renews one
lease after the other in one transaction and keeps its row locks. `Rollback` ends any
transaction at any moment. `AtomicStatements` says that all of this is `TableSpec`, the
specification of `Messages`: each statement acts as if alone, at one moment of its
execution. Publish locks no row and stays one action; since the identity sequence is
not transactional, the ids of two publishes that overlap may be interleaved; only the
notice of the publish page, which names the first and the last id, would show it. Times are those of the statement's begin in
PostgreSQL; that difference is the subject of `LeaseTiming`.

`HeartbeatsDoNotDeadlock` is about the rows a heartbeat has renewed. A heartbeat also
keeps the lock of a row it found lost, and requeue and purge may visit common rows in
different orders: such circles can close, one of the transactions is aborted
(`Rollback`), and its client sees a database error.

### Delivery

`pc[c]` is where consumer `c` waits:

    loop -> claiming -> granted -> handling -> acking / nacking -> answered -> loop
              |            claim committed,     statement sent      executed,
              v            reply on its way                         reply on its way
            idle (waits for work, or sleeps after a database error)

A step of the consumer is what happens between two awaits or at the database, so
a lost statement and a lost reply are different behaviours: `DatabaseError` is
possible before and after the statement took place. `BeatStart` collects leases,
`BeatCommit` renews them, and anything may happen in between. `Kill` and `Crash`
are possible in every place. Consumers that were started later are consumers
that have not moved yet.

Two history variables follow the table and decide nothing: `mine[c]` says that
the row still carries the lease of `c`'s last claim (the lease number that the
code does not have), `succeeded` holds the messages whose handler returned
normally under the present lease.

### LateStatements

When a consumer gives up (a broken connection, a kill, a crash), what it has sent may
already be at the server: `late` holds the claims, acks and nacks that survive their
clients, and `Execute` lets the server carry one out at any later time. A late heartbeat
is not included: a renewal looks at the row again when it is executed, and renews
only a lease that is still held. `handled` records for which ids the handler of a
consumer has ever returned normally.

With late statements `DoneOnlyAfterSuccess` and `LateReplyIsIgnored` no longer hold: a
late ack that meets its own consumer in a new lease of the same row completes it before
the handler has run again, and after `reset` that row may be another message under the
old id. What is left, and what the comparison of `locked_by` alone buys, is
`DoneByAHandler`: a message that is done names a consumer whose handler has completed
a message of that id.

### LeaseTiming

One worker with one consumer, in ticks. `lease_age`, `row_age` and `seen_age` are the
ages of `locked_at`, of `workers.heartbeat_at` and of the consumer's `heartbeat_at`; what a
heartbeat has collected (`carries`) is the worker alone, the consumer with it, or also the
message in hand. A heartbeat is collected, begun, committed and
answered at different ticks, and writes the time of its begin (`now()` in a
transaction), so that of two heartbeats of different tasks the older may write last.
`Tick` is held up by what must happen first: an answer within `ClaimTime` or `BeatTime`,
the loop's sleep of `HeartbeatInterval`, the grace of `stop_all`. `MaxFailures` heartbeats
in a row may fail. The assumption `SettingsFit` states which settings are good enough:
`RenewedBy` and `RefreshedBy` are how old a lease and a row can become.

A consumer ends by itself (`Exit`), by a kill command while its worker goes on (`Kill`), in
the shutdown (`Closed`) or with its process (`Crash`). It lets go of a message while it goes
on when the answer to its claim is lost (`ReplyLost`) or its ack or nack fails
(`SettleFails`): the row stays 'processing', nobody renews it, and a reaper takes it back
from a consumer that is shown alive. That is how the program works, and no property here
says otherwise; such a lease is `left`, its age is not followed further, and what happens to
the message is in `Delivery`. `Init` is after the first heartbeat that lists the consumer.
Rows are not forgotten here: that takes a minute, and `WorkerControl` has it.

### SchemaBootstrap

A process that is down starts by running `schema.sql` in one transaction; a process
that is up runs any transaction of the program, among them the `TRUNCATE` of four tables
that clears the history. A transaction is the sequence of the
table locks it takes; it asks for them one after the other, and holds what it was granted
until it ends. `granted` is how far along that sequence it is; locks that clash with no
other are passed over in the same step (`FirstPast`). Statements of the script that change nothing still lock: Share for
CREATE INDEX IF NOT EXISTS, ShareRowExclusive for CREATE OR REPLACE TRIGGER. A request
waits for conflicting locks and for conflicting requests ahead of it in the queue.
A circle of processes that wait for each other's locks is broken by `Abort`, and a
starting process that is aborted exits; a circle that only the order of the queue closes is
opened by `Overtake`, with which the deadlock detector puts a request ahead. Left out are
single-table reads that meet no TRUNCATE of several tables, and the sequences that
RESTART IDENTITY locks once TRUNCATE has all its tables.

### AtLeastOnce

`KeepsPromise` instantiates it with the stage of each row, `locked_by` for
`holder` and `succeeded` for `proven`. It leaves out time, attempts, queues,
priorities and every process.

### LockingExperiment

A claim query takes a snapshot (`Begin`) and visits its rows in order. Without a
locking clause the first row is returned as it was seen; with one, the row is
locked first (`Lock` waits for that, `Skip` passes over it), and is looked at
again under the lock. `Complete` locks the row too, and in the mode without a
locking clause several consumers may queue up for it. After a row that turns out
to be done, PostgreSQL may go on to the next row or return nothing because
`LIMIT 1` was spent; the model allows both. The end of a transaction releases
its locks. `Abort` stands for the timeout and for any error in a consumer.

### ExperimentRunner

A request is divided where it awaits: `AskToRun` (test of `runner.running`),
`InsertExperiment` (commit), `CreateTask` (assignment of `_task`). A background
task is divided into its statements. `Outcome` abbreviates the whole of
`LockingExperiment`. Shutdown waits for requests in progress (as uvicorn does),
then cancels and awaits the task, then calls `recover()`; awaiting a task that
an error had ended raises that error again (`CloseRaises`). `Stop` ends the
process in any state. `inserted`, `unanswered` and `place` of old tasks are
history.

### WorkerControl

One worker from its first heartbeat to its end; a restarted worker is another one,
with another id. `process` says how far `main` and `close()` have come. Three
tasks call `_beat`: `main`, the heartbeat loop and the command loop. Each call is
divided at its awaits (`Collect`, `BeatCommit`, `BeatReply`, `BeatRemove`), so two
calls may overlap, and `_finished` is emptied by whichever reply comes first.
`TakeCommands` brings a batch that `Execute*` works off; a heartbeat that fails in
a start command loses the rest of the batch. `Exit` is the end of a consumer's loop
together with its `_on_consumer_exit`; the callback of a killed task does nothing,
so it is part of `ExecuteKill`. A registry row is *stale* when its last heartbeat is
older than `FORGET_LOST_WORKERS_AFTER_S`, which may happen at any moment, because a
process may be frozen. Consumers are kept to what the registry and a kill see of
them: no work, a claim under way, or a message. `executed`, `notices` and
`disturbed` are history. Not modelled: the state and the counters a row shows, and
commands with arguments the routes do not send.

### Notifier

A consumer reads `version` (`Look`), claims (`ClaimMessage`, `ClaimNothing`,
`ClaimFails`), and, once the empty answer has arrived (`Wait`), waits for a newer
version or the poll interval. Notifications
reach `in_flight` only while the LISTEN connection is open, and are lost with it.
The claim of an empty-handed consumer is exact about the one case in which a ready
message is not found: another claim has it locked. `notified` and `passed_over` are
history. Not modelled: several queues and several workers (a notification wakes
everybody, whatever its payload), and the second between two attempts to connect.

## 3. What TLC checks

| Run | Instance | Properties |
| --- | --- | --- |
| `statements` | 2 ids, 2 sessions, 3 consumers in 2 workers, 1 queue, limit 1, timeout 0; any client | `TableTypeOK`, `RetryBudget`, `LeaseColumns`, `HeartbeatsDoNotDeadlock`, `ResultStands`, `AtomicStatements` |
| `delivery` | 1 id, 2 consumers in 2 workers, one never stopped, limit 2, delays 0 and 1, timeout 1, fairness | `DeliveryTypeOK`, `DoneOnlyAfterSuccess`, `LateReplyIsIgnored`, `KeepsPromise`, `OrphansRecovered`, `EventuallySettled` |
| `late` | 1 id, 2 consumers in 2 workers, limit 2, timeout 0, at most 2 late statements at a time | `DoneByAHandler` |
| `schema` | 3 processes, fairness | `TypeOK`, `OnlyKnownDeadlocks`, `TransactionsEnd` |
| `lease_time` | the settings of `app/config.py` in ticks of 0.2 s, answers within a tick, 1 failed heartbeat, 2 tasks that send heartbeats | `NotRobbed`, `NotShownLost`, `NoticedFirst` |
| `locking` | 3 jobs, 3 consumers, 3 modes, fairness | `TypeOK`, `ExecutionsMatchResults`, `OneWorksForUpdate`, `FinishedIsComplete`, `RunEnds` |
| `runner` | 1 request at a time, 2 experiments of 2 runs, 3 tasks | `TypeOK`, `OneAtATime`, `RunsInOrder`, `OutcomeIsFinal`, `NoStrandedRun` |
| `runner_race` | 2 requests at a time | `OneAtATime`, violated |
| `clear_race` | 2 requests at a time | `ClearedOnlyAtRest`, violated |
| `worker` | no initial consumer, 2 commands of at most 1 consumer, 1 message, fairness | `TypeOK`, `DeregisteredForGood`, `CommandsInOrder`, `FinishedLeaveNoRow`, `GoneConsumersForgotten`, `GoneWorkerForgotten`, `RunningConsumersShown` |
| `kill_notice` | 1 initial consumer, 1 command, 1 message | `KillNoticeHolds`, violated |
| `wake_up` | 2 messages, 1 command, 2 consumers, 3 pokes | `TypeOK`, `NoMessageSleptPast`, `NoCommandSleptPast` |

Why these bounds are enough to be interesting. In `statements`, two rows let a heartbeat
hold one and wait for the other, two sessions let each meet the other's locks, and
three consumers of two workers let leases of one heartbeat and of another be
exchanged between them; it also passes with priorities 0 and 10, and with four
consumers, in more time than a check should take. In `delivery`, one message is enough
for a lease to be lost, passed to another consumer and back to the first; a reset
publishes a new message under the same id. Limit 2 gives both a retry and a dead
letter. Timeout 1 lets a heartbeat save a lease that would otherwise expire. In `late`,
two statements outlive their clients, so that a late claim and a late ack can meet. In
`schema`, three processes are one that starts and two that meet it, or two starts and
one at work, and any of them may die and start again. In `lease_time` the bounds that
`SettingsFit` computes are tight: in a small instance a visibility timeout one tick
shorter violates `NotRobbed`, and a `LostAfter` one tick shorter violates `NotShownLost`.
With the settings as they are and a database that answers within 0.2 s, one heartbeat in
a row may fail. A worker in its shutdown sends no heartbeats, and may be shown as lost
during its grace. `MaxAge` ends what is followed after a worker or consumer has been silent for
longer than the visibility timeout, so every reaping it covers happens. In the experiment, three consumers and
three jobs let one consumer wait for a row, find it done and meet a row that the
third has locked. In the worker, two commands are a start and a kill or stop of what
it started, or two commands whose order can be seen; consumers come from start commands, as
`main` starts its own by the same calls (safety is proved for any number of both).
Three pokes are the one after LISTEN, one that wakes a loop, and one more while it
looks. Bounds are the constants `MaxId`, `MaxBatch`,
`MaxExperiments`, `MaxTasks`, `MaxCount`,
`MaxCommands`, `MaxVersion`, `MaxLate`, `MaxAge`; ids start again after a reset, so the table never
fills up for good. Deadlock is checked in every run.

Fairness. `delivery` assumes that time passes, that a process that lives goes on
(an asyncio task that can run is run), that a statement ends in a reply or an
error, that some reaper runs (every process has one, and the loop survives
database errors), and that a consumer that asks again and again while messages
are ready is given one some day: claims do not fail forever. Nothing is assumed
of handlers, nor of consumers that may be killed, nor that an ack ever succeeds.
`locking` assumes that consumers go on and that a transaction that can
proceed does; it assumes nothing of who gets a contested lock. `schema` assumes that a
transaction that need not wait goes on and that the deadlock detector runs; that
nobody is passed over for ever follows from the queue of the lock manager.

`worker` assumes that a heartbeat under way goes on or fails, that the heartbeat loop
comes round, that a heartbeat which the loop tries again and again succeeds some day
(strong fairness of its `BeatCommit`: a heartbeat may fail, not always), that time passes
and that some reaper runs. Nothing is assumed of consumers and their handlers, of commands,
or of how far a shutdown gets.
`wake_up` states safety only: a loop that sleeps with nothing but the poll interval
to wake it has nothing to do.

`FinishedLeaveNoRow` is limited, on purpose, to workers whose heartbeats neither
failed nor overlapped. A failed `remove_consumers` leaves the rows of finished
consumers (`_finished` has been emptied before, `app/worker.py:193`), and so does a
heartbeat that collected before a consumer finished and commits after another
heartbeat removed it. Such a row is shown until it is a minute old
(`GoneConsumersForgotten`). `NoMessageSleptPast` exempts messages that become due
without a notification (delayed, or retried after a backoff: the triggers compare
`available_at` once), and messages that were locked by another claim when the
consumer looked and whose claim then failed: both wait for the poll interval.

`EventuallySettled` has a premise: from some point on the operator presses no
buttons. Requeueing the same dead message for ever would indeed keep it going.
Other messages cannot starve it in the instance checked, which has one id; a
queue that always holds a message of higher priority would.

`OnlyKnownDeadlocks` states which deadlocks are left, and so it is the record of
weaknesses rather than of a strength. A process that starts while a worker renews leases
may be aborted by the deadlock detector: the heartbeat holds `consumers` and wants
`messages`, the script holds `messages` and wants `consumers`. If the detector chooses the
heartbeat, it is logged and sent again; if it chooses the script, the process exits, and
`compose.yaml` restarts nothing. A request that clears the history may deadlock with the
page that reads the results, at any time (`RESULTS_SQL` locks `experiment_runs` before
`experiments`), and, in the race of `clear_race`, with the statements that write
`experiment_jobs` and reach `experiment_runs` by their foreign keys. The request that is
aborted fails; if it was the experiment's, its task or run fails. TLC finds each of
these circles in the instance of `schema`. No document says otherwise, so they are not listed as
findings.

### Findings

* `runner_race`: `app/experiment.py:93` says that the runner "Runs one experiment
  at a time in a background task of the web app." Two requests that arrive
  together both see `runner.running` false (`app/routes/experiment.py:97`),
  because `_task` is assigned only after `start` has awaited a connection and a
  transaction (`app/experiment.py:118-138`). Both experiments run, the first task
  is no longer known to the runner, and `close()` cancels only the second. With
  one request at a time the property holds (`runner`).

* `clear_race`: a request to clear the history while an experiment runs is answered "Wait
  for the running experiment to finish." (`app/routes/experiment.py:108`). The same gap
  defeats this test: while one request has committed its runs and not yet created their
  task, another finds `runner.running` false and truncates the tables; the task then
  works for rows that are gone. With one request at a time this cannot be.

* `kill_notice`: the kill page says "Killed … while it held message #… . The message
  stays 'processing' until its lease expires" (`app/routes/workers.py:141-143`). The
  message is that of the last heartbeat and the kill is executed later: in the run
  the consumer has settled the message by then, and is killed with nothing in hand.

## 4. What is proved

The theorems hold for all values of the constants that satisfy
the named assumptions of their modules: any number of ids, consumers, sessions,
workers, queues, any limits, delays and timeouts; for `LeaseTiming`, all settings that
satisfy `SettingsFit`. TLC evaluates the assumptions in every run.

* `MessagesProofs`. The inductive invariant is `TableInv`: types, `RetryBudget`,
  `LeaseColumns`, and `FreshIds` (no row at or above `next_id`). Given the types,
  `RetryBudget` and `LeaseColumns` are inductive each by itself; `FreshIds` is what
  `ResultStandsHolds` needs, because publish must insert into free ids only.
  For `Statements`, `StatementsAreAtomic` proves the refinement: every step of
  `Statements` is a step of `Messages` or leaves the table alone. It rests on
  `StatementsInv`: a row is locked by one transaction at most (`LocksExclude`), and what a
  statement will write it has locked and found to qualify (`TakenAreFound`), which stays
  so because every writer needs the lock; a claim takes one row (`OneRow`).
  `HeartbeatsNeverDeadlock` adds that two heartbeats of one worker exclude each other,
  because each writes the row of `workers` first (`BeatsExclude`), and that a heartbeat
  names leases of its own worker only (`OwnLeases`).
* `DeliveryProofs`. `DeliveryImplementsTable` shows that each step of the system
  is a step of `TableNext` or leaves the table alone, so the theorems on the table
  carry over. `NoUnearnedResult` and `LateRepliesAreIgnored` rest on
  `DeliveryInv`: a consumer in hand of a message knows which (`MessageInHand`); if
  `mine[c]` holds, the row is processing and held by `c` (`MineIsHeld`); and the
  other way round (`LeaseIsOwn`), a consumer that waits for an answer and is named
  by a processing row has that lease by its last claim. The last one is the heart
  of it: because a consumer handles one message at a time and forgets it on every
  way out, a row cannot name it by a *later* claim than the one it is answering.
  `AckIsEarned` and `SuccessIsCurrent` then connect the ack with the handler.
  `DeliveryKeepsPromise` proves the refinement of `AtLeastOnce`, action by action,
  from `TableInv` and `DeliveryInv`. For `LateStatements`, `LateInv` says that every ack
  that is under way or late comes from a consumer that has handled that id
  (`LateAcksEarned`); an ack completes a row in the name of its sender only, so
  `DoneByAHandler` follows for any number of late statements.
* `LeaseTimingProofs`. `TimingInv` bounds each age by the time that is left until the next
  commit plus the time that failures may still cost (`LeaseAges`, `RowAge`); `Uncovered`
  bounds the lease of a message that the heartbeat under way was collected too early
  to renew; `RowFollowsLease` compares the ages of the lease and of the consumer's row; and
  by `Silent` a heartbeat leaves out only a consumer that has ended, and none lists it any
  more when its message is reaped. `LossIsNoticedFirst` is about consumers that die holding
  a message, in a worker that goes on or with it; it says nothing of messages that
  a living consumer has let go of.
* `LockingExperimentProofs`. `ExperimentInv` adds to the properties: a row is locked
  by one transaction at most (`LocksExclude`); under a locking clause, who works
  has its job's row locked and the job is still pending (`JobInHand`), so that a
  commit executes it for the first time; FOR UPDATE leaves no pending row behind
  (`FirstPending`), so that two consumers at work would have the same first row;
  a consumer ends because every job is done or because of an abort
  (`EndsExplained`). That FOR UPDATE serializes and that finished runs are complete
  follow for any number of jobs and consumers.

* `ExperimentRunnerProofs`. Two results hold however many requests overlap: the types
  (with `TasksAreCreated`: a task that is alive has a run) and `NoStrandedRun`, which is
  inductive given the types. The others are about requests that come one after the
  other, as in the run `runner`; there the instance has a single request, here the
  hypothesis is `[]OneByOne`: any number of requests, no two of them under way
  together. It cannot be dropped: `RunsInOrder` and `OutcomeIsFinal` fail when two
  experiments run at once. `OneAtATime` and `ClearedOnlyAtRest` are claims about requests
  that overlap, and false of them (`runner_race`, `clear_race`); they are not stated as
  theorems.
  The invariant `SerialInv` says that a task that is alive is `runner._task`, of a
  process that is up, while nobody asks for anything past its test (`TaskAlone`,
  `RequestsAlone`); that rows at or above `next_id` do not exist (`FreshIds`); that what a
  request has committed is queued (`CommittedQueued`); and that the rows of the
  experiment agree with how far its task is (`RowsFollowTasks`).
* `WorkerControlProofs`. `WorkerInv` has the types together with what keeps them: the
  consumers' numbers suffice for every command still to come (`NumbersSuffice`,
  `NumbersAreUsed`), the queue and the command in hand are above all that was executed
  (`QueueInOrder`), and a worker past its shutdown has no heartbeat under way
  (`BeatsEndFirst`), so that `DeregisteredForGood` is kept. `FinishedLeaveNoRow` needs
  `RegistryInv` besides: while no heartbeat was disturbed, one is under way at a time
  (`OneBeat`), and a row, or one that a heartbeat will write, is of a consumer that
  runs, was killed, or is about to be removed (`RowsListed`, `CollectedListed`).
* `NotifierProofs`. `WakeInv`: a loop has seen no later version than there is
  (`SeenIsPast`); while a loop that found nothing has seen the current version over
  a connection that is up, whatever it has not found is announced by a notification
  in flight (`MessagesAnnounced`, `CommandsAnnounced`).
* `SchemaBootstrapProofs`. The invariant adds to the types that no two processes hold
  locks that conflict (`Compatible`), so that one script at a time is past its advisory
  lock, and one TRUNCATE of the history past its first. The rest is an argument on the
  lists of locks. Locks of ordinary statements do not clash (`OthersWriteRows`), and the
  TRUNCATE of messages has no second lock to wait for, so that in a circle every wait has a
  script or a TRUNCATE of the history at one end. The two are in no circle together
  (`NoScriptWithClear`). So everybody else in it holds something that this one wants
  later than what it has, and wants something that it has: `OnlyLeasesCross` finds one list
  like this for the script, `OnlyThreeCross` three for the TRUNCATE. The theorem states
  which deadlocks there can be, not that they occur.

Only model-checked: everything under fairness (`OrphansRecovered`,
`EventuallySettled`, `RunEnds`, `TransactionsEnd`, and the three of `worker`), since neither
liveness nor ENABLED is in the prover's reach; and `OneAtATime`. Every other invariant and
every action property of the passing runs is a theorem, two of those of `ExperimentRunner`
under `[]OneByOne`. There are no recursive
definitions; induction over data is not needed.

## 5. Not modelled, and the plan

Not modelled:

* the pages, their templates and the monitoring queries: each reads in single
  statements and changes nothing; what they show of a worker is in `LeaseTiming`
  (`Lost`) and `WorkerControl` (`notices`). The results of an experiment are read by two
  statements while the run goes on, so its figures may be those of two moments. The list
  of messages continues below the last id it has shown;
* packaging;
* the limits of the connection pool: no task asks for a second pooled connection while it
  holds one, and the experiment's consumers have connections of their own, so that a
  pool at its limit delays and does not block.

Planned, in this order:

1. Several workers with one registry, and starvation between priorities.
