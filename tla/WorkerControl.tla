---------------------------- MODULE WorkerControl ----------------------------
(***************************************************************************)
(* The life of one worker process (Worker in app/worker.py) with its       *)
(* consumers, the registry that its heartbeats keep (app/broker/           *)
(* registry.py), the commands it is sent (app/broker/control.py,           *)
(* app/routes/workers.py) and the reapers that forget what is lost         *)
(* (app/reaper.py).  A restarted worker is another worker: its id has a    *)
(* random suffix.                                                          *)
(*                                                                         *)
(* Three tasks of the process send heartbeats: main while it starts, the   *)
(* heartbeat loop, and the command loop after a start command.  A          *)
(* heartbeat is collected, committed, answered, and may be followed by the *)
(* removal of finished consumers; anything may happen in between.          *)
(*                                                                         *)
(* Times are abstracted to "stale": the heartbeat is more than             *)
(* FORGET_LOST_WORKERS_AFTER_S old.  A row may become stale at any moment, *)
(* since a process may be frozen.                                          *)
(***************************************************************************)
EXTENDS Integers, Sequences, FiniteSets

CONSTANTS
  Concurrency,    \* --concurrency: consumers started by main
  MaxCount,       \* bound: `count` of a start command
  MaxCommands,    \* bound: commands sent to the worker
  Message,        \* messages its consumers may claim
  NoMessage

ASSUME WorkerAssumption ==
  /\ Concurrency \in Nat
  /\ MaxCount \in Nat
  /\ MaxCommands \in Nat
  /\ NoMessage \notin Message

(* itertools.count(1): enough numbers for every command to be a start.     *)
Consumer == 1..(Concurrency + MaxCount * MaxCommands)

Beater == {"main", "heartbeat", "commands"}

VARIABLES
  \* tables
  worker_row,      \* the worker's row of `workers`
  rows,            \* its consumers' rows of `consumers`
  shown,           \* consumers.current_message_id
  stale,           \* consumers whose row is stale
  worker_stale,    \* the worker's row is stale
  worker_commands, \* the worker's rows of `worker_commands`, by id
  next_id,         \* identity of worker_commands
  \* the process
  process,
  started,         \* consumer numbers handed out
  consumers,       \* self.consumers
  _finished,       \* self._finished
  beat,            \* where each heartbeat is
  collected,       \* what each heartbeat has collected
  removing,        \* the finished consumers each is about to remove
  batch,           \* commands taken and not yet executed
  \* its consumers
  task,
  stopping,
  current,         \* current_message_id
  abandoned,       \* messages whose consumer is gone, still 'processing'
  settled,         \* messages acked or nacked
  \* history
  executed,        \* ids of the commands executed so far
  notices,         \* <<consumer, message>> of the notices of the kill page
  disturbed        \* a heartbeat has failed, or two were under way at once

tableVars    == <<worker_row, rows, shown, stale, worker_stale>>
commandVars  == <<worker_commands, next_id, notices>>
beatVars     == <<beat, collected, removing, disturbed>>
consumerVars == <<task, stopping, current, abandoned, settled>>
workerVars   == <<process, started, consumers, _finished, batch, executed>>
vars == <<tableVars, commandVars, beatVars, consumerVars, workerVars>>

Command == [id : 1..MaxCommands, command : {"start", "stop", "kill"}, arg : Nat]

Active  == {"populating", "running"}          \* the loops of the worker run
Over    == {"exited", "left", "crashed"}
Running == {"looping", "asking", "busy"}
Ended   == {"finished", "killed", "cancelled"}

TypeOK ==
  /\ worker_row \in BOOLEAN
  /\ rows \in SUBSET Consumer
  /\ shown \in [Consumer -> Message \cup {NoMessage}]
  /\ stale \in SUBSET rows
  /\ worker_stale \in BOOLEAN
  /\ worker_commands \in Seq(Command)
  /\ next_id \in 1..(MaxCommands + 1)
  /\ process \in {"starting", "closing", "deregistering"} \cup Active \cup Over
  /\ started \in 0..Cardinality(Consumer)
  /\ consumers \in SUBSET Consumer
  /\ _finished \in SUBSET Consumer
  /\ beat \in [Beater -> {"off", "upserting", "upserted", "removing"}]
  /\ collected \in [Beater -> SUBSET (Consumer \X (Message \cup {NoMessage}))]
  /\ removing \in [Beater -> SUBSET Consumer]
  /\ batch \in Seq(Command)
  /\ task \in [Consumer -> Running \cup Ended \cup {"none"}]
  /\ stopping \in SUBSET Consumer
  /\ current \in [Consumer -> Message \cup {NoMessage}]
  /\ abandoned \in SUBSET Message
  /\ settled \in SUBSET Message
  /\ executed \in Seq(1..MaxCommands)
  /\ notices \in SUBSET (Consumer \X Message)
  /\ disturbed \in BOOLEAN
  /\ rows # {} \/ worker_commands # <<>> => worker_row    \* the foreign keys

Init ==
  /\ worker_row = FALSE
  /\ rows = {}
  /\ shown = [c \in Consumer |-> NoMessage]
  /\ stale = {}
  /\ worker_stale = FALSE
  /\ worker_commands = <<>>
  /\ next_id = 1
  /\ process = "starting"                     \* start() has called _beat()
  /\ started = 0
  /\ consumers = {}
  /\ _finished = {}
  /\ beat = [b \in Beater |-> IF b = "main" THEN "upserting" ELSE "off"]
  /\ collected = [b \in Beater |-> {}]
  /\ removing = [b \in Beater |-> {}]
  /\ batch = <<>>
  /\ task = [c \in Consumer |-> "none"]
  /\ stopping = {}
  /\ current = [c \in Consumer |-> NoMessage]
  /\ abandoned = {}
  /\ settled = {}
  /\ executed = <<>>
  /\ notices = {}
  /\ disturbed = FALSE

-----------------------------------------------------------------------------
(* _beat.                                                                  *)

(* The heartbeat's arguments are built from `live`, then it awaits.        *)
Collect(b, live) ==
  /\ beat' = [beat EXCEPT ![b] = "upserting"]
  /\ collected' = [collected EXCEPT ![b] = {<<c, current[c]>> : c \in live}]
  /\ disturbed' = (disturbed \/ \E d \in Beater \ {b} : beat[d] # "off")
  /\ UNCHANGED removing

(* registry.heartbeat: one transaction inserts or refreshes every row.     *)
Upsert(b) ==
  LET beaten == {pair[1] : pair \in collected[b]}
  IN /\ worker_row' = TRUE
     /\ worker_stale' = FALSE
     /\ rows' = rows \cup beaten
     /\ stale' = stale \ beaten
     /\ shown' = [c \in Consumer |->
          IF c \in beaten THEN CHOOSE m \in Message \cup {NoMessage} :
                                 <<c, m>> \in collected[b]
          ELSE shown[c]]

RefreshOnly(b) ==    \* mutant: the loop's heartbeat updates, and inserts nothing
  /\ beat[b] = "upserting"
  /\ worker_row' = TRUE
  /\ worker_stale' = FALSE
  /\ rows' = rows \cup
       (IF b = "heartbeat" THEN {} ELSE {pair[1] : pair \in collected[b]})
  /\ stale' = stale \ {pair[1] : pair \in collected[b]}
  /\ beat' = [beat EXCEPT ![b] = "upserted"]
  /\ UNCHANGED <<shown, commandVars, collected, removing, disturbed, consumerVars,
                 workerVars>>

BeatCommitRemoving(b) ==    \* mutant: what has finished is deleted first, in its transaction
  LET beaten == {pair[1] : pair \in collected[b]}
  IN /\ beat[b] = "upserting"
     /\ worker_row' = TRUE
     /\ worker_stale' = FALSE
     /\ rows' = (rows \ _finished) \cup beaten
     /\ stale' = stale \ (_finished \cup beaten)
     /\ _finished' = {}
     /\ beat' = [beat EXCEPT ![b] = "upserted"]
     /\ UNCHANGED <<shown, commandVars, collected, removing, disturbed, consumerVars,
                    process, started, consumers, batch, executed>>

BeatCommit(b) ==
  /\ beat[b] = "upserting"
  /\ Upsert(b)
  /\ beat' = [beat EXCEPT ![b] = "upserted"]
  /\ UNCHANGED <<commandVars, collected, removing, disturbed, consumerVars, workerVars>>

(* The answer: `_finished` is emptied and, if it held anything, a DELETE   *)
(* is sent for what it held.                                               *)
BeatReply(b) ==
  /\ beat[b] = "upserted"
  /\ process # "starting"
  /\ IF _finished = {}
     THEN beat' = [beat EXCEPT ![b] = "off"] /\ UNCHANGED removing
     ELSE /\ beat' = [beat EXCEPT ![b] = "removing"]
          /\ removing' = [removing EXCEPT ![b] = _finished]
  /\ _finished' = {}
  /\ collected' = [collected EXCEPT ![b] = {}]
  /\ process' = IF b = "main" /\ _finished = {} THEN "running" ELSE process
  /\ UNCHANGED <<tableVars, commandVars, disturbed, consumerVars, started,
                 consumers, batch, executed>>

BeatRemove(b) ==
  /\ beat[b] = "removing"
  /\ rows' = rows \ removing[b]
  /\ stale' = stale \ removing[b]
  /\ beat' = [beat EXCEPT ![b] = "off"]
  /\ removing' = [removing EXCEPT ![b] = {}]
  /\ process' = IF b = "main" THEN "running" ELSE process
  /\ UNCHANGED <<worker_row, worker_stale, shown, commandVars, collected,
                 disturbed, consumerVars, started, consumers, _finished,
                 batch, executed>>

(* psycopg.Error: the loops log it, the rest of the batch of commands is   *)
(* lost.  Out of main it ends the process (see Crash).                     *)
BeatFail(b) ==
  /\ beat[b] # "off"
  /\ b # "main"
  /\ beat' = [beat EXCEPT ![b] = "off"]
  /\ collected' = [collected EXCEPT ![b] = {}]
  /\ removing' = [removing EXCEPT ![b] = {}]
  /\ disturbed' = TRUE
  /\ batch' = IF b = "commands" THEN <<>> ELSE batch
  /\ UNCHANGED <<tableVars, commandVars, consumerVars, process, started,
                 consumers, _finished, executed>>

-----------------------------------------------------------------------------
(* main and the two loops.                                                 *)

StartConsumers(count) ==
  LET new == (started + 1)..(started + count)
  IN /\ started' = started + count
     /\ consumers' = consumers \cup new
     /\ task' = [c \in Consumer |-> IF c \in new THEN "looping" ELSE task[c]]

(* start() returns, main starts the first consumers.                       *)
Populate ==
  /\ process = "starting"
  /\ beat["main"] = "upserted"
  /\ process' = "populating"
  /\ StartConsumers(Concurrency)
  /\ Collect("main", consumers')
  /\ UNCHANGED <<tableVars, commandVars, stopping, current, abandoned, settled,
                 _finished, batch, executed>>

HeartbeatLoop ==
  /\ process \in Active
  /\ beat["heartbeat"] = "off"
  /\ Collect("heartbeat", consumers)
  /\ UNCHANGED <<tableVars, commandVars, consumerVars, workerVars>>

(* take_commands deletes and returns the rows, sorted by id.               *)
TakeUnsorted ==      \* mutant: in the order in which DELETE returned them
  /\ process \in Active
  /\ beat["commands"] = "off"
  /\ batch = <<>>
  /\ batch' = [i \in 1..Len(worker_commands) |->
                 worker_commands[Len(worker_commands) + 1 - i]]
  /\ worker_commands' = <<>>
  /\ UNCHANGED <<tableVars, next_id, notices, beatVars, consumerVars, process,
                 started, consumers, _finished, executed>>

TakeCommands ==
  /\ process \in Active
  /\ beat["commands"] = "off"
  /\ batch = <<>>
  /\ batch' = worker_commands
  /\ worker_commands' = <<>>
  /\ UNCHANGED <<tableVars, next_id, notices, beatVars, consumerVars, process,
                 started, consumers, _finished, executed>>

(* The DELETE took place and its answer is lost.                           *)
TakeFails ==
  /\ process \in Active
  /\ beat["commands"] = "off"
  /\ batch = <<>>
  /\ worker_commands' = <<>>
  /\ UNCHANGED <<tableVars, next_id, notices, beatVars, consumerVars, workerVars>>

(* The next command of the batch.                                          *)
Execute(command) ==
  /\ process \in Active
  /\ beat["commands"] = "off"
  /\ batch # <<>>
  /\ Head(batch).command = command
  /\ batch' = Tail(batch)
  /\ executed' = Append(executed, Head(batch).id)
  /\ UNCHANGED <<tableVars, commandVars, process, _finished>>

ExecuteStart ==
  /\ Execute("start")
  /\ StartConsumers(Head(batch).arg)
  /\ Collect("commands", consumers')
  /\ UNCHANGED <<stopping, current, abandoned, settled>>

(* stop_consumer; 0 stands for a command without consumer_id.              *)
ExecuteStop ==
  /\ Execute("stop")
  /\ stopping' = stopping \cup
       {c \in consumers : Head(batch).arg \in {0, c}}
  /\ UNCHANGED <<beatVars, task, current, abandoned, settled, started, consumers>>

Abandon(S) ==
  abandoned' = abandoned \cup ({current[c] : c \in S} \ {NoMessage})

(* kill_consumer; the callback of a killed task finds its consumer gone.   *)
ExecuteKill ==
  LET victims == {Head(batch).arg} \cap consumers
  IN /\ Execute("kill")
     /\ consumers' = consumers \ victims
     /\ task' = [c \in Consumer |-> IF c \in victims THEN "killed" ELSE task[c]]
     /\ Abandon(victims)
     /\ UNCHANGED <<beatVars, stopping, current, settled, started>>

-----------------------------------------------------------------------------
(* The consumers (in detail in Delivery).                                  *)

Ask(c) ==
  /\ task[c] = "looping"
  /\ c \notin stopping
  /\ task' = [task EXCEPT ![c] = "asking"]
  /\ UNCHANGED <<tableVars, commandVars, beatVars, stopping, current, abandoned,
                 settled, workerVars>>

Claim(c, m) ==
  /\ task[c] = "asking"
  /\ m \notin abandoned \cup settled
  /\ \A d \in Consumer : current[d] # m
  /\ task' = [task EXCEPT ![c] = "busy"]
  /\ current' = [current EXCEPT ![c] = m]
  /\ UNCHANGED <<tableVars, commandVars, beatVars, stopping, abandoned, settled, workerVars>>

ClaimNothing(c) ==
  /\ task[c] = "asking"
  /\ task' = [task EXCEPT ![c] = "looping"]
  /\ UNCHANGED <<tableVars, commandVars, beatVars, stopping, current, abandoned,
                 settled, workerVars>>

Settle(c) ==
  /\ task[c] = "busy"
  /\ task' = [task EXCEPT ![c] = "looping"]
  /\ settled' = settled \cup {current[c]}
  /\ current' = [current EXCEPT ![c] = NoMessage]
  /\ UNCHANGED <<tableVars, commandVars, beatVars, stopping, abandoned, workerVars>>

(* ack or nack fails: the message is not held any more, and not settled.   *)
SettleFails(c) ==
  /\ task[c] = "busy"
  /\ task' = [task EXCEPT ![c] = "looping"]
  /\ Abandon({c})
  /\ current' = [current EXCEPT ![c] = NoMessage]
  /\ UNCHANGED <<tableVars, commandVars, beatVars, stopping, settled, workerVars>>

(* The loop ends, and _on_consumer_exit runs.                              *)
Exit(c) ==
  /\ task[c] = "looping"
  /\ c \in stopping
  /\ task' = [task EXCEPT ![c] = "finished"]
  /\ consumers' = consumers \ {c}
  /\ _finished' = _finished \cup {c}
  /\ UNCHANGED <<tableVars, commandVars, beatVars, stopping, current, abandoned,
                 settled, process, started, batch, executed>>

-----------------------------------------------------------------------------
(* The end of the process.                                                 *)

Silence(S) ==      \* the tasks in S are cancelled, with their heartbeats
  /\ beat' = [b \in Beater |-> IF b \in S THEN "off" ELSE beat[b]]
  /\ collected' = [b \in Beater |-> IF b \in S THEN {} ELSE collected[b]]
  /\ removing' = [b \in Beater |-> IF b \in S THEN {} ELSE removing[b]]
  /\ UNCHANGED disturbed

(* close(): the loops are cancelled and awaited; stop_all begins.          *)
SigtermKeepsBeating ==   \* mutant: the heartbeat loop is not ended
  /\ process = "running"
  /\ process' = "closing"
  /\ Silence({"commands"})
  /\ batch' = <<>>
  /\ stopping' = stopping \cup consumers
  /\ UNCHANGED <<tableVars, commandVars, task, current, abandoned, settled,
                 started, consumers, _finished, executed>>

Sigterm ==
  /\ process = "running"
  /\ process' = "closing"
  /\ Silence({"heartbeat", "commands"})
  /\ batch' = <<>>
  /\ stopping' = stopping \cup consumers
  /\ UNCHANGED <<tableVars, commandVars, task, current, abandoned, settled,
                 started, consumers, _finished, executed>>

CancelTasks ==
  LET alive == {c \in Consumer : task[c] \in Running}
  IN /\ task' = [c \in Consumer |-> IF c \in alive THEN "cancelled" ELSE task[c]]
     /\ Abandon(alive)

(* Every consumer has finished, or the grace is over: those still busy are *)
(* cancelled.                                                              *)
GraceEnds ==
  /\ process = "closing"
  /\ process' = "deregistering"
  /\ CancelTasks
  /\ UNCHANGED <<tableVars, commandVars, beatVars, stopping, current, settled,
                 started, consumers, _finished, batch, executed>>

DeleteWorkerAlone ==     \* mutant: no cascade to the commands
  /\ worker_row' = FALSE
  /\ worker_stale' = FALSE
  /\ rows' = {}
  /\ stale' = {}
  /\ UNCHANGED <<shown, next_id, notices, worker_commands>>

(* DELETE FROM workers, and what refers to it.                             *)
DeleteWorker ==
  /\ worker_row' = FALSE
  /\ worker_stale' = FALSE
  /\ rows' = {}
  /\ stale' = {}
  /\ worker_commands' = <<>>
  /\ UNCHANGED <<shown, next_id, notices>>

Deregister ==
  /\ process = "deregistering"
  /\ process' = "exited"
  /\ DeleteWorker
  /\ UNCHANGED <<beatVars, consumerVars, started, consumers, _finished, batch, executed>>

DeregisterFails ==
  /\ process = "deregistering"
  /\ process' = "left"
  /\ UNCHANGED <<tableVars, commandVars, beatVars, consumerVars, started,
                 consumers, _finished, batch, executed>>

(* SIGKILL, or an error while main starts.                                 *)
Crash ==
  /\ process \notin Over
  /\ process' = "crashed"
  /\ Silence(Beater)
  /\ CancelTasks
  /\ batch' = <<>>
  /\ UNCHANGED <<tableVars, commandVars, stopping, current, settled, started,
                 consumers, _finished, executed>>

-----------------------------------------------------------------------------
(* The web app and the reapers.                                            *)

(* send_command fails on the foreign key when the worker is not registered. *)
(* An INSERT is one action: of two that overlap, either may get the lower  *)
(* id, and neither was sent first.                                         *)
Send(command, arg) ==
  /\ worker_row
  /\ next_id <= MaxCommands
  /\ next_id' = next_id + 1
  /\ worker_commands' =
       Append(worker_commands, [id |-> next_id, command |-> command, arg |-> arg])
  /\ UNCHANGED <<tableVars, beatVars, consumerVars, workerVars>>

(* kill_consumer reads the consumer's row for its notice, and sends.  (The *)
(* two are one action: the notice is at least as old in the code.)         *)
SendKill(c) ==
  /\ c \in rows
  /\ Send("kill", c)
  /\ notices' = IF shown[c] = NoMessage THEN notices
                ELSE notices \cup {<<c, shown[c]>>}

SendOther ==
  /\ \/ \E count \in 1..MaxCount : Send("start", count)
     \/ \E c \in rows \cup {0} : Send("stop", c)
  /\ UNCHANGED notices

(* A row is stale when it has not been refreshed for a minute; the         *)
(* worker's row is refreshed with every other row.                         *)
AgeConsumer(c) ==
  /\ c \in rows \ stale
  /\ stale' = stale \cup {c}
  /\ UNCHANGED <<worker_row, rows, shown, worker_stale, commandVars, beatVars,
                 consumerVars, workerVars>>

AgeWorker ==
  /\ worker_row
  /\ ~worker_stale
  /\ stale = rows
  /\ worker_stale' = TRUE
  /\ UNCHANGED <<worker_row, rows, shown, stale, commandVars, beatVars,
                 consumerVars, workerVars>>

(* forget_lost_workers: two statements of their own.                       *)
ForgetNothing ==      \* mutant: rows of consumers go with their worker only
  /\ stale # {}
  /\ UNCHANGED vars

ForgetConsumers ==
  /\ stale # {}
  /\ rows' = rows \ stale
  /\ stale' = {}
  /\ UNCHANGED <<worker_row, worker_stale, shown, commandVars, beatVars,
                 consumerVars, workerVars>>

ForgetLiveWorkersOnly ==     \* mutant: a worker without consumers is kept
  /\ worker_row
  /\ worker_stale
  /\ rows # {}
  /\ DeleteWorker
  /\ UNCHANGED <<beatVars, consumerVars, workerVars>>

ForgetWorker ==
  /\ worker_row
  /\ worker_stale
  /\ DeleteWorker
  /\ UNCHANGED <<beatVars, consumerVars, workerVars>>

BeatStep(b) == BeatCommit(b) \/ BeatReply(b) \/ BeatRemove(b)

ConsumerStep(c) ==
  \/ Ask(c) \/ ClaimNothing(c) \/ Settle(c) \/ SettleFails(c) \/ Exit(c)
  \/ \E m \in Message : Claim(c, m)

Closing == GraceEnds \/ Deregister \/ DeregisterFails

ExecuteNext == ExecuteStart \/ ExecuteStop \/ ExecuteKill

(* Nothing is left to do.                                                  *)
AllGone == process \in Over /\ ~worker_row /\ UNCHANGED vars

Next ==
  \/ \E b \in Beater : BeatStep(b) \/ BeatFail(b)
  \/ Populate \/ HeartbeatLoop \/ TakeCommands \/ TakeFails \/ ExecuteNext
  \/ \E c \in Consumer : ConsumerStep(c) \/ SendKill(c) \/ AgeConsumer(c)
  \/ Sigterm \/ Closing \/ Crash
  \/ SendOther \/ AgeWorker \/ ForgetConsumers \/ ForgetWorker
  \/ AllGone

Spec == Init /\ [][Next]_vars

(* Fairness.  The heartbeats under way are answered or fail, the heartbeat *)
(* loop goes on, and a heartbeat that it sends again and again succeeds    *)
(* some day; time passes, and some reaper runs.  Nothing is assumed of     *)
(* consumers, commands or the shutdown.                                    *)
Fairness ==
  /\ \A b \in Beater : WF_vars(BeatStep(b) \/ BeatFail(b))
  /\ SF_vars(BeatCommit("heartbeat"))
  /\ WF_vars(HeartbeatLoop)
  /\ \A c \in Consumer : WF_vars(AgeConsumer(c))
  /\ WF_vars(AgeWorker)
  /\ WF_vars(ForgetConsumers)
  /\ WF_vars(ForgetWorker)

FairSpec == Spec /\ Fairness

-----------------------------------------------------------------------------
(* Properties.                                                             *)

(* A worker that has deregistered stays so: no heartbeat of its loops      *)
(* brings its row or a consumer's row back, and no command waits for it.   *)
DeregisteredForGood ==
  process = "exited" => ~worker_row /\ rows = {} /\ worker_commands = <<>>

(* Commands are executed in the order in which they were sent, and none of *)
(* them twice ("oldest first", "Delivery is at-most-once", control.py:49). *)
CommandsInOrder ==
  \A i, j \in 1..Len(executed) : i < j => executed[i] < executed[j]

(* Between two heartbeats the registry of a running worker shows no        *)
(* consumer that has finished: only those that run, and killed ones that   *)
(* go stale "like a real crash" (worker.py:118).  Only a heartbeat that    *)
(* failed, or overlapped with another one, can leave a finished consumer.  *)
FinishedLeaveNoRow ==
  process = "running" /\ ~disturbed /\ _finished = {}
  /\ (\A b \in Beater : beat[b] = "off") =>
       \A c \in rows : c \in consumers \/ task[c] = "killed"

(* What the kill page says, "Killed c while it held message m.  The        *)
(* message stays 'processing' until its lease expires"                     *)
(* (routes/workers.py:139-143), is so once the command has been executed.  *)
KillNoticeHolds ==
  \A notice \in notices :
     task[notice[1]] = "killed" => notice[2] \in abandoned

(* The row of a consumer that is gone goes too, whether it was removed,    *)
(* killed, left over by a failed or an overlapping heartbeat, or its       *)
(* worker died ("a killed consumer can belong to a worker that is still    *)
(* alive", registry.py:72).                                                *)
GoneConsumersForgotten ==
  \A c \in Consumer : (c \in rows /\ task[c] \in Ended) ~> c \notin rows

(* A worker that is gone is forgotten, with the commands it did not take.  *)
GoneWorkerForgotten ==
  process \in Over ~> ~worker_row /\ rows = {} /\ worker_commands = <<>>

(* A worker that was frozen, and forgotten meanwhile, comes back: every    *)
(* consumer that runs gets its row again.                                  *)
RunningConsumersShown ==
  \A c \in Consumer :
     (process \in Active /\ c \in consumers)
       ~> (c \in rows \/ c \notin consumers \/ process \notin Active)
=============================================================================
