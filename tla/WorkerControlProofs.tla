------------------------ MODULE WorkerControlProofs ------------------------
(***************************************************************************)
(* Proofs about WorkerControl, for every number of consumers, commands and *)
(* messages.                                                               *)
(***************************************************************************)
EXTENDS WorkerControl, FiniteSetTheorems, SequenceTheorems, TLAPS

-----------------------------------------------------------------------------
(* The inductive invariant, in parts.                                      *)

(* The heartbeats end before the process closes; that of main ends before  *)
(* the worker runs.                                                        *)
Ending == {"closing", "deregistering"} \cup Over

BeatsEndFirst ==
  /\ process \in Ending => \A b \in Beater : beat[b] = "off"
  /\ beat["main"] # "off" => process \in {"starting", "populating"}

(* What is recorded for a heartbeat is recorded while it needs it.         *)
BeatRecords ==
  \A b \in Beater :
    /\ collected[b] # {} => beat[b] \in {"upserting", "upserted"}
    /\ removing[b] # {} => beat[b] = "removing"

(* Executed, taken and waiting commands: each was sent before the next.    *)
Increasing(s) == \A i, j \in 1..Len(s) : i < j => s[i].id < s[j].id

QueueInOrder ==
  /\ CommandsInOrder
  /\ Increasing(batch)
  /\ Increasing(worker_commands)
  /\ \A i \in 1..Len(executed) :
       /\ executed[i] < next_id
       /\ \A j \in 1..Len(batch) : executed[i] < batch[j].id
       /\ \A j \in 1..Len(worker_commands) : executed[i] < worker_commands[j].id
  /\ \A i \in 1..Len(batch) :
       /\ batch[i].id < next_id
       /\ \A j \in 1..Len(worker_commands) : batch[i].id < worker_commands[j].id
  /\ \A i \in 1..Len(worker_commands) : worker_commands[i].id < next_id

(* No command starts more than MaxCount consumers, ...                     *)
ModestStarts(s) ==
  \A i \in 1..Len(s) : s[i].command = "start" => s[i].arg <= MaxCount

(* ... so the numbers suffice: with commands up to the k-th executed, at   *)
(* most so many have been handed out.                                      *)
NumbersSuffice ==
  /\ ModestStarts(batch) /\ ModestStarts(worker_commands)
  /\ process = "starting" => started = 0
  /\ \A k \in 0..MaxCommands :
       (\A i \in 1..Len(executed) : executed[i] <= k) =>
         started <= Concurrency + MaxCount * k

BusyHolds == \A c \in Consumer : task[c] = "busy" => current[c] \in Message

NumbersAreUsed ==
  \A c \in Consumer : task[c] # "none" \/ c \in consumers => c <= started

WorkerInv ==
  /\ TypeOK
  /\ BeatsEndFirst
  /\ BeatRecords
  /\ QueueInOrder
  /\ NumbersSuffice
  /\ BusyHolds
  /\ NumbersAreUsed
  /\ DeregisteredForGood

(* While the worker runs and no heartbeat was disturbed, one heartbeat is  *)
(* under way at a time, and every row there is, or that a heartbeat will   *)
(* write, belongs to a consumer that runs, was killed, or will be removed. *)
Living == {"starting"} \cup Active

Listed(c) == c \in consumers \/ task[c] = "killed" \/ c \in _finished

OneBeat == \A b, d \in Beater : beat[b] # "off" /\ beat[d] # "off" => b = d

CollectedListed ==
  \A b \in Beater : \A pair \in collected[b] : Listed(pair[1])

RowsListed ==
  \A c \in rows : Listed(c) \/ \E b \in Beater : c \in removing[b]

RegistryInv ==
  process \in Living /\ ~disturbed => OneBeat /\ CollectedListed /\ RowsListed

-----------------------------------------------------------------------------
(* Constants.                                                              *)

LEMMA Bounds ==
  /\ Concurrency \in Nat /\ MaxCount \in Nat /\ MaxCommands \in Nat
  /\ MaxCount * MaxCommands \in Nat
  /\ Cardinality(Consumer) = Concurrency + MaxCount * MaxCommands
  /\ Consumer \subseteq Nat
<1>1. /\ Concurrency \in Nat /\ MaxCount \in Nat /\ MaxCommands \in Nat
      /\ MaxCount * MaxCommands \in Nat
  BY WorkerAssumption
<1> DEFINE N == Concurrency + MaxCount * MaxCommands
<1>2. N \in Nat
  BY <1>1
<1>3. Cardinality(1..N) = N
  BY <1>2, FS_Interval
<1>4. QED
  BY <1>1, <1>2, <1>3 DEF Consumer

LEMMA InitInv == Init => WorkerInv /\ RegistryInv
<1> SUFFICES ASSUME Init
             PROVE  WorkerInv /\ RegistryInv
  OBVIOUS
<1> USE Bounds
<1>1. TypeOK
  <2>1. /\ worker_commands \in Seq(Command)
        /\ batch \in Seq(Command)
        /\ executed \in Seq(1..MaxCommands)
    BY DEF Init
  <2>2. started \in 0..Cardinality(Consumer) /\ next_id \in 1..(MaxCommands + 1)
    BY DEF Init
  <2>3. beat \in [Beater -> {"off", "upserting", "upserted", "removing"}]
    BY DEF Init, Beater
  <2>4. QED
    BY <2>1, <2>2, <2>3 DEF Init, TypeOK
<1>2. BeatsEndFirst /\ BeatRecords /\ DeregisteredForGood /\ BusyHolds /\ NumbersAreUsed
  BY DEF Init, BeatsEndFirst, BeatRecords, DeregisteredForGood, BusyHolds,
         NumbersAreUsed, Ending, Over, Beater
<1>3. QueueInOrder
  BY DEF Init, QueueInOrder, CommandsInOrder, Increasing
<1>4. NumbersSuffice
  <2>1. \A k \in 0..MaxCommands : 0 <= Concurrency + MaxCount * k
    <3>1. \A k \in Nat : MaxCount * k \in Nat
      OBVIOUS
    <3>2. QED
      BY <3>1
  <2>2. QED
    BY <2>1 DEF Init, NumbersSuffice, ModestStarts
<1>5. RegistryInv
  BY DEF Init, RegistryInv, OneBeat, CollectedListed, RowsListed, Beater
<1>6. QED
  BY <1>1, <1>2, <1>3, <1>4, <1>5 DEF WorkerInv

-----------------------------------------------------------------------------
(* Who does not touch the heartbeats.                                      *)

Elsewhere ==
  \/ TakeCommands \/ TakeFails \/ ExecuteStop \/ ExecuteKill
  \/ \E c \in Consumer : ConsumerStep(c) \/ SendKill(c) \/ AgeConsumer(c)
  \/ SendOther \/ AgeWorker \/ ForgetConsumers \/ ForgetWorker
  \/ UNCHANGED vars

LEMMA StepIs ==
  ASSUME [Next]_vars
  PROVE  \/ \E b \in Beater : BeatCommit(b) \/ BeatReply(b) \/ BeatRemove(b)
                             \/ BeatFail(b)
         \/ Populate \/ HeartbeatLoop \/ ExecuteStart
         \/ Sigterm \/ GraceEnds \/ Deregister \/ DeregisterFails \/ Crash
         \/ Elsewhere
BY DEF Next, BeatStep, ExecuteNext, Closing, Elsewhere, AllGone

LEMMA ConsumersStay ==
  ASSUME NEW c \in Consumer, ConsumerStep(c)
  PROVE  UNCHANGED <<tableVars, commandVars, beatVars, stopping, process, started,
                     batch, executed>>
BY DEF ConsumerStep, Ask, Claim, ClaimNothing, Settle, SettleFails, Exit, workerVars

LEMMA ElsewhereIs ==
  ASSUME Elsewhere
  PROVE  UNCHANGED <<process, started, beatVars>>
<1>1. CASE TakeCommands \/ TakeFails \/ ExecuteStop \/ ExecuteKill
  BY <1>1 DEF TakeCommands, TakeFails, ExecuteStop, ExecuteKill, Execute, workerVars
<1>2. CASE \E c \in Consumer : ConsumerStep(c)
  BY <1>2, ConsumersStay
<1>3. CASE \E c \in Consumer : SendKill(c) \/ AgeConsumer(c)
  BY <1>3 DEF SendKill, Send, AgeConsumer, workerVars
<1>4. CASE SendOther \/ AgeWorker \/ ForgetConsumers \/ ForgetWorker
  BY <1>4 DEF SendOther, Send, AgeWorker, ForgetConsumers, ForgetWorker, workerVars
<1>5. CASE UNCHANGED vars
  BY <1>5 DEF vars, workerVars
<1>6. QED
  BY <1>1, <1>2, <1>3, <1>4, <1>5 DEF Elsewhere

-----------------------------------------------------------------------------
(* Heartbeats.                                                             *)

BeatTypes ==
  /\ process \in {"starting", "closing", "deregistering"} \cup Active \cup Over
  /\ beat \in [Beater -> {"off", "upserting", "upserted", "removing"}]
  /\ collected \in [Beater -> SUBSET (Consumer \X (Message \cup {NoMessage}))]
  /\ removing \in [Beater -> SUBSET Consumer]
  /\ disturbed \in BOOLEAN

LEMMA CollectKeeps ==
  ASSUME WorkerInv, NEW b \in Beater, NEW live \in SUBSET Consumer, Collect(b, live),
         beat[b] \in {"off", "upserted"}
  PROVE  /\ beat' \in [Beater -> {"off", "upserting", "upserted", "removing"}]
         /\ collected' \in [Beater -> SUBSET (Consumer \X (Message \cup {NoMessage}))]
         /\ removing' = removing
         /\ disturbed' \in BOOLEAN
         /\ BeatRecords'
<1> USE DEF WorkerInv, TypeOK
<1>1. {<<c, current[c]>> : c \in live} \in SUBSET (Consumer \X (Message \cup {NoMessage}))
  OBVIOUS
<1>2. beat' = [beat EXCEPT ![b] = "upserting"] /\ removing' = removing
  BY DEF Collect
<1>3. collected' \in [Beater -> SUBSET (Consumer \X (Message \cup {NoMessage}))]
  BY <1>1 DEF Collect
<1>4. \A d \in Beater : d # b => collected'[d] = collected[d]
  BY DEF Collect
<1>5. BeatRecords'
  BY <1>2, <1>4 DEF BeatRecords
<1>6. disturbed' \in BOOLEAN
  BY DEF Collect
<1>7. QED
  BY <1>2, <1>3, <1>5, <1>6

LEMMA SilenceKeeps ==
  ASSUME WorkerInv, NEW S \in SUBSET Beater, Silence(S)
  PROVE  /\ beat' \in [Beater -> {"off", "upserting", "upserted", "removing"}]
         /\ collected' \in [Beater -> SUBSET (Consumer \X (Message \cup {NoMessage}))]
         /\ removing' \in [Beater -> SUBSET Consumer]
         /\ disturbed' \in BOOLEAN
         /\ BeatRecords'
         /\ \A b \in Beater : beat'[b] = IF b \in S THEN "off" ELSE beat[b]
BY DEF WorkerInv, TypeOK, Silence, BeatRecords

-----------------------------------------------------------------------------
(* Numbers.                                                                *)

LEMMA Times ==
  ASSUME NEW m \in Nat, NEW k \in Nat, k > 0
  PROVE  m * (k - 1) + m = m * k /\ m * (k - 1) \in Nat
OBVIOUS

LEMMA TimesMonotonic ==
  ASSUME NEW m \in Nat, NEW k \in Nat, NEW n \in Nat, k <= n
  PROVE  m * k <= m * n
<1>1. PICK d \in Nat : n = k + d
  <2>1. n - k \in Nat /\ n = k + (n - k)
    OBVIOUS
  <2>2. QED
    BY <2>1
<1>2. m * n = m * k + m * d
  BY <1>1
<1>3. m * d \in Nat /\ m * k \in Nat /\ m * n \in Nat
  BY <1>1
<1>4. QED
  BY <1>2, <1>3

(* The command about to be executed.                                       *)
LEMMA HeadIs ==
  ASSUME WorkerInv, batch # <<>>
  PROVE  /\ Head(batch) \in Command /\ Head(batch) = batch[1]
         /\ 1 \in 1..Len(batch)
         /\ Tail(batch) \in Seq(Command) /\ Len(Tail(batch)) = Len(batch) - 1
         /\ \A i \in 1..Len(Tail(batch)) : Tail(batch)[i] = batch[i + 1]
         /\ \A i \in 1..Len(executed) : executed[i] < Head(batch).id
         /\ Head(batch).command = "start" => Head(batch).arg <= MaxCount
<1>1. batch \in Seq(Command)
  BY DEF WorkerInv, TypeOK
<1>2. /\ Head(batch) \in Command /\ Head(batch) = batch[1]
      /\ 1 \in 1..Len(batch)
      /\ Tail(batch) \in Seq(Command) /\ Len(Tail(batch)) = Len(batch) - 1
      /\ \A i \in 1..Len(Tail(batch)) : Tail(batch)[i] = batch[i + 1]
  BY <1>1, HeadTailProperties
<1>3. QED
  BY <1>2 DEF WorkerInv, QueueInOrder, NumbersSuffice, ModestStarts

LEMMA ExecutedIs ==
  ASSUME WorkerInv, NEW command, Execute(command)
  PROVE  /\ executed' \in Seq(1..MaxCommands)
         /\ Len(executed') = Len(executed) + 1
         /\ \A i \in 1..Len(executed) : executed'[i] = executed[i]
         /\ executed'[Len(executed) + 1] = Head(batch).id
<1>1. batch # <<>> /\ executed' = Append(executed, Head(batch).id)
  BY DEF Execute
<1>2. Head(batch).id \in 1..MaxCommands /\ executed \in Seq(1..MaxCommands)
  BY <1>1, HeadIs DEF WorkerInv, TypeOK, Command
<1>3. QED
  BY <1>1, <1>2, AppendProperties

LEMMA StartFits ==
  ASSUME WorkerInv, Execute("start")
  PROVE  /\ Head(batch).arg \in Nat
         /\ started + Head(batch).arg <= Cardinality(Consumer)
         /\ \A k \in 0..MaxCommands :
              (\A i \in 1..Len(executed') : executed'[i] <= k) =>
                started + Head(batch).arg <= Concurrency + MaxCount * k
<1>1. /\ batch # <<>> /\ Head(batch) \in Command /\ Head(batch).arg <= MaxCount
      /\ \A i \in 1..Len(executed) : executed[i] < Head(batch).id
  BY HeadIs DEF Execute
<1>2. Head(batch).id \in 1..MaxCommands /\ Head(batch).arg \in Nat
  BY <1>1 DEF Command
<1>3. ASSUME NEW k \in 0..MaxCommands, Head(batch).id <= k
      PROVE  started + Head(batch).arg <= Concurrency + MaxCount * k
  <2>1. k - 1 \in 0..MaxCommands /\ k \in Nat /\ k > 0
    BY <1>2, <1>3, Bounds
  <2>2. \A i \in 1..Len(executed) : executed[i] <= k - 1
    <3>1. \A i \in 1..Len(executed) : executed[i] \in 1..MaxCommands
      BY ElementOfSeq DEF WorkerInv, TypeOK
    <3>2. \A i \in 1..Len(executed) : executed[i] \in Int /\ executed[i] < Head(batch).id
      BY <1>1, <3>1, Bounds
    <3>3. QED
      BY <1>2, <1>3, <2>1, <3>2
  <2>3. started <= Concurrency + MaxCount * (k - 1)
    BY <2>1, <2>2 DEF WorkerInv, NumbersSuffice
  <2>4. MaxCount * (k - 1) + MaxCount = MaxCount * k /\ MaxCount * (k - 1) \in Nat
    BY <2>1, Times, Bounds
  <2>5. started \in Nat
    BY Bounds DEF WorkerInv, TypeOK
  <2>6. QED
    BY <1>1, <1>2, <2>3, <2>4, <2>5, Bounds
<1>4. started + Head(batch).arg <= Cardinality(Consumer)
  <2>1. MaxCommands \in 0..MaxCommands /\ Head(batch).id <= MaxCommands
    BY <1>2, Bounds
  <2>2. QED
    BY <1>3, <2>1, Bounds
<1>5. ASSUME NEW k \in 0..MaxCommands,
             \A i \in 1..Len(executed') : executed'[i] <= k
      PROVE  Head(batch).id <= k
  <2>1. Len(executed) + 1 \in 1..Len(executed')
    BY ExecutedIs DEF WorkerInv, TypeOK
  <2>2. QED
    BY <1>5, <2>1, ExecutedIs
<1>6. QED
  BY <1>2, <1>3, <1>4, <1>5

LEMMA PopulateFits ==
  ASSUME WorkerInv, Populate
  PROVE  /\ StartConsumers(Concurrency) /\ Concurrency \in Nat
         /\ started = 0 /\ started + Concurrency <= Cardinality(Consumer)
<1>1. StartConsumers(Concurrency) /\ started = 0
  BY DEF Populate, WorkerInv, NumbersSuffice
<1>2. QED
  BY <1>1, Bounds

LEMMA StartConsumersKeeps ==
  ASSUME WorkerInv, NEW count \in Nat, StartConsumers(count),
         started + count <= Cardinality(Consumer)
  PROVE  /\ started' \in 0..Cardinality(Consumer)
         /\ started' = started + count
         /\ consumers' \in SUBSET Consumer
         /\ task' \in [Consumer -> Running \cup Ended \cup {"none"}]
         /\ \A c \in Consumer :
              task'[c] # "none" \/ c \in consumers' => c <= started'
         /\ \A c \in Consumer : task'[c] = task[c] \/ task'[c] = "looping"
         /\ \A c \in Consumer : task[c] = "killed" => task'[c] = "killed"
         /\ consumers \subseteq consumers'
<1> USE Bounds DEF WorkerInv, TypeOK
<1> DEFINE new == (started + 1)..(started + count)
<1>1. started \in Nat /\ new \subseteq Consumer
  BY DEF Consumer
<1>2. /\ started' = started + count
      /\ consumers' = consumers \cup new
      /\ task' = [c \in Consumer |-> IF c \in new THEN "looping" ELSE task[c]]
  BY DEF StartConsumers
<1>3. \A c \in Consumer :
        task[c] # "none" \/ c \in consumers => c <= started /\ c \notin new
  BY <1>1 DEF NumbersAreUsed
<1> HIDE DEF new
<1>4. \A c \in new : c \in Nat /\ c <= started + count
  BY <1>1 DEF new
<1>5. \A c \in Consumer :
        task'[c] # "none" \/ c \in consumers' => c <= started'
  <2>1. ASSUME NEW c \in Consumer, c \notin new,
               task'[c] # "none" \/ c \in consumers'
        PROVE  c <= started'
    BY <1>1, <1>2, <1>3, <2>1
  <2>2. QED
    BY <1>2, <1>4, <2>1
<1>6. QED
  BY <1>1, <1>2, <1>3, <1>5 DEF Running

-----------------------------------------------------------------------------
(* The process and its heartbeats.                                         *)

LEMMA StepKeepsBeats ==
  ASSUME WorkerInv, [Next]_vars
  PROVE  BeatTypes' /\ BeatsEndFirst' /\ BeatRecords'
<1> USE DEF WorkerInv, TypeOK, BeatTypes
<1>1. ASSUME NEW b \in Beater, BeatCommit(b)
      PROVE  BeatTypes' /\ BeatsEndFirst' /\ BeatRecords'
  BY <1>1 DEF BeatCommit, BeatsEndFirst, BeatRecords, workerVars
<1>2. ASSUME NEW b \in Beater, BeatReply(b)
      PROVE  BeatTypes' /\ BeatsEndFirst' /\ BeatRecords'
  <2>1. process \notin Ending /\ (b = "main" => process = "populating")
    BY <1>2 DEF BeatReply, BeatsEndFirst
  <2>2. /\ beat' \in [Beater -> {"off", "upserting", "upserted", "removing"}]
        /\ removing' \in [Beater -> SUBSET Consumer]
        /\ beat'[b] \in {"off", "removing"}
        /\ beat'[b] = "off" => removing' = removing
        /\ \A d \in Beater \ {b} : beat'[d] = beat[d] /\ removing'[d] = removing[d]
        /\ collected' = [collected EXCEPT ![b] = {}]
        /\ disturbed' = disturbed
        /\ process' \in {process, "running"}
        /\ b = "main" /\ beat'[b] = "off" => process' = "running"
        /\ b # "main" \/ beat'[b] # "off" => process' = process
    <3>1. CASE _finished = {}
      BY <1>2, <3>1 DEF BeatReply
    <3>2. CASE _finished # {}
      BY <1>2, <3>2 DEF BeatReply
    <3>3. QED
      BY <3>1, <3>2
  <2>3. BeatTypes'
    BY <2>2 DEF Active
  <2>4. BeatsEndFirst'
    BY <2>1, <2>2 DEF BeatsEndFirst, Ending, Over, Beater
  <2>5. BeatRecords'
    BY <1>2, <2>2 DEF BeatRecords, BeatReply
  <2>6. QED
    BY <2>3, <2>4, <2>5
<1>3. ASSUME NEW b \in Beater, BeatRemove(b)
      PROVE  BeatTypes' /\ BeatsEndFirst' /\ BeatRecords'
  BY <1>3 DEF BeatRemove, BeatsEndFirst, BeatRecords, Ending, Over, Active
<1>4. ASSUME NEW b \in Beater, BeatFail(b)
      PROVE  BeatTypes' /\ BeatsEndFirst' /\ BeatRecords'
  BY <1>4 DEF BeatFail, BeatsEndFirst, BeatRecords
<1>5. CASE Populate
  <2>1. /\ process = "starting" /\ process' = "populating" /\ started = 0
        /\ beat["main"] = "upserted" /\ "main" \in Beater
    BY <1>5 DEF Populate, NumbersSuffice, Beater
  <2>2. consumers' \in SUBSET Consumer
    BY <1>5, PopulateFits, StartConsumersKeeps
  <2>3. /\ beat' \in [Beater -> {"off", "upserting", "upserted", "removing"}]
        /\ collected' \in [Beater -> SUBSET (Consumer \X (Message \cup {NoMessage}))]
        /\ removing' = removing
        /\ disturbed' \in BOOLEAN
        /\ BeatRecords'
    BY <1>5, <2>1, <2>2, CollectKeeps DEF Populate
  <2>4. QED
    BY <2>1, <2>3 DEF BeatsEndFirst, Ending, Over, Active
<1>6. CASE HeartbeatLoop
  <2>1. process \in Active /\ process' = process /\ "heartbeat" \in Beater
    BY <1>6 DEF HeartbeatLoop, Beater, workerVars
  <2>2. /\ beat' \in [Beater -> {"off", "upserting", "upserted", "removing"}]
        /\ collected' \in [Beater -> SUBSET (Consumer \X (Message \cup {NoMessage}))]
        /\ removing' = removing
        /\ disturbed' \in BOOLEAN
        /\ BeatRecords'
    BY <1>6, <2>1, CollectKeeps DEF HeartbeatLoop
  <2>3. beat' = [beat EXCEPT !["heartbeat"] = "upserting"]
    BY <1>6 DEF HeartbeatLoop, Collect
  <2>4. QED
    BY <2>1, <2>2, <2>3 DEF BeatsEndFirst, Ending, Over, Active, Beater
<1>7. CASE ExecuteStart
  <2>1. /\ process \in Active /\ process' = process /\ "commands" \in Beater
        /\ beat["commands"] = "off"
    BY <1>7 DEF ExecuteStart, Execute, Beater
  <2>2. consumers' \in SUBSET Consumer
    BY <1>7, StartFits, StartConsumersKeeps DEF ExecuteStart
  <2>3. /\ beat' \in [Beater -> {"off", "upserting", "upserted", "removing"}]
        /\ collected' \in [Beater -> SUBSET (Consumer \X (Message \cup {NoMessage}))]
        /\ removing' = removing
        /\ disturbed' \in BOOLEAN
        /\ BeatRecords'
    BY <1>7, <2>1, <2>2, CollectKeeps DEF ExecuteStart
  <2>4. beat' = [beat EXCEPT !["commands"] = "upserting"]
    BY <1>7 DEF ExecuteStart, Collect
  <2>5. QED
    BY <2>1, <2>3, <2>4 DEF BeatsEndFirst, Ending, Over, Active, Beater
<1>8. CASE Sigterm
  <2>1. process = "running" /\ process' = "closing" /\ beat["main"] = "off"
    BY <1>8 DEF Sigterm, BeatsEndFirst, Beater
  <2>2. Silence({"heartbeat", "commands"}) /\ {"heartbeat", "commands"} \in SUBSET Beater
    BY <1>8 DEF Sigterm, Beater
  <2>3. \A b \in Beater : beat'[b] = "off"
    BY <2>1, <2>2, SilenceKeeps DEF Beater
  <2>4. QED
    BY <2>1, <2>2, <2>3, SilenceKeeps DEF BeatsEndFirst, Beater
<1>9. CASE GraceEnds \/ Deregister \/ DeregisterFails
  <2>1. /\ process \in Ending /\ process' \in {"deregistering", "exited", "left"}
        /\ UNCHANGED beatVars
    BY <1>9 DEF GraceEnds, Deregister, DeregisterFails, Ending
  <2>2. QED
    BY <2>1 DEF BeatsEndFirst, BeatRecords, Over, beatVars, Beater
<1>10. CASE Crash
  <2>1. process' = "crashed" /\ Silence(Beater)
    BY <1>10 DEF Crash
  <2>2. QED
    BY <2>1, SilenceKeeps DEF BeatsEndFirst, Over, Beater
<1>11. CASE Elsewhere
  BY <1>11, ElsewhereIs DEF BeatsEndFirst, BeatRecords, beatVars
<1>12. QED
  BY <1>1, <1>2, <1>3, <1>4, <1>5, <1>6, <1>7, <1>8, <1>9, <1>10, <1>11, StepIs

-----------------------------------------------------------------------------
(* The consumers.                                                          *)

ConsumerTypes ==
  /\ started \in 0..Cardinality(Consumer)
  /\ consumers \in SUBSET Consumer
  /\ _finished \in SUBSET Consumer
  /\ task \in [Consumer -> Running \cup Ended \cup {"none"}]
  /\ stopping \in SUBSET Consumer
  /\ current \in [Consumer -> Message \cup {NoMessage}]
  /\ abandoned \in SUBSET Message
  /\ settled \in SUBSET Message

ConsumersInv == ConsumerTypes /\ BusyHolds /\ NumbersAreUsed

LEMMA AbandonKeeps ==
  ASSUME WorkerInv, NEW S \in SUBSET Consumer, Abandon(S)
  PROVE  abandoned' \in SUBSET Message
BY DEF WorkerInv, TypeOK, Abandon

LEMMA CancelKeeps ==
  ASSUME WorkerInv, CancelTasks
  PROVE  /\ task' \in [Consumer -> Running \cup Ended \cup {"none"}]
         /\ \A c \in Consumer : task'[c] \in {task[c], "cancelled"}
         /\ \A c \in Consumer : task[c] = "none" => task'[c] = "none"
         /\ abandoned' \in SUBSET Message
BY AbandonKeeps DEF WorkerInv, TypeOK, CancelTasks, Running, Ended

LEMMA ConsumerStepKeepsConsumers ==
  ASSUME WorkerInv, NEW c \in Consumer, ConsumerStep(c)
  PROVE  ConsumersInv'
<1> USE DEF WorkerInv, TypeOK, ConsumersInv, ConsumerTypes, BusyHolds, NumbersAreUsed,
            Running, Ended
<1>1. CASE Ask(c) \/ ClaimNothing(c)
  BY <1>1 DEF Ask, ClaimNothing, workerVars
<1>2. ASSUME NEW m \in Message, Claim(c, m)
      PROVE  ConsumersInv'
  BY <1>2 DEF Claim, workerVars
<1>3. CASE Settle(c)
  BY <1>3 DEF Settle, workerVars
<1>4. CASE SettleFails(c)
  <2>1. abandoned' \in SUBSET Message
    BY <1>4, AbandonKeeps DEF SettleFails
  <2>2. QED
    BY <1>4, <2>1 DEF SettleFails, workerVars
<1>5. CASE Exit(c)
  BY <1>5 DEF Exit
<1>6. QED
  BY <1>1, <1>2, <1>3, <1>4, <1>5 DEF ConsumerStep

LEMMA StepKeepsConsumers ==
  ASSUME WorkerInv, [Next]_vars
  PROVE  ConsumersInv'
<1> USE DEF WorkerInv, TypeOK, ConsumersInv, ConsumerTypes, BusyHolds, NumbersAreUsed
<1>1. ASSUME NEW b \in Beater,
             BeatCommit(b) \/ BeatReply(b) \/ BeatRemove(b) \/ BeatFail(b)
      PROVE  ConsumersInv'
  <2>1. /\ UNCHANGED <<consumerVars, started, consumers>>
        /\ _finished' \in {_finished, {}}
    BY <1>1 DEF BeatCommit, BeatReply, BeatRemove, BeatFail, workerVars
  <2>2. QED
    BY <2>1 DEF consumerVars
<1>2. CASE Populate
  BY <1>2, PopulateFits, StartConsumersKeeps DEF Populate
<1>3. CASE ExecuteStart
  BY <1>3, StartFits, StartConsumersKeeps DEF ExecuteStart, Execute
<1>4. CASE ExecuteStop
  BY <1>4 DEF ExecuteStop, Execute
<1>5. CASE ExecuteKill
  <2> DEFINE victims == {Head(batch).arg} \cap consumers
  <2>1. /\ victims \in SUBSET Consumer
        /\ consumers' = consumers \ victims
        /\ task' = [c \in Consumer |-> IF c \in victims THEN "killed" ELSE task[c]]
        /\ Abandon(victims)
        /\ UNCHANGED <<stopping, current, settled, started, _finished>>
    BY <1>5 DEF ExecuteKill, Execute
  <2>2. \A c \in victims : c <= started
    OBVIOUS
  <2>3. abandoned' \in SUBSET Message
    BY <2>1, AbandonKeeps
  <2> HIDE DEF victims
  <2>4. QED
    BY <2>1, <2>2, <2>3 DEF Ended
<1>6. CASE HeartbeatLoop \/ Deregister \/ DeregisterFails
  BY <1>6 DEF HeartbeatLoop, Deregister, DeregisterFails, consumerVars, workerVars
<1>7. CASE Sigterm
  BY <1>7 DEF Sigterm
<1>8. CASE GraceEnds \/ Crash
  BY <1>8, CancelKeeps DEF GraceEnds, Crash
<1>9. ASSUME NEW c \in Consumer, ConsumerStep(c)
      PROVE  ConsumersInv'
  BY <1>9, ConsumerStepKeepsConsumers
<1>10. CASE \/ TakeCommands \/ TakeFails
            \/ \E c \in Consumer : SendKill(c) \/ AgeConsumer(c)
            \/ SendOther \/ AgeWorker \/ ForgetConsumers \/ ForgetWorker
            \/ UNCHANGED vars
  <2>1. UNCHANGED <<consumerVars, started, consumers, _finished>>
    BY <1>10
    DEF TakeCommands, TakeFails, SendKill, AgeConsumer, SendOther, Send, AgeWorker,
        ForgetConsumers, ForgetWorker, vars, workerVars
  <2>2. QED
    BY <2>1 DEF consumerVars
<1>11. QED
  BY <1>1, <1>2, <1>3, <1>4, <1>5, <1>6, <1>7, <1>8, <1>9, <1>10, StepIs DEF Elsewhere

-----------------------------------------------------------------------------
(* The commands.                                                           *)

QueueTypes ==
  /\ worker_commands \in Seq(Command)
  /\ next_id \in 1..(MaxCommands + 1)
  /\ batch \in Seq(Command)
  /\ executed \in Seq(1..MaxCommands)

QueueInv == QueueTypes /\ QueueInOrder /\ NumbersSuffice

LEMMA QueueFacts ==
  ASSUME WorkerInv
  PROVE  /\ QueueTypes /\ QueueInOrder /\ NumbersSuffice
         /\ Len(worker_commands) \in Nat /\ Len(batch) \in Nat /\ Len(executed) \in Nat
         /\ next_id \in Nat
         /\ \A i \in 1..Len(executed) : executed[i] \in Nat
         /\ \A i \in 1..Len(batch) : batch[i] \in Command /\ batch[i].id \in Nat
         /\ \A i \in 1..Len(worker_commands) : worker_commands[i].id \in Nat
<1>1. QueueTypes /\ QueueInOrder /\ NumbersSuffice
  BY DEF WorkerInv, TypeOK, QueueTypes
<1>2. /\ \A i \in 1..Len(executed) : executed[i] \in 1..MaxCommands
      /\ \A i \in 1..Len(batch) : batch[i] \in Command
      /\ \A i \in 1..Len(worker_commands) : worker_commands[i] \in Command
  BY <1>1, ElementOfSeq DEF QueueTypes
<1>3. 1..MaxCommands \subseteq Nat /\ \A k \in Command : k.id \in Nat
  BY Bounds DEF Command
<1>4. /\ Len(worker_commands) \in Nat /\ Len(batch) \in Nat /\ Len(executed) \in Nat
      /\ next_id \in Nat
  BY <1>1, Bounds DEF QueueTypes
<1>5. QED
  BY <1>1, <1>2, <1>3, <1>4

LEMMA SendKeepsQueue ==
  ASSUME WorkerInv, NEW command \in {"start", "stop", "kill"}, NEW arg \in Nat,
         Send(command, arg), command = "start" => arg <= MaxCount
  PROVE  QueueInv'
<1> USE QueueFacts, Bounds
<1> DEFINE sent == [id |-> next_id, command |-> command, arg |-> arg]
<1>1. /\ next_id \in 1..MaxCommands /\ next_id' = next_id + 1
      /\ worker_commands' = Append(worker_commands, sent)
      /\ UNCHANGED <<process, started, batch, executed>>
  BY DEF Send, workerVars, QueueTypes
<1>2. sent \in Command /\ sent.id = next_id /\ sent.command = command /\ sent.arg = arg
  BY <1>1 DEF Command
<1> HIDE DEF sent
<1>3. /\ worker_commands' \in Seq(Command)
      /\ Len(worker_commands') = Len(worker_commands) + 1
      /\ \A i \in 1..Len(worker_commands) : worker_commands'[i] = worker_commands[i]
      /\ worker_commands'[Len(worker_commands) + 1] = sent
  BY <1>1, <1>2, AppendProperties DEF QueueTypes
<1>4. \A i \in 1..Len(worker_commands') :
        \/ i \in 1..Len(worker_commands) /\ worker_commands'[i] = worker_commands[i]
        \/ i = Len(worker_commands) + 1 /\ worker_commands'[i] = sent
  BY <1>3
<1>5. QueueInOrder'
  <2>1. \A i \in 1..Len(worker_commands) : worker_commands'[i].id < next_id
    BY <1>3 DEF QueueInOrder
  <2>2. Increasing(worker_commands)'
    <3> SUFFICES ASSUME NEW i \in 1..Len(worker_commands'),
                        NEW j \in 1..Len(worker_commands'), i < j
                 PROVE  worker_commands'[i].id < worker_commands'[j].id
      BY DEF Increasing
    <3>1. i \in 1..Len(worker_commands) /\ worker_commands'[i] = worker_commands[i]
      BY <1>3, <1>4
    <3>2. CASE j = Len(worker_commands) + 1
      BY <1>2, <1>3, <2>1, <3>1, <3>2
    <3>3. CASE j \in 1..Len(worker_commands)
      BY <1>3, <3>1, <3>3 DEF QueueInOrder, Increasing
    <3>4. QED
      BY <1>4, <3>2, <3>3
  <2>3. \A i \in 1..Len(worker_commands') : worker_commands'[i].id < next_id'
    BY <1>1, <1>2, <1>4, <2>1
  <2>4. \A i \in 1..Len(executed) :
          /\ executed[i] < next_id'
          /\ \A j \in 1..Len(worker_commands') : executed[i] < worker_commands'[j].id
    BY <1>1, <1>2, <1>4 DEF QueueInOrder
  <2>5. \A i \in 1..Len(batch) :
          /\ batch[i].id < next_id'
          /\ \A j \in 1..Len(worker_commands') : batch[i].id < worker_commands'[j].id
    BY <1>1, <1>2, <1>4 DEF QueueInOrder
  <2>6. QED
    BY <1>1, <2>2, <2>3, <2>4, <2>5 DEF QueueInOrder, CommandsInOrder, Increasing
<1>6. NumbersSuffice'
  BY <1>1, <1>2, <1>4 DEF NumbersSuffice, ModestStarts
<1>7. QED
  BY <1>1, <1>3, <1>5, <1>6 DEF QueueInv, QueueTypes

LEMMA TakeKeepsQueue ==
  ASSUME WorkerInv, TakeCommands
  PROVE  QueueInv'
<1>1. /\ batch = <<>> /\ batch' = worker_commands /\ worker_commands' = <<>>
      /\ UNCHANGED <<process, started, next_id, executed>>
  BY DEF TakeCommands
<1>2. Len(worker_commands') = 0 /\ worker_commands' \in Seq(Command)
  BY <1>1
<1>3. QueueInOrder'
  BY <1>1, <1>2 DEF WorkerInv, QueueInOrder, CommandsInOrder, Increasing
<1>4. NumbersSuffice'
  BY <1>1, <1>2 DEF WorkerInv, NumbersSuffice, ModestStarts
<1>5. QED
  BY <1>1, <1>2, <1>3, <1>4 DEF WorkerInv, TypeOK, QueueInv, QueueTypes

(* Commands may be lost.                                                   *)
LEMMA LossKeepsQueue ==
  ASSUME WorkerInv, batch' \in {batch, <<>>}, worker_commands' \in {worker_commands, <<>>},
         UNCHANGED <<started, next_id, executed>>,
         process' = "starting" => process = "starting"
  PROVE  QueueInv'
<1>1. Len(<<>>) = 0 /\ <<>> \in Seq(Command)
  OBVIOUS
<1>2. /\ Len(batch') = 0 \/ batch' = batch
      /\ Len(worker_commands') = 0 \/ worker_commands' = worker_commands
  BY <1>1
<1>3. QueueInOrder'
  BY <1>2 DEF WorkerInv, QueueInOrder, CommandsInOrder, Increasing
<1>4. NumbersSuffice'
  BY <1>2 DEF WorkerInv, NumbersSuffice, ModestStarts
<1>5. QED
  BY <1>1, <1>3, <1>4 DEF WorkerInv, TypeOK, QueueInv, QueueTypes

LEMMA ExecuteKeepsQueue ==
  ASSUME WorkerInv, NEW command, Execute(command),
         \A k \in 0..MaxCommands :
           (\A i \in 1..Len(executed') : executed'[i] <= k) =>
             started' <= Concurrency + MaxCount * k
  PROVE  QueueInv'
<1> USE QueueFacts
<1>1. /\ process \in Active /\ process' = process /\ batch # <<>>
      /\ batch' = Tail(batch)
      /\ UNCHANGED <<worker_commands, next_id>>
  BY DEF Execute, commandVars
<1>2. /\ 1 \in 1..Len(batch) /\ Head(batch) = batch[1]
      /\ batch' \in Seq(Command) /\ Len(batch') = Len(batch) - 1
      /\ \A i \in 1..Len(batch') : i + 1 \in 1..Len(batch) /\ batch'[i] = batch[i + 1]
  BY <1>1, HeadIs
<1>3. /\ executed' \in Seq(1..MaxCommands)
      /\ \A i \in 1..Len(executed') :
           \/ i \in 1..Len(executed) /\ executed'[i] = executed[i]
           \/ i = Len(executed) + 1 /\ executed'[i] = batch[1].id
  <2>1. 1..Len(executed') = 1..Len(executed) \cup {Len(executed) + 1}
    BY ExecutedIs
  <2>2. QED
    BY <1>2, <2>1, ExecutedIs
<1>4. QueueInOrder'
  <2>1. CommandsInOrder'
    <3> SUFFICES ASSUME NEW i \in 1..Len(executed'), NEW j \in 1..Len(executed'),
                        i < j
                 PROVE  executed'[i] < executed'[j]
      BY DEF CommandsInOrder
    <3>1. i \in 1..Len(executed) /\ executed'[i] = executed[i]
      BY <1>3
    <3>2. CASE j \in 1..Len(executed) /\ executed'[j] = executed[j]
      BY <3>1, <3>2 DEF QueueInOrder, CommandsInOrder
    <3>3. CASE executed'[j] = batch[1].id
      BY <1>2, <3>1, <3>3 DEF QueueInOrder
    <3>4. QED
      BY <1>3, <3>2, <3>3
  <2>2. Increasing(batch)' /\ Increasing(worker_commands)'
    BY <1>1, <1>2 DEF QueueInOrder, Increasing
  <2>3. \A i \in 1..Len(executed') :
          /\ executed'[i] < next_id
          /\ \A j \in 1..Len(batch') : executed'[i] < batch'[j].id
          /\ \A j \in 1..Len(worker_commands) : executed'[i] < worker_commands[j].id
    <3> SUFFICES ASSUME NEW i \in 1..Len(executed')
                 PROVE  /\ executed'[i] < next_id
                        /\ \A j \in 1..Len(batch') : executed'[i] < batch'[j].id
                        /\ \A j \in 1..Len(worker_commands) :
                             executed'[i] < worker_commands[j].id
      OBVIOUS
    <3>1. CASE i \in 1..Len(executed) /\ executed'[i] = executed[i]
      BY <1>2, <3>1 DEF QueueInOrder
    <3>2. CASE executed'[i] = batch[1].id
      <4>1. ASSUME NEW j \in 1..Len(batch')
            PROVE  batch[1].id < batch'[j].id
        <5>1. j + 1 \in 1..Len(batch) /\ 1 < j + 1 /\ batch'[j] = batch[j + 1]
          BY <1>2
        <5>2. Increasing(batch)
          BY DEF QueueInOrder
        <5>3. QED
          BY <1>2, <5>1, <5>2 DEF Increasing
      <4>2. QED
        BY <1>2, <3>2, <4>1 DEF QueueInOrder
    <3>3. QED
      BY <1>3, <3>1, <3>2
  <2>4. \A i \in 1..Len(batch') :
          /\ batch'[i].id < next_id
          /\ \A j \in 1..Len(worker_commands) : batch'[i].id < worker_commands[j].id
    BY <1>2 DEF QueueInOrder
  <2>5. \A i \in 1..Len(worker_commands) : worker_commands[i].id < next_id
    BY DEF QueueInOrder
  <2>6. QED
    BY <1>1, <2>1, <2>2, <2>3, <2>4, <2>5 DEF QueueInOrder
<1>5. NumbersSuffice'
  <2>1. ModestStarts(batch)' /\ ModestStarts(worker_commands)'
    BY <1>1, <1>2 DEF NumbersSuffice, ModestStarts
  <2>2. process' # "starting"
    BY <1>1 DEF Active
  <2>3. QED
    BY <2>1, <2>2 DEF NumbersSuffice
<1>6. QED
  BY <1>1, <1>2, <1>3, <1>4, <1>5 DEF QueueInv, QueueTypes

LEMMA StepKeepsQueue ==
  ASSUME WorkerInv, [Next]_vars
  PROVE  QueueInv'
<1>1. ASSUME NEW b \in Beater,
             BeatCommit(b) \/ BeatReply(b) \/ BeatRemove(b) \/ BeatFail(b)
      PROVE  QueueInv'
  <2>1. /\ batch' \in {batch, <<>>}
        /\ UNCHANGED <<worker_commands, started, next_id, executed>>
        /\ process' \in {process, "running"}
    BY <1>1
    DEF BeatCommit, BeatReply, BeatRemove, BeatFail, commandVars, workerVars
  <2>2. QED
    BY <2>1, LossKeepsQueue
<1>2. CASE Populate
  <2>1. /\ UNCHANGED <<batch, worker_commands, next_id, executed>>
        /\ started' = Concurrency /\ process' = "populating"
    <3>1. StartConsumers(Concurrency) /\ started = 0
      BY <1>2, PopulateFits
    <3>2. QED
      BY <1>2, <3>1, Bounds DEF Populate, commandVars, StartConsumers
  <2>2. \A k \in 0..MaxCommands : Concurrency <= Concurrency + MaxCount * k
    <3>1. \A k \in Nat : MaxCount * k \in Nat
      BY Bounds
    <3>2. QED
      BY <3>1, Bounds
  <2>3. NumbersSuffice'
    BY <2>1, <2>2, QueueFacts DEF NumbersSuffice, ModestStarts
  <2>4. QueueTypes' /\ QueueInOrder'
    BY <2>1, QueueFacts DEF QueueTypes, QueueInOrder, CommandsInOrder, Increasing
  <2>5. QED
    BY <2>3, <2>4 DEF QueueInv
<1>3. CASE ExecuteStart
  <2>1. Execute("start") /\ started' = started + Head(batch).arg
    BY <1>3 DEF ExecuteStart, StartConsumers
  <2>2. QED
    BY <2>1, StartFits, ExecuteKeepsQueue
<1>4. ASSUME NEW command, Execute(command), UNCHANGED started
      PROVE  QueueInv'
  <2>1. ASSUME NEW k \in 0..MaxCommands,
               \A i \in 1..Len(executed') : executed'[i] <= k
        PROVE  started' <= Concurrency + MaxCount * k
    <3>1. \A i \in 1..Len(executed) : executed[i] <= k
      BY <1>4, <2>1, ExecutedIs, QueueFacts
    <3>2. QED
      BY <1>4, <3>1, QueueFacts DEF NumbersSuffice
  <2>2. QED
    BY <1>4, <2>1, ExecuteKeepsQueue
<1>5. CASE ExecuteStop \/ ExecuteKill
  BY <1>4, <1>5 DEF ExecuteStop, ExecuteKill
<1>6. CASE TakeCommands
  BY <1>6, TakeKeepsQueue
<1>7. CASE \/ HeartbeatLoop \/ TakeFails \/ Sigterm \/ GraceEnds \/ Deregister
           \/ DeregisterFails \/ Crash \/ AgeWorker \/ ForgetConsumers
           \/ ForgetWorker \/ UNCHANGED vars
           \/ \E c \in Consumer : ConsumerStep(c) \/ AgeConsumer(c)
  <2>1. /\ batch' \in {batch, <<>>}
        /\ worker_commands' \in {worker_commands, <<>>}
        /\ UNCHANGED <<started, next_id, executed>>
        /\ process' = "starting" => process = "starting"
    <3>1. CASE HeartbeatLoop \/ TakeFails \/ AgeWorker \/ ForgetConsumers \/ ForgetWorker
      BY <3>1
      DEF HeartbeatLoop, TakeFails, AgeWorker, ForgetConsumers, ForgetWorker,
          DeleteWorker, commandVars, workerVars
    <3>2. CASE \/ Sigterm \/ GraceEnds \/ Deregister \/ DeregisterFails \/ Crash
               \/ UNCHANGED vars
      BY <3>2
      DEF Sigterm, GraceEnds, Deregister, DeregisterFails, Crash, DeleteWorker, vars,
          commandVars, workerVars
    <3>3. ASSUME NEW c \in Consumer, ConsumerStep(c) \/ AgeConsumer(c)
          PROVE  UNCHANGED <<commandVars, process, started, batch, executed>>
      BY <3>3, ConsumersStay DEF AgeConsumer, workerVars
    <3>4. QED
      BY <1>7, <3>1, <3>2, <3>3 DEF commandVars
  <2>2. QED
    BY <2>1, LossKeepsQueue
<1>8. CASE SendOther
  <2>1. ASSUME NEW count \in 1..MaxCount, Send("start", count)
        PROVE  QueueInv'
    <3>1. count \in Nat /\ count <= MaxCount
      BY Bounds
    <3>2. QED
      BY <2>1, <3>1, SendKeepsQueue
  <2>2. ASSUME NEW c \in rows \cup {0}, Send("stop", c)
        PROVE  QueueInv'
    <3>1. c \in Nat
      BY Bounds DEF WorkerInv, TypeOK
    <3>2. QED
      BY <2>2, <3>1, SendKeepsQueue
  <2>3. QED
    BY <1>8, <2>1, <2>2 DEF SendOther
<1>9. ASSUME NEW c \in Consumer, SendKill(c)
      PROVE  QueueInv'
  <2>1. Send("kill", c) /\ c \in Nat
    BY <1>9, Bounds DEF SendKill
  <2>2. QED
    BY <2>1, SendKeepsQueue
<1>10. QED
  BY <1>1, <1>2, <1>3, <1>5, <1>6, <1>7, <1>8, <1>9, StepIs DEF Elsewhere

-----------------------------------------------------------------------------
(* The tables.                                                             *)

TableTypes ==
  /\ worker_row \in BOOLEAN
  /\ rows \in SUBSET Consumer
  /\ shown \in [Consumer -> Message \cup {NoMessage}]
  /\ stale \in SUBSET rows
  /\ worker_stale \in BOOLEAN
  /\ notices \in SUBSET (Consumer \X Message)
  /\ rows # {} \/ worker_commands # <<>> => worker_row

LEMMA DeleteWorkerIs ==
  ASSUME WorkerInv, DeleteWorker
  PROVE  TableTypes' /\ ~worker_row' /\ rows' = {} /\ worker_commands' = <<>>
BY DEF WorkerInv, TypeOK, TableTypes, DeleteWorker

LEMMA UpsertKeepsTables ==
  ASSUME WorkerInv, NEW b \in Beater, BeatCommit(b)
  PROVE  TableTypes'
<1> DEFINE beaten == {pair[1] : pair \in collected[b]}
<1> USE DEF WorkerInv, TypeOK
<1>1. collected[b] \in SUBSET (Consumer \X (Message \cup {NoMessage}))
  OBVIOUS
<1>2. beaten \in SUBSET Consumer
  BY <1>1
<1>3. /\ worker_row' = TRUE /\ worker_stale' = FALSE
      /\ rows' = rows \cup beaten /\ stale' = stale \ beaten
      /\ UNCHANGED notices
  BY DEF BeatCommit, Upsert, commandVars
<1>4. shown' \in [Consumer -> Message \cup {NoMessage}]
  <2>1. ASSUME NEW c \in beaten
        PROVE  (CHOOSE m \in Message \cup {NoMessage} : <<c, m>> \in collected[b])
                 \in Message \cup {NoMessage}
    <3>1. PICK pair \in collected[b] : pair[1] = c
      OBVIOUS
    <3>2. pair \in Consumer \X (Message \cup {NoMessage})
      BY <1>1
    <3>3. pair[2] \in Message \cup {NoMessage} /\ pair = <<pair[1], pair[2]>>
      BY <3>2
    <3>4. QED
      BY <3>1, <3>3
  <2>2. shown' = [c \in Consumer |->
          IF c \in beaten THEN CHOOSE m \in Message \cup {NoMessage} :
                                 <<c, m>> \in collected[b]
          ELSE shown[c]]
    BY DEF BeatCommit, Upsert
  <2> HIDE DEF beaten
  <2>3. \A c \in Consumer : shown[c] \in Message \cup {NoMessage}
    OBVIOUS
  <2>4. QED
    BY <2>1, <2>2, <2>3
<1> HIDE DEF beaten
<1>5. QED
  BY <1>2, <1>3, <1>4 DEF TableTypes

LEMMA StepKeepsTables ==
  ASSUME WorkerInv, [Next]_vars
  PROVE  TableTypes' /\ DeregisteredForGood'
<1> USE DEF WorkerInv, TypeOK, TableTypes, DeregisteredForGood
<1>1. ASSUME NEW b \in Beater, BeatCommit(b)
      PROVE  TableTypes' /\ DeregisteredForGood'
  <2>1. process \notin Ending /\ process' = process
    BY <1>1 DEF BeatCommit, BeatsEndFirst, workerVars
  <2>2. QED
    BY <1>1, <2>1, UpsertKeepsTables DEF Ending, Over
<1>2. ASSUME NEW b \in Beater, BeatReply(b) \/ BeatFail(b)
      PROVE  TableTypes' /\ DeregisteredForGood'
  <2>1. UNCHANGED <<tableVars, commandVars>> /\ process' \in {process, "running"}
    BY <1>2 DEF BeatReply, BeatFail
  <2>2. QED
    BY <2>1 DEF tableVars, commandVars
<1>3. ASSUME NEW b \in Beater, BeatRemove(b)
      PROVE  TableTypes' /\ DeregisteredForGood'
  <2>1. /\ rows' = rows \ removing[b] /\ stale' = stale \ removing[b]
        /\ UNCHANGED <<worker_row, worker_stale, shown, commandVars>>
        /\ process' \in {process, "running"}
    BY <1>3 DEF BeatRemove
  <2>2. QED
    BY <2>1 DEF commandVars
<1>4. CASE \/ Populate \/ HeartbeatLoop \/ ExecuteStart \/ ExecuteStop \/ ExecuteKill
           \/ Sigterm \/ GraceEnds \/ DeregisterFails \/ Crash
           \/ UNCHANGED vars \/ \E c \in Consumer : ConsumerStep(c)
  <2>1. /\ UNCHANGED <<tableVars, commandVars>>
        /\ process' = "exited" => process = "exited"
    <3>1. CASE Populate \/ HeartbeatLoop \/ ExecuteStart \/ ExecuteStop \/ ExecuteKill
      BY <3>1
      DEF Populate, HeartbeatLoop, ExecuteStart, ExecuteStop, ExecuteKill, Execute,
          workerVars
    <3>2. CASE Sigterm \/ GraceEnds \/ DeregisterFails \/ Crash \/ UNCHANGED vars
      BY <3>2 DEF Sigterm, GraceEnds, DeregisterFails, Crash, vars, workerVars
    <3>3. CASE \E c \in Consumer : ConsumerStep(c)
      BY <3>3, ConsumersStay
    <3>4. QED
      BY <1>4, <3>1, <3>2, <3>3
  <2>2. QED
    BY <2>1 DEF tableVars, commandVars
<1>5. CASE Deregister \/ ForgetWorker
  <2>1. DeleteWorker
    BY <1>5 DEF Deregister, ForgetWorker
  <2>2. QED
    BY <2>1, DeleteWorkerIs
<1>6. CASE TakeCommands \/ TakeFails
  BY <1>6 DEF TakeCommands, TakeFails, tableVars, workerVars
<1>7. ASSUME NEW c \in Consumer, SendKill(c)
      PROVE  TableTypes' /\ DeregisteredForGood'
  <2>1. worker_row /\ UNCHANGED <<tableVars, process>>
    BY <1>7 DEF SendKill, Send, workerVars
  <2>2. notices' \in SUBSET (Consumer \X Message)
    BY <1>7 DEF SendKill
  <2>3. QED
    BY <2>1, <2>2 DEF tableVars
<1>8. CASE SendOther
  <2>1. worker_row /\ UNCHANGED <<tableVars, process, notices>>
    BY <1>8 DEF SendOther, Send, workerVars
  <2>2. QED
    BY <2>1 DEF tableVars
<1>9. ASSUME NEW c \in Consumer, AgeConsumer(c)
      PROVE  TableTypes' /\ DeregisteredForGood'
  BY <1>9 DEF AgeConsumer, commandVars, workerVars
<1>10. CASE AgeWorker \/ ForgetConsumers
  BY <1>10 DEF AgeWorker, ForgetConsumers, commandVars, workerVars
<1>11. QED
  BY <1>1, <1>2, <1>3, <1>4, <1>5, <1>6, <1>7, <1>8, <1>9, <1>10, StepIs DEF Elsewhere

-----------------------------------------------------------------------------
(* The theorems.                                                           *)

LEMMA StepKeepsWorkerInv ==
  ASSUME WorkerInv, [Next]_vars
  PROVE  WorkerInv'
<1>1. TypeOK'
  BY StepKeepsBeats, StepKeepsConsumers, StepKeepsQueue, StepKeepsTables
  DEF BeatTypes, ConsumersInv, ConsumerTypes, QueueInv, QueueTypes, TableTypes, TypeOK
<1>2. QED
  BY <1>1, StepKeepsBeats, StepKeepsConsumers, StepKeepsQueue, StepKeepsTables
  DEF WorkerInv, ConsumersInv, QueueInv

LEMMA WorkerInvHolds == Spec => []WorkerInv
BY InitInv, StepKeepsWorkerInv, PTL DEF Spec

(* Tables, heartbeats, consumers and commands keep their types: however    *)
(* many are started, consumers get numbers of their own, and no row is     *)
(* there without the row of its worker.                                    *)
THEOREM WorkerTypeCorrect == Spec => []TypeOK
BY WorkerInvHolds, PTL DEF WorkerInv

(* Wherever its heartbeats are when it is told to stop, a worker that has  *)
(* deregistered leaves no row and no command, and none comes back.         *)
THEOREM DeregisteredForGoodHolds == Spec => []DeregisteredForGood
BY WorkerInvHolds, PTL DEF WorkerInv

(* However many commands are sent, taken, lost and executed, they are      *)
(* executed in the order in which they were sent, each at most once.       *)
THEOREM CommandsInOrderHolds == Spec => []CommandsInOrder
BY WorkerInvHolds, PTL DEF WorkerInv, QueueInOrder

-----------------------------------------------------------------------------
(* The registry of an undisturbed worker.                                  *)

LEMMA LivingBefore ==
  ASSUME WorkerInv, [Next]_vars, process' \in Living, ~disturbed'
  PROVE  process \in Living /\ ~disturbed
<1> USE DEF WorkerInv, TypeOK, Living, Active, Over
<1>1. ASSUME NEW b \in Beater,
             BeatCommit(b) \/ BeatReply(b) \/ BeatRemove(b) \/ BeatFail(b)
      PROVE  process \in Living /\ ~disturbed
  <2>1. beat[b] # "off"
    BY <1>1 DEF BeatCommit, BeatReply, BeatRemove, BeatFail
  <2>2. process \notin Ending
    BY <2>1 DEF BeatsEndFirst
  <2>3. disturbed' = disturbed \/ disturbed' = TRUE
    BY <1>1 DEF BeatCommit, BeatReply, BeatRemove, BeatFail
  <2>4. QED
    BY <2>2, <2>3 DEF Ending
<1>2. CASE Populate \/ HeartbeatLoop \/ ExecuteStart
  BY <1>2 DEF Populate, HeartbeatLoop, ExecuteStart, Execute, Collect
<1>3. CASE Sigterm \/ GraceEnds \/ Deregister \/ DeregisterFails \/ Crash
  BY <1>3 DEF Sigterm, GraceEnds, Deregister, DeregisterFails, Crash
<1>4. CASE Elsewhere
  BY <1>4, ElsewhereIs DEF beatVars
<1>5. QED
  BY <1>1, <1>2, <1>3, <1>4, StepIs

(* Who is listed stays listed: a killed consumer stays killed, one that    *)
(* exits is finished.                                                      *)
LEMMA ListedStays ==
  ASSUME WorkerInv, Elsewhere, NEW c \in Consumer, Listed(c)
  PROVE  Listed(c)'
<1> USE DEF WorkerInv, TypeOK, Listed
<1>1. CASE ExecuteKill
  BY <1>1 DEF ExecuteKill, Execute
<1>2. ASSUME NEW d \in Consumer, ConsumerStep(d)
      PROVE  Listed(c)'
  <2>1. CASE Exit(d)
    BY <2>1 DEF Exit
  <2>2. ASSUME \/ Ask(d) \/ ClaimNothing(d) \/ Settle(d) \/ SettleFails(d)
               \/ \E m \in Message : Claim(d, m)
        PROVE  Listed(c)'
    BY <2>2 DEF Ask, ClaimNothing, Settle, SettleFails, Claim, workerVars
  <2>3. QED
    BY <1>2, <2>1, <2>2 DEF ConsumerStep
<1>3. CASE \/ TakeCommands \/ TakeFails \/ ExecuteStop
           \/ \E d \in Consumer : SendKill(d) \/ AgeConsumer(d)
           \/ SendOther \/ AgeWorker \/ ForgetConsumers \/ ForgetWorker
           \/ UNCHANGED vars
  BY <1>3
  DEF TakeCommands, TakeFails, ExecuteStop, Execute, SendKill, AgeConsumer, SendOther,
      Send, AgeWorker, ForgetConsumers, ForgetWorker, vars, consumerVars, workerVars
<1>4. QED
  BY <1>1, <1>2, <1>3 DEF Elsewhere

LEMMA RowsOnlyGo ==
  ASSUME WorkerInv, Elsewhere
  PROVE  rows' \subseteq rows
<1>1. CASE TakeCommands \/ TakeFails \/ ExecuteStop \/ ExecuteKill
  BY <1>1 DEF TakeCommands, TakeFails, ExecuteStop, ExecuteKill, Execute, tableVars
<1>2. CASE \E c \in Consumer : ConsumerStep(c) \/ SendKill(c) \/ AgeConsumer(c)
  BY <1>2, ConsumersStay DEF SendKill, Send, AgeConsumer, tableVars
<1>3. CASE \/ SendOther \/ AgeWorker \/ ForgetConsumers \/ ForgetWorker
           \/ UNCHANGED vars
  BY <1>3
  DEF SendOther, Send, AgeWorker, ForgetConsumers, ForgetWorker, DeleteWorker, vars,
      tableVars
<1>4. QED
  BY <1>1, <1>2, <1>3 DEF Elsewhere

(* A heartbeat that begins alone collects consumers that run.              *)
LEMMA CollectKeepsRegistry ==
  ASSUME WorkerInv, OneBeat, CollectedListed, RowsListed,
         NEW b \in Beater, NEW live \in SUBSET Consumer, Collect(b, live),
         live \subseteq consumers', rows' = rows, ~disturbed',
         \A c \in Consumer : Listed(c) => Listed(c)'
  PROVE  OneBeat' /\ CollectedListed' /\ RowsListed'
<1> USE DEF WorkerInv, TypeOK
<1>1. /\ \A d \in Beater \ {b} : beat[d] = "off" /\ beat'[d] = "off"
      /\ \A d \in Beater \ {b} : collected'[d] = collected[d]
      /\ collected'[b] = {<<c, current[c]>> : c \in live}
      /\ removing' = removing
  BY DEF Collect
<1>2. OneBeat'
  BY <1>1 DEF OneBeat
<1>3. CollectedListed'
  <2>1. \A d \in Beater \ {b} : collected'[d] = {}
    BY <1>1 DEF BeatRecords
  <2>2. \A pair \in collected'[b] : pair[1] \in consumers'
    BY <1>1
  <2>3. QED
    BY <2>1, <2>2 DEF CollectedListed, Listed
<1>4. RowsListed'
  BY <1>1 DEF RowsListed
<1>5. QED
  BY <1>2, <1>3, <1>4

LEMMA BeatKeepsRegistry ==
  ASSUME WorkerInv, OneBeat, CollectedListed, RowsListed, NEW b \in Beater,
         BeatCommit(b) \/ BeatReply(b) \/ BeatRemove(b)
  PROVE  OneBeat' /\ CollectedListed' /\ RowsListed'
<1> USE DEF WorkerInv, TypeOK
<1>1. beat[b] # "off" /\ \A d \in Beater \ {b} : beat[d] = "off"
  BY DEF BeatCommit, BeatReply, BeatRemove, OneBeat
<1>2. \A d \in Beater \ {b} : collected[d] = {} /\ removing[d] = {}
  BY <1>1 DEF BeatRecords
<1>3. /\ \A d \in Beater \ {b} : beat'[d] = beat[d] /\ collected'[d] = collected[d]
      /\ \A d \in Beater \ {b} : removing'[d] = removing[d]
      /\ UNCHANGED <<task, consumers>>
  BY DEF BeatCommit, BeatReply, BeatRemove, consumerVars, workerVars
<1>4. OneBeat'
  BY <1>1, <1>3 DEF OneBeat
<1>5. CASE BeatCommit(b)
  <2>1. /\ rows' = rows \cup {pair[1] : pair \in collected[b]}
        /\ UNCHANGED <<collected, removing, _finished>>
    BY <1>5 DEF BeatCommit, Upsert, workerVars
  <2>2. \A c \in Consumer : Listed(c) => Listed(c)'
    BY <1>3, <2>1 DEF Listed
  <2>3. \A pair \in collected[b] : pair[1] \in Consumer /\ Listed(pair[1])
    BY DEF CollectedListed
  <2>4. CollectedListed'
    BY <1>3, <2>1 DEF CollectedListed, Listed
  <2>5. RowsListed'
    BY <2>1, <2>2, <2>3 DEF RowsListed
  <2>6. QED
    BY <1>4, <2>4, <2>5
<1>6. CASE BeatReply(b)
  <2>1. /\ beat[b] = "upserted" /\ removing[b] = {}
        /\ _finished' = {} /\ collected'[b] = {} /\ rows' = rows
        /\ removing'[b] = _finished
    <3>1. beat[b] = "upserted" /\ removing[b] = {}
      BY <1>6 DEF BeatReply, BeatRecords
    <3>2. QED
      BY <1>6, <3>1 DEF BeatReply, tableVars
  <2>2. CollectedListed'
    BY <1>2, <1>3, <2>1 DEF CollectedListed
  <2>3. RowsListed'
    BY <1>2, <1>3, <2>1 DEF RowsListed, Listed
  <2>4. QED
    BY <1>4, <2>2, <2>3
<1>7. CASE BeatRemove(b)
  <2>1. /\ rows' = rows \ removing[b] /\ UNCHANGED <<collected, _finished>>
    BY <1>7 DEF BeatRemove
  <2>2. CollectedListed'
    BY <1>3, <2>1 DEF CollectedListed, Listed
  <2>3. RowsListed'
    BY <1>2, <1>3, <2>1 DEF RowsListed, Listed
  <2>4. QED
    BY <1>4, <2>2, <2>3
<1>8. QED
  BY <1>5, <1>6, <1>7

LEMMA StepKeepsRegistry ==
  ASSUME WorkerInv, RegistryInv, [Next]_vars
  PROVE  RegistryInv'
<1> SUFFICES ASSUME process' \in Living, ~disturbed'
             PROVE  OneBeat' /\ CollectedListed' /\ RowsListed'
  BY DEF RegistryInv
<1>1. OneBeat /\ CollectedListed /\ RowsListed
  BY LivingBefore DEF RegistryInv
<1>2. ASSUME NEW b \in Beater, BeatCommit(b) \/ BeatReply(b) \/ BeatRemove(b)
      PROVE  OneBeat' /\ CollectedListed' /\ RowsListed'
  BY <1>1, <1>2, BeatKeepsRegistry
<1>3. ASSUME NEW b \in Beater, BeatFail(b)
      PROVE  FALSE
  BY <1>3 DEF BeatFail
<1>4. CASE Populate
  <2>1. /\ Collect("main", consumers') /\ "main" \in Beater
        /\ rows' = rows /\ UNCHANGED _finished
    BY <1>4 DEF Populate, Beater, tableVars
  <2>2. /\ consumers' \in SUBSET Consumer
        /\ \A c \in Consumer : Listed(c) => Listed(c)'
    BY <1>4, <2>1, PopulateFits, StartConsumersKeeps DEF Listed
  <2>3. QED
    BY <1>1, <2>1, <2>2, CollectKeepsRegistry
<1>5. CASE HeartbeatLoop
  <2>1. /\ Collect("heartbeat", consumers) /\ "heartbeat" \in Beater
        /\ rows' = rows /\ UNCHANGED <<consumers, task, _finished>>
    BY <1>5 DEF HeartbeatLoop, Beater, tableVars, consumerVars, workerVars
  <2>2. /\ consumers \in SUBSET Consumer
        /\ \A c \in Consumer : Listed(c) => Listed(c)'
    BY <2>1 DEF WorkerInv, TypeOK, Listed
  <2>3. QED
    BY <1>1, <2>1, <2>2, CollectKeepsRegistry
<1>6. CASE ExecuteStart
  <2>1. /\ Collect("commands", consumers') /\ "commands" \in Beater
        /\ Execute("start") /\ StartConsumers(Head(batch).arg)
        /\ rows' = rows /\ UNCHANGED _finished
    BY <1>6 DEF ExecuteStart, Execute, Beater, tableVars
  <2>2. /\ consumers' \in SUBSET Consumer
        /\ \A c \in Consumer : Listed(c) => Listed(c)'
    BY <2>1, StartFits, StartConsumersKeeps DEF Listed
  <2>3. QED
    BY <1>1, <2>1, <2>2, CollectKeepsRegistry
<1>7. CASE Sigterm \/ GraceEnds \/ Deregister \/ DeregisterFails \/ Crash
  BY <1>7 DEF Sigterm, GraceEnds, Deregister, DeregisterFails, Crash, Living, Active
<1>8. CASE Elsewhere
  <2>1. UNCHANGED beatVars /\ rows' \subseteq rows
    BY <1>8, ElsewhereIs, RowsOnlyGo
  <2>2. \A c \in Consumer : Listed(c) => Listed(c)'
    BY <1>8, ListedStays
  <2>3. \A b \in Beater : \A pair \in collected[b] : pair[1] \in Consumer
    BY DEF WorkerInv, TypeOK
  <2>4. QED
    BY <1>1, <2>1, <2>2, <2>3
    DEF WorkerInv, TypeOK, OneBeat, CollectedListed, RowsListed, beatVars
<1>9. QED
  BY <1>2, <1>3, <1>4, <1>5, <1>6, <1>7, <1>8, StepIs

(* Between two heartbeats the registry of a running worker shows no        *)
(* consumer that has finished, whichever of its tasks sent the last one,   *)
(* unless a heartbeat failed or overlapped with another one.               *)
THEOREM FinishedLeaveNoRowHolds == Spec => []FinishedLeaveNoRow
<1>1. WorkerInv /\ RegistryInv => FinishedLeaveNoRow
  <2> SUFFICES ASSUME WorkerInv, RegistryInv, process = "running", ~disturbed,
                      _finished = {}, \A b \in Beater : beat[b] = "off", NEW c \in rows
               PROVE  c \in consumers \/ task[c] = "killed"
    BY DEF FinishedLeaveNoRow
  <2>1. RowsListed
    BY DEF RegistryInv, Living, Active
  <2>2. \A b \in Beater : removing[b] = {}
    BY DEF WorkerInv, BeatRecords
  <2>3. QED
    BY <2>1, <2>2 DEF RowsListed, Listed
<1>2. WorkerInv /\ RegistryInv /\ [Next]_vars => RegistryInv'
  BY StepKeepsRegistry
<1>3. QED
  BY <1>1, <1>2, InitInv, WorkerInvHolds, PTL DEF Spec
=============================================================================
