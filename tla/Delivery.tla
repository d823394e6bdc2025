------------------------------ MODULE Delivery ------------------------------
(***************************************************************************)
(* Delivery of messages: the consumers' loop (app/consumer.py), the        *)
(* workers' heartbeats (app/worker.py, app/broker/registry.py) and the     *)
(* reaper (app/reaper.py) as clients of the table of Messages.             *)
(*                                                                         *)
(* Every await of the loop is a place where anything else may happen: the  *)
(* statement a consumer sends, its execution by the database and the       *)
(* arrival of the reply are separate steps.  Processes crash, consumers    *)
(* are killed, statements and replies are lost to database errors,         *)
(* heartbeats are late, and the table is changed underneath by producers   *)
(* and by the operator.                                                    *)
(*                                                                         *)
(* A consumer started later is one that has not taken its first step: ids  *)
(* carry a random suffix, so that none is used twice (worker.py:46).       *)
(***************************************************************************)
EXTENDS Workers

CONSTANTS
  QueueOf,    \* the queue each consumer serves
  Mortal,     \* consumers that may be stopped, killed or crash
  NoMessage   \* the consumer has no message

ASSUME DeliveryAssumption ==
  /\ QueueOf \in [Consumer -> Queue]
  /\ Mortal \subseteq Consumer
  /\ NoMessage \notin MsgId

VARIABLES
  pc,         \* where each consumer's task is in run() and _step()
  message,    \* the message its claim returned
  beat,       \* the leases in each worker's heartbeat under way
  mine,       \* history: the row still carries the lease of c's last claim
  succeeded   \* history: messages whose present lease's handler succeeded

clientVars == <<pc, message, beat>>
history    == <<mine, succeeded>>
vars == <<tableVars, clientVars, history>>

Place == {"loop", "claiming", "granted", "handling", "acking", "nacking",
          "answered", "idle", "exited", "killed"}

(* Between the reply to the claim and the reply to the ack or nack.        *)
Working == {"handling", "acking", "nacking", "answered"}

DeliveryTypeOK ==
  /\ TableTypeOK
  /\ pc \in [Consumer -> Place]
  /\ message \in [Consumer -> MsgId \cup {NoMessage}]
  /\ beat \in [Worker -> SUBSET (MsgId \X Consumer)]
  /\ mine \in [Consumer -> BOOLEAN]
  /\ succeeded \in SUBSET MsgId

DeliveryInit ==
  /\ TableInit
  /\ pc = [c \in Consumer |-> "loop"]
  /\ message = [c \in Consumer |-> NoMessage]
  /\ beat = [w \in Worker |-> {}]
  /\ mine = [c \in Consumer |-> FALSE]
  /\ succeeded = {}

-----------------------------------------------------------------------------
(* History variables: they follow the table and decide nothing.  A lease   *)
(* ends when the row leaves "processing", and so do its history entries.   *)

KeepHistory ==
  /\ mine' = [c \in Consumer |->
       /\ mine[c]
       /\ message[c] \in MsgId
       /\ status'[message[c]] = "processing"
       /\ locked_by'[message[c]] = c]
  /\ succeeded' = {m \in succeeded : status'[m] \in {"processing", "done"}}

-----------------------------------------------------------------------------
(* The consumer's loop.                                                    *)

Goto(c, place) == pc' = [pc EXCEPT ![c] = place]

(* The end of a step of the loop without a message in hand.                *)
LetGo(c, place) ==
  /\ Goto(c, place)
  /\ message' = [message EXCEPT ![c] = NoMessage]
  /\ mine' = [mine EXCEPT ![c] = FALSE]

(* `while not self.stopping`: the flag is tested here and nowhere else.    *)
Loop(c) ==
  /\ pc[c] = "loop"
  /\ Goto(c, "claiming")
  /\ UNCHANGED <<tableVars, message, beat, history>>

Exit(c) ==
  /\ c \in Mortal
  /\ pc[c] = "loop"
  /\ Goto(c, "exited")
  /\ UNCHANGED <<tableVars, message, beat, history>>

(* The ready rows a claim may pass over: those that other statements have  *)
(* locked, and those that became ready after its snapshot (see Statements; *)
(* with other claims under way, any of them).                              *)
Selected(c) == SUBSET Ready(QueueOf[c])

ClaimMessage(c, locked, m) ==
  /\ pc[c] = "claiming"
  /\ Claim(c, QueueOf[c], locked, m)
  /\ Goto(c, "granted")
  /\ message' = [message EXCEPT ![c] = m]
  /\ mine' = [mine EXCEPT ![c] = TRUE]
  /\ UNCHANGED <<beat, succeeded>>

ClaimNothing(c) ==
  /\ pc[c] = "claiming"
  /\ Goto(c, "idle")
  /\ UNCHANGED <<tableVars, message, beat, history>>

(* The claim's reply arrives: current_message_id is set.                   *)
StartHandling(c) ==
  /\ pc[c] = "granted"
  /\ Goto(c, "handling")
  /\ UNCHANGED <<tableVars, message, beat, history>>

HandlerSucceeds(c) ==
  /\ pc[c] = "handling"
  /\ Goto(c, "acking")
  /\ succeeded' = IF mine[c] THEN succeeded \cup {message[c]} ELSE succeeded
  /\ UNCHANGED <<tableVars, message, beat, mine>>

HandlerFailsQuietly(c) ==   \* mutant: the exception is swallowed
  /\ pc[c] = "handling"
  /\ Goto(c, "acking")
  /\ UNCHANGED <<tableVars, message, beat, history>>

HandlerFails(c) ==
  /\ pc[c] = "handling"
  /\ Goto(c, "nacking")
  /\ UNCHANGED <<tableVars, message, beat, history>>

(* A lost lease is logged and nothing else: both outcomes go on alike.     *)
AckMessage(c) ==
  /\ pc[c] = "acking"
  /\ Ack(c, message[c])
  /\ Goto(c, "answered")
  /\ UNCHANGED <<message, beat>>
  /\ KeepHistory

NackMessage(c) ==
  /\ pc[c] = "nacking"
  /\ Nack(c, message[c])
  /\ Goto(c, "answered")
  /\ UNCHANGED <<message, beat>>
  /\ KeepHistory

Finish(c) ==
  /\ pc[c] = "answered"
  /\ LetGo(c, "loop")
  /\ UNCHANGED <<tableVars, beat, succeeded>>

(* psycopg.Error out of a statement that was not executed, or was executed *)
(* and its reply lost: the message is forgotten, the loop sleeps 1 s.      *)
DatabaseError(c) ==
  /\ pc[c] \in {"claiming", "granted", "acking", "nacking", "answered"}
  /\ LetGo(c, "idle")
  /\ UNCHANGED <<tableVars, beat, succeeded>>

(* A notification, the poll interval or the end of the sleep.              *)
Wake(c) ==
  /\ pc[c] = "idle"
  /\ Goto(c, "loop")
  /\ UNCHANGED <<tableVars, message, beat, history>>

-----------------------------------------------------------------------------
(* Failures: kill_consumer and stop_all cancel a task, wherever it waits;  *)
(* a crash takes the whole process, with its heartbeat under way.          *)

Kill(c) ==
  /\ c \in Mortal
  /\ pc[c] \notin {"exited", "killed"}
  /\ LetGo(c, "killed")
  /\ UNCHANGED <<tableVars, beat, succeeded>>

ConsumersOf(w) == {c \in Consumer : WorkerOf[c] = w}

Crash(w) ==
  /\ ConsumersOf(w) \subseteq Mortal
  /\ \E c \in ConsumersOf(w) : pc[c] # "killed"
  /\ pc' = [c \in Consumer |-> IF c \in ConsumersOf(w) THEN "killed" ELSE pc[c]]
  /\ message' =
       [c \in Consumer |-> IF c \in ConsumersOf(w) THEN NoMessage ELSE message[c]]
  /\ mine' = [c \in Consumer |-> c \notin ConsumersOf(w) /\ mine[c]]
  /\ beat' = [beat EXCEPT ![w] = {}]
  /\ UNCHANGED <<tableVars, succeeded>>

-----------------------------------------------------------------------------
(* The worker's heartbeat: _beat collects the leases before it awaits the  *)
(* transaction that renews them.  A beat without a lease changes nothing   *)
(* here.                                                                   *)

LeasesOf(w) ==
  {<<message[c], c>> : c \in {d \in ConsumersOf(w) : pc[d] \in Working}}

BeatStart(w) ==
  /\ beat[w] = {}
  /\ LeasesOf(w) # {}
  /\ beat' = [beat EXCEPT ![w] = LeasesOf(w)]
  /\ UNCHANGED <<tableVars, pc, message, history>>

BeatCommit(w) ==
  /\ beat[w] # {}
  /\ Renew(beat[w])
  /\ beat' = [beat EXCEPT ![w] = {}]
  /\ UNCHANGED <<pc, message>>
  /\ KeepHistory

BeatFail(w) ==
  /\ beat[w] # {}
  /\ beat' = [beat EXCEPT ![w] = {}]
  /\ UNCHANGED <<tableVars, pc, message, history>>

-----------------------------------------------------------------------------
(* The reaper skips rows that an ack, a nack or a heartbeat has locked.    *)

LockedByHolders ==
  {m \in MsgId : \E c \in Consumer :
     /\ Holds(c, m)
     /\ \/ message[c] = m /\ pc[c] \in {"acking", "nacking"}
        \/ \E w \in Worker : <<m, c>> \in beat[w]}

ReaperPass(locked) ==
  /\ Reap(locked)
  /\ UNCHANGED clientVars
  /\ KeepHistory

-----------------------------------------------------------------------------
(* Everybody else: producers, the operator's buttons, the clock.           *)

Background ==
  /\ Producer \/ Operator \/ Tick
  /\ UNCHANGED clientVars
  /\ KeepHistory

ConsumerStep(c) ==
  \/ Loop(c) \/ ClaimNothing(c) \/ StartHandling(c)
  \/ \E locked \in Selected(c), m \in MsgId : ClaimMessage(c, locked, m)
  \/ HandlerSucceeds(c) \/ HandlerFails(c)
  \/ AckMessage(c) \/ NackMessage(c) \/ Finish(c)
  \/ DatabaseError(c) \/ Wake(c)

BeatEnd(w) == BeatCommit(w) \/ BeatFail(w)

DeliveryNext ==
  \/ \E c \in Consumer : ConsumerStep(c) \/ Exit(c) \/ Kill(c)
  \/ \E w \in Worker : Crash(w) \/ BeatStart(w) \/ BeatEnd(w)
  \/ \E locked \in SUBSET LockedByHolders : ReaperPass(locked)
  \/ Background

DeliverySpec == DeliveryInit /\ [][DeliveryNext]_vars

(* Fairness.  Time passes; a process that lives runs its tasks, and every  *)
(* statement ends in a reply or in an error; a consumer that asks again    *)
(* and again while messages are ready is given one some day (the database  *)
(* cannot fail every claim forever); the reaper of some process runs       *)
(* forever (run_reaper, in the web app and in every worker).               *)
Fairness ==
  /\ WF_vars(Tick /\ UNCHANGED clientVars /\ KeepHistory)
  /\ WF_vars(\E locked \in SUBSET LockedByHolders : ReaperPass(locked))
  /\ \A w \in Worker : WF_vars(BeatEnd(w))
  /\ \A c \in Consumer :
       /\ WF_vars(ConsumerStep(c))
       /\ SF_vars(\E locked \in Selected(c), m \in MsgId : ClaimMessage(c, locked, m))

FairDeliverySpec == DeliverySpec /\ Fairness

-----------------------------------------------------------------------------
(* Properties.                                                             *)

(* A message is done only if the handler returned without an exception     *)
(* under the very lease that was acked: not an earlier holder's, not one   *)
(* of a message that had the same id before a reset.                       *)
DoneOnlyAfterSuccess ==
  \A m \in MsgId : status[m] = "done" => m \in succeeded

(* An ack or nack of a consumer whose lease has meanwhile ended (reaped,   *)
(* handed to another consumer, settled, requeued, purged, reset and        *)
(* published again under the same id) changes no row, although only        *)
(* status and locked_by are compared and a consumer may hold the same      *)
(* message several times.                                                  *)
LateReplyIsIgnored ==
  [][\A c \in Consumer :
       pc[c] \in {"acking", "nacking"} /\ pc'[c] = "answered" /\ ~mine[c]
         => UNCHANGED tableVars]_vars

(* The leases of dead, killed and failed consumers, and of claims whose    *)
(* reply was lost, run out: a processing message nobody is working on does *)
(* not stay so, even if a heartbeat under way renews it once more.         *)
Orphan(m) ==
  /\ status[m] = "processing"
  /\ \A c \in Consumer : ~(mine[c] /\ message[c] = m)

OrphansRecovered == \A m \in MsgId : Orphan(m) ~> ~Orphan(m)

(* Once the operator stops intervening, every message of a queue with a    *)
(* consumer that is never stopped ends up done or dead, however many       *)
(* others crash and whatever statements fail.                              *)
Served(m) == \E c \in Consumer \ Mortal : QueueOf[c] = queue[m]

Settled(m) == status[m] \in {"done", "dead", "absent"}   \* absent: removed

EventuallySettled ==
  <>[][~(Operator /\ UNCHANGED clientVars)]_tableVars =>
    \A m \in MsgId : Served(m) ~> Settled(m)

(* The promise: each message as AtLeastOnce sees it.                       *)
stage ==
  [m \in MsgId |->
     CASE status[m] = "pending"    -> "waiting"
       [] status[m] = "processing" -> "out"
       [] status[m] = "done"       -> "completed"
       [] OTHER                    -> status[m]]

Promise == INSTANCE AtLeastOnce WITH holder <- locked_by, proven <- succeeded

KeepsPromise == Promise!Spec
=============================================================================
