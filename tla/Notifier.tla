------------------------------ MODULE Notifier ------------------------------
(***************************************************************************)
(* Waking up idle loops (app/notifier.py): the triggers of sql/schema.sql  *)
(* send a notification when a message becomes ready or a command is sent;  *)
(* one LISTEN connection per process turns notifications into new          *)
(* versions; consumers (app/consumer.py) and the command loop              *)
(* (app/worker.py) read the version, look for work, and wait for a newer   *)
(* version or for the poll interval.                                       *)
(***************************************************************************)
EXTENDS Integers, FiniteSets

CONSTANTS
  Message,      \* messages that become ready, each perhaps several times
  Command,      \* commands for the worker
  Consumer,     \* consumers of the process, all of one queue
  CommandLoop,
  MaxVersion    \* bound on version

ASSUME NotifierAssumption ==
  /\ Message \cap Command = {}
  /\ CommandLoop \notin Consumer
  /\ MaxVersion \in Nat

Loop == Consumer \cup {CommandLoop}

VARIABLES
  ready,       \* messages that can be claimed
  commands,    \* rows of worker_commands
  version,
  connection,  \* of _listen: down, LISTEN executed, first poke done
  in_flight,   \* notifications sent and not yet received
  pc,
  seen,        \* the version each loop has read
  notified,    \* history: ready messages whose last change sent a notification
  passed_over  \* history: what a query did not bring and is still there: a message
               \* that another claim had locked, the commands of a failed take

vars == <<ready, commands, version, connection, in_flight, pc, seen, notified,
          passed_over>>

TypeOK ==
  /\ ready \in SUBSET Message
  /\ commands \in SUBSET Command
  /\ version \in 0..MaxVersion
  /\ connection \in {"down", "listening", "connected"}
  /\ in_flight \in SUBSET {"broker_messages", "broker_control"}
  /\ pc \in [Loop -> {"looking", "asking", "answered", "waiting", "away"}]
  /\ seen \in [Loop -> 0..MaxVersion]
  /\ notified \in SUBSET ready
  /\ passed_over \in SUBSET (ready \cup commands)

Init ==
  /\ ready = {}
  /\ commands = {}
  /\ version = 0
  /\ connection = "down"
  /\ in_flight = {}
  /\ pc = [l \in Loop |-> "looking"]
  /\ seen = [l \in Loop |-> 0]
  /\ notified = {}
  /\ passed_over = {}

-----------------------------------------------------------------------------
(* The database.                                                           *)

NotifySwapped(channel) ==    \* mutant: pg_notify(NEW.queue, 'broker_messages')
  in_flight' = IF connection = "down" THEN in_flight ELSE in_flight \cup {"default"}

(* NOTIFY reaches who is listening when the transaction commits.  Waiting  *)
(* notifications of one channel are as good as one.                        *)
Notify(channel) ==
  in_flight' = IF connection = "down" THEN in_flight ELSE in_flight \cup {channel}

(* Inserted ready, or made pending again and ready: both triggers notify.  *)
BecomeReady(m) ==
  /\ m \notin ready
  /\ ready' = ready \cup {m}
  /\ notified' = notified \cup {m}
  /\ Notify("broker_messages")
  /\ UNCHANGED <<commands, version, connection, pc, seen, passed_over>>

(* A delayed message, or a retry after its backoff, becomes due.           *)
BecomeDue(m) ==
  /\ m \notin ready
  /\ ready' = ready \cup {m}
  /\ UNCHANGED <<commands, version, connection, in_flight, pc, seen, notified, passed_over>>

SendCommand(k) ==
  /\ k \notin commands
  /\ commands' = commands \cup {k}
  /\ Notify("broker_control")
  /\ UNCHANGED <<ready, version, connection, pc, seen, notified, passed_over>>

-----------------------------------------------------------------------------
(* _listen and poke.                                                       *)

Poke ==
  /\ version < MaxVersion
  /\ version' = version + 1

Listen ==
  /\ connection = "down"
  /\ connection' = "listening"
  /\ UNCHANGED <<ready, commands, version, in_flight, pc, seen, notified, passed_over>>

ConnectedUnpoked ==    \* mutant: no poke after LISTEN
  /\ connection = "listening"
  /\ connection' = "connected"
  /\ UNCHANGED <<ready, commands, version, in_flight, pc, seen, notified, passed_over>>

(* "Notifications sent while we were disconnected are gone."               *)
Connected ==
  /\ connection = "listening"
  /\ Poke
  /\ connection' = "connected"
  /\ UNCHANGED <<ready, commands, in_flight, pc, seen, notified, passed_over>>

Receive(channel) ==
  /\ connection = "connected"
  /\ channel \in in_flight
  /\ Poke
  /\ in_flight' = in_flight \ {channel}
  /\ UNCHANGED <<ready, commands, connection, pc, seen, notified, passed_over>>

(* The connection is lost, with what it had not delivered.                 *)
Disconnect ==
  /\ connection # "down"
  /\ connection' = "down"
  /\ in_flight' = {}
  /\ UNCHANGED <<ready, commands, version, pc, seen, notified, passed_over>>

(* stop_consumer wakes everybody.                                          *)
PokeForStop ==
  /\ Poke
  /\ UNCHANGED <<ready, commands, connection, in_flight, pc, seen, notified, passed_over>>

-----------------------------------------------------------------------------
(* The loops.                                                              *)

Step(l, place) == pc' = [pc EXCEPT ![l] = place]

(* `seen = notifier.version`, and the query is sent.                       *)
Look(l) ==
  /\ pc[l] = "looking"
  /\ seen' = [seen EXCEPT ![l] = version]
  /\ Step(l, "asking")
  /\ UNCHANGED <<ready, commands, version, connection, in_flight, notified, passed_over>>

(* Ready messages other claims may have locked at this moment.             *)
OthersAsking(c) == Cardinality({d \in Consumer \ {c} : pc[d] = "asking"})

ClaimMessage(c, m) ==
  /\ pc[c] = "asking"
  /\ m \in ready
  /\ ready' = ready \ {m}
  /\ notified' = notified \ {m}
  /\ passed_over' = passed_over \ {m}
  /\ Step(c, "away")
  /\ UNCHANGED <<commands, version, connection, in_flight, seen>>

ClaimNothing(c) ==
  /\ pc[c] = "asking"
  /\ Cardinality(ready) <= OthersAsking(c)
  /\ passed_over' = passed_over \cup ready
  /\ Step(c, "answered")
  /\ UNCHANGED <<ready, commands, version, connection, in_flight, seen, notified>>

(* The empty answer arrives.                                               *)
WaitThenLook(c) ==   \* mutant: the version is read when the wait begins
  /\ pc[c] = "answered"
  /\ seen' = [seen EXCEPT ![c] = version]
  /\ Step(c, "waiting")
  /\ UNCHANGED <<ready, commands, version, connection, in_flight, notified, passed_over>>

Wait(c) ==
  /\ pc[c] = "answered"
  /\ Step(c, "waiting")
  /\ UNCHANGED <<ready, commands, version, connection, in_flight, seen, notified, passed_over>>

(* A claim fails; what it had locked is as it was.                         *)
ClaimFails(c) ==
  /\ pc[c] = "asking"
  /\ Step(c, "away")
  /\ UNCHANGED <<ready, commands, version, connection, in_flight, seen, notified, passed_over>>

(* The message is handled, or the sleep after an error is over.            *)
GoOn(c) ==
  /\ pc[c] = "away"
  /\ Step(c, "looking")
  /\ UNCHANGED <<ready, commands, version, connection, in_flight, seen, notified, passed_over>>

(* take_commands and their execution, after which the loop waits.          *)
TakeCommands ==
  /\ pc[CommandLoop] = "asking"
  /\ commands' = {}
  /\ passed_over' = passed_over \ commands
  /\ Step(CommandLoop, "waiting")
  /\ UNCHANGED <<ready, version, connection, in_flight, seen, notified>>

(* A failed attempt is logged, and the loop waits all the same.            *)
TakeFails ==
  /\ pc[CommandLoop] = "asking"
  /\ passed_over' = passed_over \cup commands
  /\ Step(CommandLoop, "waiting")
  /\ UNCHANGED <<ready, commands, version, connection, in_flight, seen, notified>>

(* wait_newer returns.                                                     *)
Woken(l) ==
  /\ pc[l] = "waiting"
  /\ version > seen[l]
  /\ Step(l, "looking")
  /\ UNCHANGED <<ready, commands, version, connection, in_flight, seen, notified, passed_over>>

PollInterval(l) ==
  /\ pc[l] = "waiting"
  /\ Step(l, "looking")
  /\ UNCHANGED <<ready, commands, version, connection, in_flight, seen, notified, passed_over>>

Database ==
  \/ \E m \in Message : BecomeReady(m) \/ BecomeDue(m)
  \/ \E k \in Command : SendCommand(k)

Listener ==
  \/ Listen \/ Connected \/ Disconnect
  \/ \E channel \in {"broker_messages", "broker_control"} : Receive(channel)

LoopStep(l) == Look(l) \/ Woken(l) \/ PollInterval(l)

Next ==
  \/ Database \/ Listener \/ PokeForStop
  \/ \E l \in Loop : LoopStep(l)
  \/ \E c \in Consumer :
       \/ ClaimNothing(c) \/ Wait(c) \/ ClaimFails(c) \/ GoOn(c)
       \/ \E m \in Message : ClaimMessage(c, m)
  \/ TakeCommands \/ TakeFails

Spec == Init /\ [][Next]_vars

-----------------------------------------------------------------------------
(* Properties.                                                             *)

(* The loop sleeps, and nothing but the poll interval will wake it.        *)
Deaf(l) == pc[l] = "waiting" /\ seen[l] = version

Quiet == connection = "connected" /\ in_flight = {}

(* "a notification arriving in between is never lost" (notifier.py:20):    *)
(* once the notifications are delivered, no consumer sleeps past a message *)
(* that sent one, unless another claim had the message locked when the     *)
(* consumer looked for it.                                                 *)
NoMessageSleptPast ==
  Quiet /\ (\E c \in Consumer : Deaf(c)) => notified \subseteq passed_over

(* Nor does the command loop sleep past a command, whenever it was sent    *)
(* and whatever became of the connection, unless it failed to take it: a   *)
(* failed take waits for the poll interval like one that brought nothing   *)
(* (worker.py:130-132).                                                    *)
NoCommandSleptPast ==
  Quiet /\ Deaf(CommandLoop) => commands \subseteq passed_over
=============================================================================
