----------------------------- MODULE Statements -----------------------------
(***************************************************************************)
(* The statements of app/broker/messages.py and the heartbeat transaction  *)
(* of app/broker/registry.py as PostgreSQL executes them on the table of   *)
(* Messages, many at a time, at READ COMMITTED.                            *)
(*                                                                         *)
(* A statement looks for rows in the snapshot it took when it began.  It   *)
(* locks them one by one; a row that another transaction has locked it     *)
(* waits for, or passes over (SKIP LOCKED); a row that has been changed    *)
(* since the snapshot it looks at again, under the lock.  What it writes   *)
(* is visible, and its locks are released, when its transaction commits:   *)
(* at its end, except in a heartbeat, which renews one lease after the     *)
(* other in one transaction.                                               *)
(*                                                                         *)
(* Messages takes each of them for one action; AtomicStatements says that  *)
(* it may.  A publish locks no row and is one action here too.             *)
(***************************************************************************)
EXTENDS Workers

CONSTANT Session   \* connections of the pools

ASSUME StatementsAssumption == Nobody \notin Worker

VARIABLES
  stmt,       \* the statement each session executes
  worker,     \* the worker whose heartbeat transaction that is part of
  todo,       \* leases the heartbeat has still to renew
  rows,       \* rows of the statement's snapshot it has still to visit
  locks,      \* rows the session's transaction has locked
  taken       \* those among them that it will write

sessionVars == <<stmt, worker, todo, rows, locks, taken>>
statementVars == <<tableVars, sessionVars>>

(* by: the consumer that sends it; ids: the messages it names, by id or by *)
(* the queue they are in.                                                  *)
Call(kind, by, q, ids) == [kind |-> kind, by |-> by, queue |-> q, ids |-> ids]

Idle == Call("idle", Nobody, SomeQueue, {})

StatementsInit ==
  /\ TableInit
  /\ stmt = [s \in Session |-> Idle]
  /\ worker = [s \in Session |-> Nobody]
  /\ todo = [s \in Session |-> {}]
  /\ rows = [s \in Session |-> {}]
  /\ locks = [s \in Session |-> {}]
  /\ taken = [s \in Session |-> {}]

-----------------------------------------------------------------------------
(* Statements begin: their WHERE clauses, in the snapshot.                 *)

Where(call) ==
  CASE call.kind = "claim" -> Ready(call.queue)
    [] call.kind = "reap"  -> Expired
    [] call.kind \in {"requeue", "purge"} -> Dead \cap call.ids
    [] OTHER -> {m \in call.ids : Holds(call.by, m)}

Named == {{m} : m \in MsgId}

Calls ==
  [kind : {"claim"}, by : Consumer, queue : Queue, ids : {{}}]
  \cup [kind : {"ack", "nack"}, by : Consumer, queue : {SomeQueue}, ids : Named]
  \cup [kind : {"requeue", "purge"}, by : {Nobody}, queue : {SomeQueue}, ids : SUBSET MsgId]
  \cup [kind : {"reap"}, by : {Nobody}, queue : {SomeQueue}, ids : {{}}]

Execute(s, call) ==
  /\ stmt' = [stmt EXCEPT ![s] = call]
  /\ rows' = [rows EXCEPT ![s] = Where(call)]

(* A statement that finds no row changes none, and is left out.            *)
Begin(s, call) ==
  /\ stmt[s] = Idle
  /\ Where(call) # {}
  /\ Execute(s, call)
  /\ UNCHANGED <<tableVars, worker, todo, locks, taken>>

(* The leases _beat has collected, one of a consumer at most.              *)
Leases(w) ==
  {S \in SUBSET (MsgId \X {c \in Consumer : WorkerOf[c] = w}) :
     \A k, l \in S : k[2] = l[2] => k = l}

BeginBeatAtOnce(s, w, leases) ==    \* mutant: the worker's row is not locked
  /\ stmt[s] = Idle
  /\ Execute(s, Call("renew", Nobody, SomeQueue, {}))
  /\ worker' = [worker EXCEPT ![s] = w]
  /\ todo' = [todo EXCEPT ![s] = leases]
  /\ UNCHANGED <<tableVars, locks, taken>>

(* A heartbeat has the worker's row locked when it comes to the leases.    *)
BeginBeat(s, w, leases) ==
  /\ stmt[s] = Idle
  /\ \A t \in Session : worker[t] # w
  /\ Execute(s, Call("renew", Nobody, SomeQueue, {}))
  /\ worker' = [worker EXCEPT ![s] = w]
  /\ todo' = [todo EXCEPT ![s] = leases]
  /\ UNCHANGED <<tableVars, locks, taken>>

(* executemany: the next RENEW_LEASE_SQL, with a snapshot of its own.      *)
RenewNext(s, lease) ==
  /\ rows[s] = {}
  /\ lease \in todo[s]
  /\ Execute(s, Call("renew", lease[2], SomeQueue, {lease[1]}))
  /\ todo' = [todo EXCEPT ![s] = @ \ {lease}]
  /\ UNCHANGED <<tableVars, worker, locks, taken>>

-----------------------------------------------------------------------------
(* They visit their rows; a claim in its ORDER BY.                         *)

Visits(s, m) ==
  /\ m \in rows[s]
  /\ stmt[s].kind = "claim" => \A n \in rows[s] \ {m} : Before(m, n)

LockedByOther(s, m) == \E t \in Session \ {s} : m \in locks[t]

(* LIMIT 1: a claim that has taken a row is content.                       *)
TakeUnchecked(s, m) ==              \* mutant: the row is taken as first seen
  /\ Visits(s, m)
  /\ ~LockedByOther(s, m)
  /\ locks' = [locks EXCEPT ![s] = @ \cup {m}]
  /\ taken' = [taken EXCEPT ![s] = @ \cup {m}]
  /\ rows' = [rows EXCEPT ![s] = IF stmt[s].kind = "claim" THEN {} ELSE @ \ {m}]
  /\ UNCHANGED <<tableVars, stmt, worker, todo>>

Take(s, m) ==
  /\ Visits(s, m)
  /\ ~LockedByOther(s, m)
  /\ m \in Where(stmt[s])
  /\ locks' = [locks EXCEPT ![s] = @ \cup {m}]
  /\ taken' = [taken EXCEPT ![s] = @ \cup {m}]
  /\ rows' = [rows EXCEPT ![s] = IF stmt[s].kind = "claim" THEN {} ELSE @ \ {m}]
  /\ UNCHANGED <<tableVars, stmt, worker, todo>>

(* The row has changed and does not match any more; it stays locked.       *)
Leave(s, m) ==
  /\ Visits(s, m)
  /\ ~LockedByOther(s, m)
  /\ m \notin Where(stmt[s])
  /\ locks' = [locks EXCEPT ![s] = @ \cup {m}]
  /\ rows' = [rows EXCEPT ![s] = @ \ {m}]
  /\ UNCHANGED <<tableVars, stmt, worker, todo, taken>>

(* SKIP LOCKED.                                                            *)
PassOver(s, m) ==
  /\ stmt[s].kind \in {"claim", "reap"}
  /\ Visits(s, m)
  /\ LockedByOther(s, m)
  /\ rows' = [rows EXCEPT ![s] = @ \ {m}]
  /\ UNCHANGED <<tableVars, stmt, worker, todo, locks, taken>>

-----------------------------------------------------------------------------
(* The SET clauses, and the end of the transaction.                        *)

Set(column, S, value) == [m \in MsgId |-> IF m \in S THEN value ELSE column[m]]

Write(call, S) ==
  CASE call.kind = "claim" ->
         /\ status' = Set(status, S, "processing")
         /\ locked_by' = Set(locked_by, S, call.by)
         /\ lease_age' = Set(lease_age, S, 0)
         /\ attempts' = [m \in MsgId |-> IF m \in S THEN attempts[m] + 1 ELSE attempts[m]]
         /\ UNCHANGED <<next_id, publishedColumns, due_in, finished>>
    [] call.kind = "ack" ->
         /\ status' = Set(status, S, "done")
         /\ finished' = Set(finished, S, TRUE)
         /\ UNCHANGED <<next_id, publishedColumns, attempts, due_in, leaseColumns>>
    [] call.kind = "nack" ->
         /\ GiveBack(S)
         /\ due_in' = [m \in MsgId |-> IF m \in S /\ ~Exhausted(m)
                                       THEN Backoff(attempts[m]) ELSE due_in[m]]
         /\ UNCHANGED <<next_id, publishedColumns, attempts>>
    [] call.kind = "reap" ->
         /\ GiveBack(S)
         /\ UNCHANGED <<next_id, publishedColumns, attempts, due_in>>
    [] call.kind = "renew" ->
         /\ lease_age' = Set(lease_age, S, 0)
         /\ UNCHANGED <<next_id, status, publishedColumns, attempts, due_in,
                        locked_by, finished>>
    [] call.kind = "requeue" ->
         /\ status' = Set(status, S, "pending")
         /\ attempts' = Set(attempts, S, 0)
         /\ due_in' = Set(due_in, S, 0)
         /\ finished' = Set(finished, S, FALSE)
         /\ UNCHANGED <<next_id, publishedColumns, leaseColumns>>
    [] call.kind = "purge" ->
         Delete(S) /\ UNCHANGED next_id

End(s) ==
  /\ stmt' = [stmt EXCEPT ![s] = Idle]
  /\ worker' = [worker EXCEPT ![s] = Nobody]
  /\ todo' = [todo EXCEPT ![s] = {}]
  /\ rows' = [rows EXCEPT ![s] = {}]
  /\ locks' = [locks EXCEPT ![s] = {}]
  /\ taken' = [taken EXCEPT ![s] = {}]

Commit(s) ==
  /\ stmt[s] # Idle
  /\ rows[s] = {} /\ todo[s] = {}
  /\ Write(stmt[s], taken[s])
  /\ End(s)

(* The connection is lost, its client gone, or it is a deadlock's victim.  *)
Rollback(s) ==
  /\ stmt[s] # Idle
  /\ End(s)
  /\ UNCHANGED tableVars

(* TRUNCATE waits for the transactions that use the table.                 *)
Truncate ==
  /\ \A s \in Session : stmt[s] = Idle
  /\ Reset
  /\ UNCHANGED sessionVars

StatementsNext ==
  \/ \E s \in Session :
       \/ \E call \in Calls : Begin(s, call)
       \/ \E w \in Worker : \E leases \in Leases(w) : BeginBeat(s, w, leases)
       \/ \E lease \in todo[s] : RenewNext(s, lease)
       \/ \E m \in rows[s] : Take(s, m) \/ Leave(s, m) \/ PassOver(s, m)
       \/ Commit(s) \/ Rollback(s)
  \/ (Producer \/ Tick) /\ UNCHANGED sessionVars
  \/ Truncate

StatementsSpec == StatementsInit /\ [][StatementsNext]_statementVars

-----------------------------------------------------------------------------
(* Properties.                                                             *)

(* However statements overlap, wait and pass over each other's rows, the   *)
(* table changes as if each were executed alone: no message is claimed     *)
(* twice, acked and reaped, or renewed for somebody who has lost it.       *)
AtomicStatements == TableSpec

(* Heartbeats hold the locks of several leases and wait for others, in an  *)
(* order nobody has fixed; two of them that renew what they wait for and   *)
(* what they hold still never wait for each other, whatever leases they    *)
(* believe they have.                                                      *)
HeartbeatsDoNotDeadlock ==
  \A s, t \in Session :
     s # t /\ stmt[s].kind = "renew" /\ stmt[t].kind = "renew" =>
       rows[s] \cap taken[t] = {} \/ rows[t] \cap taken[s] = {}
=============================================================================
