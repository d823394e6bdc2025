------------------------------ MODULE Messages ------------------------------
(***************************************************************************)
(* The `messages` table of the broker and the SQL statements that change   *)
(* it: app/broker/messages.py on the table of sql/schema.sql.              *)
(*                                                                         *)
(* One variable stands for one column, indexed by the row's id.  A row     *)
(* that does not exist has status "absent".  The pool's connections are in *)
(* autocommit mode, so a statement is one atomic action.                   *)
(*                                                                         *)
(* Columns that hold a time are kept relative to now():                    *)
(*   due_in    ticks until available_at (0 once it has passed);            *)
(*   lease_age ticks since locked_at, counted no further than is needed to *)
(*             see that the visibility timeout has passed; -1 is NULL, so  *)
(*             that a comparison with it selects no row, as in SQL.        *)
(* payload, last_error and created_at decide nothing and are left out.     *)
(***************************************************************************)
EXTENDS Integers

CONSTANTS
  MaxId,             \* bound: ids the identity column may hand out
  MaxBatch,          \* bound: largest `count` of one publish
  Queue,             \* names of queues
  Priority,          \* priorities producers use
  Limit,             \* values of max_attempts producers use
  Delay,             \* values of delay_s producers use, in ticks
  Consumer,          \* consumer ids, the possible values of locked_by
  Nobody,            \* locked_by IS NULL
  VisibilityTimeout  \* VISIBILITY_TIMEOUT_S, in ticks

ASSUME MessagesAssumption ==
  /\ MaxId \in Nat
  /\ MaxBatch \in Nat
  /\ Queue # {}
  /\ Priority \subseteq Int /\ Priority # {}
  /\ Limit \subseteq Nat \ {0} /\ Limit # {}   \* CHECK (max_attempts > 0)
  /\ Delay \subseteq Nat
  /\ Nobody \notin Consumer
  /\ VisibilityTimeout \in Nat

VARIABLES
  next_id,           \* the identity sequence
  status,
  queue,
  priority,
  attempts,
  max_attempts,
  due_in,            \* available_at
  locked_by,
  lease_age,         \* locked_at
  finished           \* finished_at IS NOT NULL

MsgId  == 1..MaxId
Status == {"pending", "processing", "done", "dead"}

publishedColumns == <<queue, priority, max_attempts>>
leaseColumns     == <<locked_by, lease_age>>
tableVars == <<next_id, status, queue, priority, attempts, max_attempts,
               due_in, locked_by, lease_age, finished>>

SomeQueue    == CHOOSE q \in Queue : TRUE
SomePriority == CHOOSE p \in Priority : TRUE
SomeLimit    == CHOOSE n \in Limit : TRUE

TableTypeOK ==
  /\ next_id \in 1..(MaxId + 1)
  /\ status \in [MsgId -> Status \cup {"absent"}]
  /\ queue \in [MsgId -> Queue]
  /\ priority \in [MsgId -> Priority]
  /\ attempts \in [MsgId -> Nat]
  /\ max_attempts \in [MsgId -> Limit]
  /\ due_in \in [MsgId -> Nat]
  /\ locked_by \in [MsgId -> Consumer \cup {Nobody}]
  /\ lease_age \in [MsgId -> -1..(VisibilityTimeout + 1)]
  /\ finished \in [MsgId -> BOOLEAN]

TableInit ==
  /\ next_id = 1
  /\ status = [m \in MsgId |-> "absent"]
  /\ queue = [m \in MsgId |-> SomeQueue]
  /\ priority = [m \in MsgId |-> SomePriority]
  /\ attempts = [m \in MsgId |-> 0]
  /\ max_attempts = [m \in MsgId |-> SomeLimit]
  /\ due_in = [m \in MsgId |-> 0]
  /\ locked_by = [m \in MsgId |-> Nobody]
  /\ lease_age = [m \in MsgId |-> -1]
  /\ finished = [m \in MsgId |-> FALSE]

-----------------------------------------------------------------------------
(* Producer: PUBLISH_SQL.  One statement inserts `count` rows.             *)

Publish(q, p, limit, delay, count) ==
  LET new == next_id..(next_id + count - 1)
  IN /\ next_id + count - 1 <= MaxId
     /\ next_id' = next_id + count
     /\ status' = [m \in MsgId |-> IF m \in new THEN "pending" ELSE status[m]]
     /\ queue' = [m \in MsgId |-> IF m \in new THEN q ELSE queue[m]]
     /\ priority' = [m \in MsgId |-> IF m \in new THEN p ELSE priority[m]]
     /\ attempts' = [m \in MsgId |-> IF m \in new THEN 0 ELSE attempts[m]]
     /\ max_attempts' =
          [m \in MsgId |-> IF m \in new THEN limit ELSE max_attempts[m]]
     /\ due_in' = [m \in MsgId |-> IF m \in new THEN delay ELSE due_in[m]]
     /\ locked_by' = [m \in MsgId |-> IF m \in new THEN Nobody ELSE locked_by[m]]
     /\ lease_age' = [m \in MsgId |-> IF m \in new THEN -1 ELSE lease_age[m]]
     /\ finished' = [m \in MsgId |-> IF m \in new THEN FALSE ELSE finished[m]]

-----------------------------------------------------------------------------
(* Consumer: CLAIM_SQL, ACK_SQL, NACK_SQL, RENEW_LEASE_SQL.                *)

(* mutant: a claim takes over an expired lease without waiting to be reaped. *)
ReadyOrExpired(q) ==
  {m \in MsgId : /\ queue[m] = q
                 /\ \/ status[m] = "pending" /\ due_in[m] = 0
                    \/ status[m] = "processing" /\ lease_age[m] > VisibilityTimeout}

(* The rows the claim query ranges over, and its ORDER BY.                 *)
Ready(q) ==
  {m \in MsgId : status[m] = "pending" /\ queue[m] = q /\ due_in[m] = 0}

Before(m, n) ==
  \/ priority[m] > priority[n]
  \/ priority[m] = priority[n] /\ m < n

(* mutants: locked_at stays NULL; the claim is not counted.                *)
ClaimWithoutClock(c, q, locked, m) ==
  /\ m \in Ready(q) \ locked
  /\ \A n \in Ready(q) \ (locked \cup {m}) : Before(m, n)
  /\ status' = [status EXCEPT ![m] = "processing"]
  /\ locked_by' = [locked_by EXCEPT ![m] = c]
  /\ attempts' = [attempts EXCEPT ![m] = @ + 1]
  /\ UNCHANGED <<next_id, publishedColumns, due_in, lease_age, finished>>

ClaimUncounted(c, q, locked, m) ==
  /\ m \in Ready(q) \ locked
  /\ \A n \in Ready(q) \ (locked \cup {m}) : Before(m, n)
  /\ status' = [status EXCEPT ![m] = "processing"]
  /\ locked_by' = [locked_by EXCEPT ![m] = c]
  /\ lease_age' = [lease_age EXCEPT ![m] = 0]
  /\ UNCHANGED <<next_id, publishedColumns, attempts, due_in, finished>>

(* CLAIM_SQL takes message m.  `locked` is the set of rows on which other  *)
(* statements in flight hold a row lock: SKIP LOCKED passes over them.     *)
Claim(c, q, locked, m) ==
  /\ m \in Ready(q) \ locked
  /\ \A n \in Ready(q) \ (locked \cup {m}) : Before(m, n)
  /\ status' = [status EXCEPT ![m] = "processing"]
  /\ locked_by' = [locked_by EXCEPT ![m] = c]
  /\ lease_age' = [lease_age EXCEPT ![m] = 0]
  /\ attempts' = [attempts EXCEPT ![m] = @ + 1]
  /\ UNCHANGED <<next_id, publishedColumns, due_in, finished>>

(* The WHERE clause shared by ack, nack and renewal: the row still carries *)
(* the caller's lease.  When it does not, the statement updates 0 rows.    *)
HoldsAsNamed(c, m) == locked_by[m] = c             \* mutant: status unchecked
HoldsAnyLease(c, m) == status[m] = "processing"    \* mutant: holder unchecked
Holds(c, m) == status[m] = "processing" /\ locked_by[m] = c

(* The row has used up its attempts: the CASE of NACK_SQL and REAP_SQL.    *)
ExhaustedLate(m) == attempts[m] > max_attempts[m]  \* mutant: off by one
Exhausted(m) == attempts[m] >= max_attempts[m]

(* least(power(2, attempts), 60) seconds, a tick being one second.         *)
Backoff(n) == IF n < 6 THEN 2^n ELSE 60

Ack(c, m) ==
  /\ status' = [status EXCEPT ![m] = IF Holds(c, m) THEN "done" ELSE @]
  /\ finished' = [finished EXCEPT ![m] = IF Holds(c, m) THEN TRUE ELSE @]
  /\ UNCHANGED <<next_id, publishedColumns, attempts, due_in, leaseColumns>>

(* mutants: the row keeps its last holder; a status the CHECK constraint of *)
(* schema.sql does not know.                                               *)
GiveBackWithHolder(S) ==
  /\ status' = [m \in MsgId |->
       IF m \in S THEN IF Exhausted(m) THEN "dead" ELSE "pending"
                  ELSE status[m]]
  /\ finished' = [m \in MsgId |-> IF m \in S THEN Exhausted(m) ELSE finished[m]]
  /\ lease_age' = [m \in MsgId |-> IF m \in S THEN -1 ELSE lease_age[m]]
  /\ UNCHANGED locked_by

GiveBackFailed(S) ==
  /\ status' = [m \in MsgId |->
       IF m \in S THEN IF Exhausted(m) THEN "failed" ELSE "pending"
                  ELSE status[m]]
  /\ finished' = [m \in MsgId |-> IF m \in S THEN Exhausted(m) ELSE finished[m]]
  /\ locked_by' = [m \in MsgId |-> IF m \in S THEN Nobody ELSE locked_by[m]]
  /\ lease_age' = [m \in MsgId |-> IF m \in S THEN -1 ELSE lease_age[m]]

(* What becomes of the rows in S, whose holders failed or fell silent.     *)
GiveBack(S) ==
  /\ status' = [m \in MsgId |->
       IF m \in S THEN IF Exhausted(m) THEN "dead" ELSE "pending"
                  ELSE status[m]]
  /\ finished' = [m \in MsgId |-> IF m \in S THEN Exhausted(m) ELSE finished[m]]
  /\ locked_by' = [m \in MsgId |-> IF m \in S THEN Nobody ELSE locked_by[m]]
  /\ lease_age' = [m \in MsgId |-> IF m \in S THEN -1 ELSE lease_age[m]]

Nack(c, m) ==
  /\ GiveBack(IF Holds(c, m) THEN {m} ELSE {})
  /\ due_in' = [due_in EXCEPT ![m] =
       IF Holds(c, m) /\ ~Exhausted(m) THEN Backoff(attempts[m]) ELSE @]
  /\ UNCHANGED <<next_id, publishedColumns, attempts>>

(* RENEW_LEASE_SQL for every pair of `leases`, in the heartbeat's          *)
(* transaction (registry.heartbeat).                                       *)
Renew(leases) ==
  /\ lease_age' = [m \in MsgId |->
       IF \E c \in Consumer : <<m, c>> \in leases /\ Holds(c, m)
       THEN 0 ELSE lease_age[m]]
  /\ UNCHANGED <<next_id, status, publishedColumns, attempts, due_in,
                 locked_by, finished>>

-----------------------------------------------------------------------------
(* Crash recovery: REAP_SQL.  SKIP LOCKED leaves the rows of `locked`.     *)

Expired == {m \in MsgId : status[m] = "processing"
                          /\ lease_age[m] > VisibilityTimeout}

Reap(locked) ==
  /\ GiveBack(Expired \ locked)
  /\ UNCHANGED <<next_id, publishedColumns, attempts, due_in>>

-----------------------------------------------------------------------------
(* Dead letters: REQUEUE_SQL and PURGE_DEAD_SQL for the dead rows of `ids` *)
(* (one row, or those that were dead when the statement began), and        *)
(* reset's TRUNCATE ... RESTART IDENTITY, after which ids are handed out   *)
(* from 1 again.                                                           *)

Dead == {m \in MsgId : status[m] = "dead"}

Requeue(ids) ==
  LET back == Dead \cap ids
  IN /\ status' = [m \in MsgId |-> IF m \in back THEN "pending" ELSE status[m]]
     /\ attempts' = [m \in MsgId |-> IF m \in back THEN 0 ELSE attempts[m]]
     /\ due_in' = [m \in MsgId |-> IF m \in back THEN 0 ELSE due_in[m]]
     /\ finished' = [m \in MsgId |-> IF m \in back THEN FALSE ELSE finished[m]]
     /\ UNCHANGED <<next_id, publishedColumns, leaseColumns>>

Delete(S) ==
  /\ status' = [m \in MsgId |-> IF m \in S THEN "absent" ELSE status[m]]
  /\ queue' = [m \in MsgId |-> IF m \in S THEN SomeQueue ELSE queue[m]]
  /\ priority' = [m \in MsgId |-> IF m \in S THEN SomePriority ELSE priority[m]]
  /\ attempts' = [m \in MsgId |-> IF m \in S THEN 0 ELSE attempts[m]]
  /\ max_attempts' =
       [m \in MsgId |-> IF m \in S THEN SomeLimit ELSE max_attempts[m]]
  /\ due_in' = [m \in MsgId |-> IF m \in S THEN 0 ELSE due_in[m]]
  /\ locked_by' = [m \in MsgId |-> IF m \in S THEN Nobody ELSE locked_by[m]]
  /\ lease_age' = [m \in MsgId |-> IF m \in S THEN -1 ELSE lease_age[m]]
  /\ finished' = [m \in MsgId |-> IF m \in S THEN FALSE ELSE finished[m]]

PurgeDead(ids) == Delete(Dead \cap ids) /\ UNCHANGED next_id

Reset == Delete(MsgId) /\ next_id' = 1

-----------------------------------------------------------------------------
(* Time passes.  due_in is read only while a row is pending and lease_age  *)
(* only while it is processing.                                            *)

Tick ==
  /\ due_in' = [m \in MsgId |->
       IF status[m] = "pending" /\ due_in[m] > 0
       THEN due_in[m] - 1 ELSE due_in[m]]
  /\ lease_age' = [m \in MsgId |->
       IF status[m] = "processing" /\ lease_age[m] \in 0..VisibilityTimeout
       THEN lease_age[m] + 1 ELSE lease_age[m]]
  /\ UNCHANGED <<next_id, status, publishedColumns, attempts, locked_by,
                 finished>>

-----------------------------------------------------------------------------
(* The table under arbitrary clients: any statement, by any consumer, on   *)
(* any message, at any time.                                               *)

Producer ==
  \E q \in Queue, p \in Priority, limit \in Limit, delay \in Delay,
     count \in 1..MaxBatch : Publish(q, p, limit, delay, count)

Claimer ==
  \E c \in Consumer, q \in Queue, locked \in SUBSET MsgId, m \in MsgId :
     Claim(c, q, locked, m)

Holder ==
  \/ \E c \in Consumer, m \in MsgId : Ack(c, m) \/ Nack(c, m)
  \/ \E leases \in SUBSET (MsgId \X Consumer) : Renew(leases)

Reaper == \E locked \in SUBSET MsgId : Reap(locked)

Operator ==
  \/ \E ids \in SUBSET MsgId : Requeue(ids) \/ PurgeDead(ids)
  \/ Reset

TableNext == Producer \/ Claimer \/ Holder \/ Reaper \/ Operator \/ Tick

TableSpec == TableInit /\ [][TableNext]_tableVars

-----------------------------------------------------------------------------
(* Properties of the table, whatever its clients do.                       *)

(* A message is handed out at most max_attempts times between two          *)
(* publishes or requeues: only a message with an attempt left waits, one   *)
(* in processing has used between one and all of them, and exactly the     *)
(* messages that used all of them can be dead (claim counts, nack and reap *)
(* compare, requeue restarts the count).                                   *)
RetryBudget ==
  \A m \in MsgId :
     /\ status[m] = "pending" => attempts[m] < max_attempts[m]
     /\ status[m] \in {"processing", "done"} => attempts[m] \in 1..max_attempts[m]
     /\ status[m] = "dead" => attempts[m] = max_attempts[m]

(* The lease columns are set exactly while somebody holds the message, or  *)
(* held it when it was acked, so that no processing row is invisible to    *)
(* the reaper through a NULL locked_at, and no waiting or dead row can be  *)
(* acked; finished_at is set exactly on settled rows.                      *)
LeaseColumns ==
  \A m \in MsgId :
     /\ status[m] \in {"processing", "done"} <=> locked_by[m] # Nobody
     /\ status[m] \in {"processing", "done"} <=> lease_age[m] # -1
     /\ status[m] \in {"done", "dead"} <=> finished[m]

(* A message that is done stays as it is, and keeps the name of the        *)
(* consumer that acked it, until the whole table is reset: no late ack,    *)
(* nack, renewal, reap or requeue touches it.                              *)
ResultStands ==
  [][\A m \in MsgId : status[m] = "done" =>
        \/ status'[m] = "done" /\ locked_by'[m] = locked_by[m]
        \/ status' = [n \in MsgId |-> "absent"]]_tableVars
=============================================================================
