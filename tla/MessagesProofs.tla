--------------------------- MODULE MessagesProofs ---------------------------
(***************************************************************************)
(* Proofs about Messages and Statements, for every value of their          *)
(* constants: any number of messages, consumers, workers and sessions.     *)
(***************************************************************************)
EXTENDS Statements, TLAPS


-----------------------------------------------------------------------------
(* Type correctness.                                                       *)

(* A retry is delayed by a natural number of ticks.                        *)
LEMMA BackoffIsNat == ASSUME NEW n \in Nat PROVE Backoff(n) \in Nat
<1>1. /\ 2^0 = 1 /\ 2^1 = 2 /\ 2^2 = 4
      /\ 2^3 = 8 /\ 2^4 = 16 /\ 2^5 = 32
  BY SMT
<1>2. CASE n < 6
  <2>1. n \in 0..5
    BY <1>2
  <2>2. CASE n = 0  BY <1>1, <2>2 DEF Backoff
  <2>3. CASE n = 1  BY <1>1, <2>3 DEF Backoff
  <2>4. CASE n = 2  BY <1>1, <2>4 DEF Backoff
  <2>5. CASE n = 3  BY <1>1, <2>5 DEF Backoff
  <2>6. CASE n = 4  BY <1>1, <2>6 DEF Backoff
  <2>7. CASE n = 5  BY <1>1, <2>7 DEF Backoff
  <2>8. QED
    BY <2>1, <2>2, <2>3, <2>4, <2>5, <2>6, <2>7
<1>3. CASE ~(n < 6)
  BY <1>3 DEF Backoff
<1>4. QED
  BY <1>2, <1>3

(* The values that fill a column of an absent row are of its type.         *)
LEMMA Defaults ==
  /\ SomeQueue \in Queue
  /\ SomePriority \in Priority
  /\ SomeLimit \in Limit
BY MessagesAssumption DEF SomeQueue, SomePriority, SomeLimit

LEMMA InitTypeOK == TableInit => TableTypeOK
BY Defaults, MessagesAssumption DEF TableInit, TableTypeOK, MsgId, Status

LEMMA PublishTypeOK ==
  ASSUME TableTypeOK,
         NEW q \in Queue, NEW p \in Priority, NEW limit \in Limit,
         NEW delay \in Delay, NEW count \in 1..MaxBatch,
         Publish(q, p, limit, delay, count)
  PROVE  TableTypeOK'
<1>1. next_id' \in 1..(MaxId + 1)
  BY MessagesAssumption DEF TableTypeOK, Publish
<1>2. /\ status' \in [MsgId -> Status \cup {"absent"}]
      /\ queue' \in [MsgId -> Queue]
      /\ priority' \in [MsgId -> Priority]
  BY DEF TableTypeOK, Publish, Status
<1>3. /\ attempts' \in [MsgId -> Nat]
      /\ max_attempts' \in [MsgId -> Limit]
  BY DEF TableTypeOK, Publish
<1>4. due_in' \in [MsgId -> Nat]
  BY MessagesAssumption DEF TableTypeOK, Publish
<1>5. /\ locked_by' \in [MsgId -> Consumer \cup {Nobody}]
      /\ finished' \in [MsgId -> BOOLEAN]
  BY DEF TableTypeOK, Publish
<1>6. lease_age' \in [MsgId -> -1..(VisibilityTimeout + 1)]
  BY MessagesAssumption DEF TableTypeOK, Publish
<1>7. QED
  BY <1>1, <1>2, <1>3, <1>4, <1>5, <1>6 DEF TableTypeOK

LEMMA ClaimTypeOK ==
  ASSUME TableTypeOK,
         NEW c \in Consumer, NEW q, NEW locked, NEW m \in MsgId,
         Claim(c, q, locked, m)
  PROVE  TableTypeOK'
BY MessagesAssumption DEF TableTypeOK, Claim, Status, publishedColumns

LEMMA AckTypeOK ==
  ASSUME TableTypeOK, NEW c, NEW m \in MsgId, Ack(c, m)
  PROVE  TableTypeOK'
BY DEF TableTypeOK, Ack, Status, publishedColumns, leaseColumns

(* The columns that giving rows back changes.                              *)
LEMMA GiveBackTypeOK ==
  ASSUME TableTypeOK, NEW S, GiveBack(S)
  PROVE  /\ status' \in [MsgId -> Status \cup {"absent"}]
         /\ locked_by' \in [MsgId -> Consumer \cup {Nobody}]
         /\ lease_age' \in [MsgId -> -1..(VisibilityTimeout + 1)]
         /\ finished' \in [MsgId -> BOOLEAN]
<1>1. status' \in [MsgId -> Status \cup {"absent"}]
  BY DEF TableTypeOK, GiveBack, Status
<1>2. locked_by' \in [MsgId -> Consumer \cup {Nobody}]
  BY DEF TableTypeOK, GiveBack
<1>3. lease_age' \in [MsgId -> -1..(VisibilityTimeout + 1)]
  BY MessagesAssumption DEF TableTypeOK, GiveBack
<1>4. finished' \in [MsgId -> BOOLEAN]
  <2>1. \A m \in MsgId : Exhausted(m) \in BOOLEAN
    BY DEF Exhausted
  <2>2. QED
    BY <2>1 DEF TableTypeOK, GiveBack
<1>5. QED
  BY <1>1, <1>2, <1>3, <1>4

LEMMA NackTypeOK ==
  ASSUME TableTypeOK, NEW c, NEW m \in MsgId, Nack(c, m)
  PROVE  TableTypeOK'
<1>1. attempts[m] \in Nat
  BY DEF TableTypeOK
<1>2. due_in' \in [MsgId -> Nat]
  BY <1>1, BackoffIsNat DEF TableTypeOK, Nack
<1>3. QED
  BY <1>2, GiveBackTypeOK DEF TableTypeOK, Nack, publishedColumns

LEMMA RenewTypeOK ==
  ASSUME TableTypeOK, NEW leases, Renew(leases)
  PROVE  TableTypeOK'
<1>1. lease_age' \in [MsgId -> -1..(VisibilityTimeout + 1)]
  BY MessagesAssumption DEF TableTypeOK, Renew
<1>2. QED
  BY <1>1 DEF TableTypeOK, Renew, publishedColumns

LEMMA ReapTypeOK ==
  ASSUME TableTypeOK, NEW locked, Reap(locked)
  PROVE  TableTypeOK'
BY GiveBackTypeOK DEF TableTypeOK, Reap, publishedColumns

LEMMA RequeueTypeOK ==
  ASSUME TableTypeOK, NEW ids, Requeue(ids)
  PROVE  TableTypeOK'
BY DEF TableTypeOK, Requeue, Status, publishedColumns, leaseColumns

LEMMA DeleteTypeOK ==
  ASSUME TableTypeOK, NEW S, Delete(S), next_id' \in 1..(MaxId + 1)
  PROVE  TableTypeOK'
<1>1. /\ status' \in [MsgId -> Status \cup {"absent"}]
      /\ queue' \in [MsgId -> Queue]
      /\ priority' \in [MsgId -> Priority]
      /\ max_attempts' \in [MsgId -> Limit]
  BY Defaults DEF TableTypeOK, Delete
<1>2. /\ attempts' \in [MsgId -> Nat]
      /\ due_in' \in [MsgId -> Nat]
  BY DEF TableTypeOK, Delete
<1>3. /\ locked_by' \in [MsgId -> Consumer \cup {Nobody}]
      /\ finished' \in [MsgId -> BOOLEAN]
  BY DEF TableTypeOK, Delete
<1>4. lease_age' \in [MsgId -> -1..(VisibilityTimeout + 1)]
  BY MessagesAssumption DEF TableTypeOK, Delete
<1>5. QED
  BY <1>1, <1>2, <1>3, <1>4 DEF TableTypeOK

LEMMA TickTypeOK ==
  ASSUME TableTypeOK, Tick
  PROVE  TableTypeOK'
<1>1. due_in' \in [MsgId -> Nat]
  BY DEF TableTypeOK, Tick
<1>2. lease_age' \in [MsgId -> -1..(VisibilityTimeout + 1)]
  BY MessagesAssumption DEF TableTypeOK, Tick
<1>3. QED
  BY <1>1, <1>2 DEF TableTypeOK, Tick, publishedColumns

(* A step of the table, whoever takes it, preserves the types.             *)
LEMMA StepTypeOK ==
  ASSUME TableTypeOK, [TableNext]_tableVars
  PROVE  TableTypeOK'
<1>1. CASE Producer
  BY <1>1, PublishTypeOK DEF Producer
<1>2. CASE Claimer
  BY <1>2, ClaimTypeOK DEF Claimer
<1>3. CASE Holder
  BY <1>3, AckTypeOK, NackTypeOK, RenewTypeOK DEF Holder
<1>4. CASE Reaper
  BY <1>4, ReapTypeOK DEF Reaper
<1>5. CASE Operator
  <2>1. CASE \E ids \in SUBSET MsgId : Requeue(ids)
    BY <2>1, RequeueTypeOK
  <2>2. CASE \E ids \in SUBSET MsgId : PurgeDead(ids)
    <3>1. next_id' \in 1..(MaxId + 1)
      BY <2>2 DEF PurgeDead, TableTypeOK
    <3>2. QED
      BY <2>2, <3>1, DeleteTypeOK DEF PurgeDead
  <2>3. CASE Reset
    <3>1. next_id' \in 1..(MaxId + 1)
      BY <2>3, MessagesAssumption DEF Reset
    <3>2. QED
      BY <2>3, <3>1, DeleteTypeOK DEF Reset
  <2>4. QED
    BY <1>5, <2>1, <2>2, <2>3 DEF Operator
<1>6. CASE Tick
  BY <1>6, TickTypeOK
<1>7. CASE UNCHANGED tableVars
  BY <1>7 DEF TableTypeOK, tableVars
<1>8. QED
  BY <1>1, <1>2, <1>3, <1>4, <1>5, <1>6, <1>7 DEF TableNext

(* Every reachable table has the types of the schema, for any numbers of   *)
(* messages and consumers and any visibility timeout.                      *)
THEOREM TableTypeCorrect == TableSpec => []TableTypeOK
<1>1. TableInit => TableTypeOK
  BY InitTypeOK
<1>2. TableTypeOK /\ [TableNext]_tableVars => TableTypeOK'
  BY StepTypeOK
<1>3. QED
  BY <1>1, <1>2, PTL DEF TableSpec

-----------------------------------------------------------------------------
(* The retry budget and the lease columns.                                 *)

(* Ids that were not handed out have no row, so that publishing overwrites *)
(* none.                                                                   *)
FreshIds == \A m \in MsgId : m >= next_id => status[m] = "absent"

(* The inductive invariant.  The two properties do not rest on each other, *)
(* only on the types; ResultStands rests on FreshIds.                      *)
TableInv == TableTypeOK /\ RetryBudget /\ LeaseColumns /\ FreshIds

LEMMA InitTableInv == TableInit => TableInv
BY InitTypeOK, MessagesAssumption
DEF TableInv, TableInit, RetryBudget, LeaseColumns, FreshIds

LEMMA PublishKeepsInv ==
  ASSUME TableInv,
         NEW q \in Queue, NEW p \in Priority, NEW limit \in Limit,
         NEW delay \in Delay, NEW count \in 1..MaxBatch,
         Publish(q, p, limit, delay, count)
  PROVE  (RetryBudget /\ LeaseColumns /\ FreshIds)'
<1>1. limit \in Nat \ {0}
  BY MessagesAssumption
<1>2. RetryBudget'
  BY <1>1 DEF TableInv, TableTypeOK, RetryBudget, Publish
<1>3. LeaseColumns'
  BY MessagesAssumption DEF TableInv, TableTypeOK, LeaseColumns, Publish
<1>4. FreshIds'
  BY MessagesAssumption DEF TableInv, TableTypeOK, FreshIds, Publish, MsgId
<1>5. QED
  BY <1>2, <1>3, <1>4

LEMMA ClaimKeepsInv ==
  ASSUME TableInv,
         NEW c \in Consumer, NEW q, NEW locked, NEW m \in MsgId,
         Claim(c, q, locked, m)
  PROVE  (RetryBudget /\ LeaseColumns /\ FreshIds)'
<1>1. status[m] = "pending"
  BY DEF Claim, Ready
<1>2. \A n \in MsgId : attempts[n] \in Nat /\ max_attempts[n] \in Nat
  BY MessagesAssumption DEF TableInv, TableTypeOK
<1>3. RetryBudget'
  <2>1. /\ max_attempts' = max_attempts
        /\ status' = [status EXCEPT ![m] = "processing"]
        /\ attempts' = [attempts EXCEPT ![m] = @ + 1]
    BY DEF Claim, publishedColumns
  <2>2. attempts[m] < max_attempts[m]
    BY <1>1 DEF TableInv, RetryBudget
  <2>3. /\ attempts'[m] = attempts[m] + 1 /\ status'[m] = "processing"
        /\ \A n \in MsgId \ {m} : attempts'[n] = attempts[n] /\ status'[n] = status[n]
    BY <2>1 DEF TableInv, TableTypeOK
  <2>4. QED
    BY <1>2, <2>1, <2>2, <2>3 DEF TableInv, RetryBudget
<1>4. LeaseColumns'
  BY <1>1, MessagesAssumption DEF TableInv, TableTypeOK, LeaseColumns, Claim
<1>5. FreshIds'
  BY <1>1 DEF TableInv, TableTypeOK, FreshIds, Claim
<1>6. QED
  BY <1>3, <1>4, <1>5

LEMMA AckKeepsInv ==
  ASSUME TableInv, NEW c, NEW m \in MsgId, Ack(c, m)
  PROVE  (RetryBudget /\ LeaseColumns /\ FreshIds)'
<1>1. RetryBudget'
  BY DEF TableInv, TableTypeOK, RetryBudget, Ack, Holds, publishedColumns
<1>2. LeaseColumns'
  BY DEF TableInv, TableTypeOK, LeaseColumns, Ack, Holds, leaseColumns
<1>3. FreshIds'
  BY DEF TableInv, TableTypeOK, FreshIds, Ack, Holds
<1>4. QED
  BY <1>1, <1>2, <1>3

(* Only rows in processing are ever given back.                            *)
LEMMA GiveBackKeepsInv ==
  ASSUME TableInv, NEW S,
         \A m \in MsgId : m \in S => status[m] = "processing",
         GiveBack(S),
         UNCHANGED <<next_id, publishedColumns, attempts>>
  PROVE  (RetryBudget /\ LeaseColumns /\ FreshIds)'
<1>1. \A m \in MsgId : attempts[m] \in Nat /\ max_attempts[m] \in Nat
  BY MessagesAssumption DEF TableInv, TableTypeOK
<1>2. RetryBudget'
  BY <1>1 DEF TableInv, RetryBudget, GiveBack, Exhausted, publishedColumns
<1>3. LeaseColumns'
  BY DEF TableInv, TableTypeOK, LeaseColumns, GiveBack
<1>4. FreshIds'
  BY DEF TableInv, TableTypeOK, FreshIds, GiveBack
<1>5. QED
  BY <1>2, <1>3, <1>4

LEMMA NackKeepsInv ==
  ASSUME TableInv, NEW c, NEW m \in MsgId, Nack(c, m)
  PROVE  (RetryBudget /\ LeaseColumns /\ FreshIds)'
BY GiveBackKeepsInv DEF Nack, Holds

LEMMA ReapKeepsInv ==
  ASSUME TableInv, NEW locked, Reap(locked)
  PROVE  (RetryBudget /\ LeaseColumns /\ FreshIds)'
BY GiveBackKeepsInv DEF Reap, Expired

LEMMA RenewKeepsInv ==
  ASSUME TableInv, NEW leases, Renew(leases)
  PROVE  (RetryBudget /\ LeaseColumns /\ FreshIds)'
<1>1. RetryBudget'
  BY DEF TableInv, RetryBudget, Renew, publishedColumns
<1>2. LeaseColumns'
  <2>1. UNCHANGED <<status, locked_by, finished>>
    BY DEF Renew
  <2>2. \A m \in MsgId : \/ lease_age'[m] = lease_age[m]
                         \/ lease_age'[m] = 0 /\ status[m] = "processing"
    BY DEF Renew, Holds
  <2>3. QED
    BY <2>1, <2>2 DEF TableInv, LeaseColumns
<1>3. FreshIds'
  BY DEF TableInv, FreshIds, Renew
<1>4. QED
  BY <1>1, <1>2, <1>3

LEMMA RequeueKeepsInv ==
  ASSUME TableInv, NEW ids, Requeue(ids)
  PROVE  (RetryBudget /\ LeaseColumns /\ FreshIds)'
<1>1. Limit \subseteq Nat \ {0}
  BY MessagesAssumption
<1>2. RetryBudget'
  BY <1>1 DEF TableInv, TableTypeOK, RetryBudget, Requeue, Dead, publishedColumns
<1>3. LeaseColumns'
  BY DEF TableInv, TableTypeOK, LeaseColumns, Requeue, Dead, leaseColumns
<1>4. FreshIds'
  BY DEF TableInv, TableTypeOK, FreshIds, Requeue, Dead
<1>5. QED
  BY <1>2, <1>3, <1>4

LEMMA DeleteKeepsInv ==
  ASSUME TableInv, NEW S, Delete(S), UNCHANGED next_id \/ S = MsgId
  PROVE  (RetryBudget /\ LeaseColumns /\ FreshIds)'
<1>1. RetryBudget'
  BY DEF TableInv, TableTypeOK, RetryBudget, Delete
<1>2. LeaseColumns'
  BY DEF TableInv, TableTypeOK, LeaseColumns, Delete
<1>3. FreshIds'
  BY DEF TableInv, TableTypeOK, FreshIds, Delete
<1>4. QED
  BY <1>1, <1>2, <1>3

LEMMA TickKeepsInv ==
  ASSUME TableInv, Tick
  PROVE  (RetryBudget /\ LeaseColumns /\ FreshIds)'
<1>1. RetryBudget'
  BY DEF TableInv, RetryBudget, Tick, publishedColumns
<1>2. LeaseColumns'
  BY MessagesAssumption DEF TableInv, TableTypeOK, LeaseColumns, Tick
<1>3. FreshIds'
  BY DEF TableInv, FreshIds, Tick
<1>4. QED
  BY <1>1, <1>2, <1>3

LEMMA StepTableInv ==
  ASSUME TableInv, [TableNext]_tableVars
  PROVE  TableInv'
<1>1. TableTypeOK'
  BY StepTypeOK DEF TableInv
<1>2. (RetryBudget /\ LeaseColumns /\ FreshIds)'
  <2>1. CASE Producer
    BY <2>1, PublishKeepsInv DEF Producer
  <2>2. CASE Claimer
    BY <2>2, ClaimKeepsInv DEF Claimer
  <2>3. CASE Holder
    BY <2>3, AckKeepsInv, NackKeepsInv, RenewKeepsInv DEF Holder
  <2>4. CASE Reaper
    BY <2>4, ReapKeepsInv DEF Reaper
  <2>5. CASE Operator
    BY <2>5, RequeueKeepsInv, DeleteKeepsInv DEF Operator, PurgeDead, Reset
  <2>6. CASE Tick
    BY <2>6, TickKeepsInv
  <2>7. CASE UNCHANGED tableVars
    BY <2>7 DEF TableInv, RetryBudget, LeaseColumns, FreshIds, tableVars
  <2>8. QED
    BY <2>1, <2>2, <2>3, <2>4, <2>5, <2>6, <2>7 DEF TableNext
<1>3. QED
  BY <1>1, <1>2 DEF TableInv

LEMMA TableInvariant == TableSpec => []TableInv
<1>1. TableInv /\ [TableNext]_tableVars => TableInv'
  BY StepTableInv
<1>2. QED
  BY InitTableInv, <1>1, PTL DEF TableSpec

(* Whatever statements clients send, in whatever order: no message is      *)
(* handed out more than max_attempts times without a requeue.              *)
THEOREM RetryBudgetHolds == TableSpec => []RetryBudget
BY TableInvariant, PTL DEF TableInv

(* Whatever statements clients send: every processing row has a holder and *)
(* a lease that can expire, and no other unfinished row has either.        *)
THEOREM LeaseColumnsHold == TableSpec => []LeaseColumns
BY TableInvariant, PTL DEF TableInv

-----------------------------------------------------------------------------
(* Results stand.                                                          *)

(* Giving back rows in processing leaves a done row alone.                 *)
LEMMA GiveBackKeepsDone ==
  ASSUME TableTypeOK, NEW S, GiveBack(S),
         \A n \in MsgId : n \in S => status[n] = "processing",
         NEW m \in MsgId, status[m] = "done"
  PROVE  status'[m] = "done" /\ locked_by'[m] = locked_by[m]
BY DEF GiveBack

LEMMA StepKeepsDone ==
  ASSUME TableInv, [TableNext]_tableVars,
         NEW m \in MsgId, status[m] = "done"
  PROVE  \/ status'[m] = "done" /\ locked_by'[m] = locked_by[m]
         \/ status' = [n \in MsgId |-> "absent"]
<1>1. CASE Producer
  (* A row that exists has an id below next_id.                            *)
  BY <1>1, MessagesAssumption
  DEF Producer, Publish, TableInv, TableTypeOK, FreshIds, MsgId
<1>2. CASE Claimer
  BY <1>2 DEF Claimer, Claim, Ready, TableInv, TableTypeOK
<1>3. CASE Holder
  <2>1. CASE \E c \in Consumer, n \in MsgId : Ack(c, n)
    BY <2>1 DEF Ack, Holds, leaseColumns, TableInv, TableTypeOK
  <2>2. CASE \E c \in Consumer, n \in MsgId : Nack(c, n)
    BY <2>2, GiveBackKeepsDone DEF Nack, Holds, TableInv
  <2>3. CASE \E leases \in SUBSET (MsgId \X Consumer) : Renew(leases)
    BY <2>3 DEF Renew
  <2>4. QED
    BY <1>3, <2>1, <2>2, <2>3 DEF Holder
<1>4. CASE Reaper
  BY <1>4, GiveBackKeepsDone DEF Reaper, Reap, Expired, TableInv
<1>5. CASE Operator
  <2>1. CASE \E ids \in SUBSET MsgId : Requeue(ids)
    BY <2>1 DEF Requeue, Dead, leaseColumns
  <2>2. CASE \E ids \in SUBSET MsgId : PurgeDead(ids)
    BY <2>2 DEF PurgeDead, Delete, Dead
  <2>3. CASE Reset
    BY <2>3 DEF Reset, Delete
  <2>4. QED
    BY <1>5, <2>1, <2>2, <2>3 DEF Operator
<1>6. CASE Tick
  BY <1>6 DEF Tick
<1>7. CASE UNCHANGED tableVars
  BY <1>7 DEF tableVars
<1>8. QED
  BY <1>1, <1>2, <1>3, <1>4, <1>5, <1>6, <1>7 DEF TableNext

(* A done message stays done, with the name of the consumer that acked it, *)
(* until the table is reset, whatever late statements arrive.              *)
THEOREM ResultStandsHolds == TableSpec => ResultStands
<1>1. TableInv /\ [TableNext]_tableVars =>
        [\A m \in MsgId : status[m] = "done" =>
           \/ status'[m] = "done" /\ locked_by'[m] = locked_by[m]
           \/ status' = [n \in MsgId |-> "absent"]]_tableVars
  BY StepKeepsDone
<1>2. QED
  BY <1>1, TableInvariant, PTL DEF TableSpec, ResultStands

-----------------------------------------------------------------------------
(* Statements that overlap.                                                *)

(* The inductive invariant.                                                *)

RenewCalls == [kind : {"renew"}, by : Consumer \cup {Nobody},
               queue : {SomeQueue}, ids : Named \cup {{}}]

SessionTypeOK ==
  /\ stmt \in [Session -> Calls \cup RenewCalls \cup {Idle}]
  /\ worker \in [Session -> Worker \cup {Nobody}]
  /\ todo \in [Session -> SUBSET (MsgId \X Consumer)]
  /\ rows \in [Session -> SUBSET MsgId]
  /\ locks \in [Session -> SUBSET MsgId]
  /\ taken \in [Session -> SUBSET MsgId]

(* A row is locked by one transaction at most, ...                         *)
LocksExclude ==
  \A s, t \in Session : s # t => locks[s] \cap locks[t] = {}

TakenAreLocked == \A s \in Session : taken[s] \subseteq locks[s]

(* ... so that what a statement found when it locked the row holds until   *)
(* it writes.  A heartbeat has found leases by several statements.         *)
Found(s) ==
  IF stmt[s].kind = "renew"
  THEN {m \in MsgId : /\ status[m] = "processing"
                      /\ locked_by[m] \in Consumer
                      /\ WorkerOf[locked_by[m]] = worker[s]}
  ELSE Where(stmt[s])

TakenAreFound == \A s \in Session : taken[s] \subseteq Found(s)

(* LIMIT 1, and statements that name one row.                              *)
OneRow ==
  \A s \in Session :
     /\ stmt[s].kind = "claim" =>
          \/ taken[s] = {}
          \/ rows[s] = {} /\ \E m \in MsgId : taken[s] = {m}
     /\ stmt[s].kind \in {"ack", "nack", "renew"} => rows[s] \subseteq stmt[s].ids
     /\ stmt[s].kind \in {"ack", "nack"} => taken[s] \subseteq stmt[s].ids

AtRest ==
  \A s \in Session :
     stmt[s].kind = "idle" => locks[s] = {} /\ taken[s] = {} /\ rows[s] = {}

(* Only a heartbeat has a worker, and no two the same: each has locked the *)
(* row of its worker.  It renews leases of its own consumers only.         *)
BeatsExclude ==
  /\ \A s \in Session : stmt[s].kind = "renew" <=> worker[s] # Nobody
  /\ \A s, t \in Session : s # t /\ worker[s] # Nobody => worker[s] # worker[t]

OwnLeases ==
  \A s \in Session :
     /\ stmt[s].kind # "renew" => todo[s] = {}
     /\ \A lease \in todo[s] : WorkerOf[lease[2]] = worker[s]
     /\ stmt[s].kind = "renew" /\ stmt[s].ids # {} =>
          stmt[s].by \in Consumer /\ WorkerOf[stmt[s].by] = worker[s]

StatementsInv ==
  /\ TableInv
  /\ SessionTypeOK
  /\ LocksExclude
  /\ TakenAreLocked
  /\ TakenAreFound
  /\ OneRow
  /\ AtRest
  /\ BeatsExclude
  /\ OwnLeases
  /\ HeartbeatsDoNotDeadlock

-----------------------------------------------------------------------------
(* What a session may be executing.                                        *)

LEMMA CallFacts ==
  ASSUME NEW call \in Calls \cup RenewCalls \cup {Idle}
  PROVE  /\ call.kind \in {"claim", "ack", "nack", "requeue", "purge", "reap",
                           "renew", "idle"}
         /\ call.ids \in SUBSET MsgId
         /\ call = Idle <=> call.kind = "idle"
         /\ call.kind = "claim" => call.by \in Consumer /\ call.queue \in Queue
         /\ call.kind \in {"ack", "nack"} => call.by \in Consumer
         /\ call.kind \in {"ack", "nack", "renew"} =>
              \A m, n \in call.ids : m = n
         /\ call.kind # "idle" => call \in Calls \cup RenewCalls
<1>1. CASE call \in Calls
  BY <1>1 DEF Calls, Idle, Call, Named
<1>2. CASE call \in RenewCalls
  BY <1>2 DEF RenewCalls, Idle, Call, Named
<1>3. CASE call = Idle
  BY <1>3 DEF Idle, Call
<1>4. QED
  BY <1>1, <1>2, <1>3

LEMMA CallOf ==
  ASSUME SessionTypeOK, NEW s \in Session
  PROVE  stmt[s] \in Calls \cup RenewCalls \cup {Idle}
BY DEF SessionTypeOK

LEMMA RenewCall ==
  ASSUME NEW lease \in MsgId \X Consumer
  PROVE  /\ Call("renew", lease[2], SomeQueue, {lease[1]}) \in RenewCalls
         /\ Call("renew", Nobody, SomeQueue, {}) \in RenewCalls
BY DEF Call, RenewCalls, Named

(* The WHERE clauses.                                                      *)
LEMMA WhereIs ==
  ASSUME NEW call \in Calls \cup RenewCalls \cup {Idle}
  PROVE  /\ Where(call) \in SUBSET MsgId
         /\ call.kind = "claim" => Where(call) = Ready(call.queue)
         /\ call.kind = "reap" => Where(call) = Expired
         /\ call.kind \in {"requeue", "purge"} => Where(call) = Dead \cap call.ids
         /\ call.kind \in {"ack", "nack", "renew", "idle"} =>
              Where(call) = {m \in call.ids : Holds(call.by, m)}
<1>1. CASE call.kind = "claim"
  BY <1>1 DEF Where, Ready
<1>2. CASE call.kind = "reap"
  BY <1>2 DEF Where, Expired
<1>3. CASE call.kind \in {"requeue", "purge"}
  BY <1>3 DEF Where, Dead
<1>4. CASE call.kind \in {"ack", "nack", "renew", "idle"}
  BY <1>4, CallFacts DEF Where
<1>5. QED
  BY <1>1, <1>2, <1>3, <1>4, CallFacts

(* Every statement looks for rows that exist.                              *)
LEMMA FoundExist ==
  ASSUME SessionTypeOK, NEW s \in Session, NEW m \in Found(s)
  PROVE  m \in MsgId /\ status[m] # "absent"
<1>1. CASE stmt[s].kind = "renew"
  BY <1>1 DEF Found
<1>2. CASE stmt[s].kind # "renew"
  <2>1. m \in Where(stmt[s]) /\ m \in MsgId
    BY <1>2, CallOf, WhereIs DEF Found
  <2>2. CASE stmt[s].kind = "claim"
    BY <2>1, <2>2, CallOf, WhereIs DEF Ready
  <2>3. CASE stmt[s].kind = "reap"
    BY <2>1, <2>3, CallOf, WhereIs DEF Expired
  <2>4. CASE stmt[s].kind \in {"requeue", "purge"}
    BY <2>1, <2>4, CallOf, WhereIs DEF Dead
  <2>5. CASE stmt[s].kind \in {"ack", "nack", "idle"}
    BY <2>1, <2>5, CallOf, WhereIs DEF Holds
  <2>6. QED
    BY <1>2, <2>2, <2>3, <2>4, <2>5, CallOf, CallFacts
<1>3. QED
  BY <1>1, <1>2

(* A step after which row m is found by whatever has found it before.      *)
Undisturbed(m) ==
  /\ status'[m] = status[m]
  /\ locked_by'[m] = locked_by[m]
  /\ queue'[m] = queue[m]
  /\ due_in[m] = 0 => due_in'[m] = 0
  /\ lease_age[m] > VisibilityTimeout => lease_age'[m] > VisibilityTimeout

LEMMA StaysFound ==
  ASSUME SessionTypeOK, NEW s \in Session, stmt'[s] = stmt[s],
         worker'[s] = worker[s],
         NEW m \in Found(s), Undisturbed(m)
  PROVE  m \in Found(s)'
<1>0. m \in MsgId
  BY FoundExist
<1>1. CASE stmt[s].kind = "renew"
  BY <1>1 DEF Found, Undisturbed
<1>2. CASE stmt[s].kind # "renew"
  <2>1. m \in Where(stmt[s])
    BY <1>2 DEF Found
  <2>2. m \in Where(stmt[s])'
    <3>1. CASE stmt[s].kind = "claim"
      BY <1>0, <2>1, <3>1 DEF Where, Ready, Undisturbed
    <3>2. CASE stmt[s].kind = "reap"
      BY <1>0, <2>1, <3>2 DEF Where, Expired, Undisturbed
    <3>3. CASE stmt[s].kind \in {"requeue", "purge"}
      BY <1>0, <2>1, <3>3 DEF Where, Dead, Undisturbed
    <3>4. CASE stmt[s].kind \in {"ack", "nack", "idle"}
      BY <1>0, <2>1, <3>4 DEF Where, Holds, Undisturbed
    <3>5. QED
      BY <1>2, <3>1, <3>2, <3>3, <3>4, CallOf, CallFacts
  <2>3. QED
    BY <1>2, <2>2 DEF Found
<1>3. QED
  BY <1>1, <1>2

-----------------------------------------------------------------------------
(* What a statement writes is what Messages says it does.                  *)

(* Which rows a statement of each kind may have taken.                     *)
Admissible(call, S) ==
  /\ S \in SUBSET MsgId
  /\ call.kind = "claim" =>
       S = {} \/ \E m \in Ready(call.queue) : S = {m}
  /\ call.kind \in {"ack", "nack"} =>
       S = {} \/ \E m \in MsgId : S = {m} /\ Holds(call.by, m)
  /\ call.kind = "reap" => S \subseteq Expired
  /\ call.kind \in {"requeue", "purge"} => S \subseteq Dead
  /\ call.kind = "renew" =>
       \A m \in S : status[m] = "processing" /\ locked_by[m] \in Consumer

LEMMA SetOfOne ==
  ASSUME NEW T, NEW column \in [MsgId -> T], NEW m \in MsgId, NEW value
  PROVE  Set(column, {m}, value) = [column EXCEPT ![m] = value]
BY DEF Set

LEMMA SetOfNone ==
  ASSUME NEW T, NEW column \in [MsgId -> T], NEW value
  PROVE  Set(column, {}, value) = column
BY DEF Set

LEMMA GiveBackNone ==
  ASSUME TableTypeOK, GiveBack({})
  PROVE  UNCHANGED <<status, finished, leaseColumns>>
BY DEF GiveBack, TableTypeOK, leaseColumns

LEMMA ClaimIsWritten ==
  ASSUME TableTypeOK, NEW call \in Calls \cup RenewCalls, NEW S,
         call.kind = "claim", Admissible(call, S), Write(call, S)
  PROVE  Claimer \/ UNCHANGED tableVars
<1>1. /\ status' = Set(status, S, "processing")
      /\ locked_by' = Set(locked_by, S, call.by)
      /\ lease_age' = Set(lease_age, S, 0)
      /\ attempts' = [m \in MsgId |-> IF m \in S THEN attempts[m] + 1 ELSE attempts[m]]
      /\ UNCHANGED <<next_id, publishedColumns, due_in, finished>>
  BY DEF Write
<1>2. CASE S = {}
  BY <1>1, <1>2, SetOfNone DEF TableTypeOK, tableVars, publishedColumns
<1>3. ASSUME NEW m \in Ready(call.queue), S = {m}
      PROVE  Claimer
  <2>1. m \in MsgId /\ Ready(call.queue) \in SUBSET MsgId
    BY DEF Ready
  <2>2. attempts' = [attempts EXCEPT ![m] = @ + 1]
    BY <1>1, <1>3, <2>1 DEF TableTypeOK
  <2>3. Claim(call.by, call.queue, Ready(call.queue) \ {m}, m)
    <3>1. status' = [status EXCEPT ![m] = "processing"]
      BY <1>1, <1>3, <2>1, SetOfOne DEF TableTypeOK
    <3>2. locked_by' = [locked_by EXCEPT ![m] = call.by]
      BY <1>1, <1>3, <2>1, SetOfOne DEF TableTypeOK
    <3>3. lease_age' = [lease_age EXCEPT ![m] = 0]
      BY <1>1, <1>3, <2>1, SetOfOne DEF TableTypeOK
    <3>4. \A n \in Ready(call.queue) \ ((Ready(call.queue) \ {m}) \cup {m}) :
             Before(m, n)
      BY <2>1
    <3>5. QED
      BY <1>1, <1>3, <2>1, <2>2, <3>1, <3>2, <3>3, <3>4 DEF Claim
  <2>4. call.by \in Consumer /\ call.queue \in Queue
    BY CallFacts
  <2>5. QED
    BY <2>1, <2>3, <2>4 DEF Claimer
<1>4. QED
  BY <1>2, <1>3 DEF Admissible

LEMMA AckIsWritten ==
  ASSUME TableTypeOK, NEW call \in Calls \cup RenewCalls, NEW S,
         call.kind = "ack", Admissible(call, S), Write(call, S)
  PROVE  Holder \/ UNCHANGED tableVars
<1>1. /\ status' = Set(status, S, "done")
      /\ finished' = Set(finished, S, TRUE)
      /\ UNCHANGED <<next_id, publishedColumns, attempts, due_in, leaseColumns>>
  BY DEF Write
<1>2. CASE S = {}
  <2>1. status' = status
    BY <1>1, <1>2, SetOfNone DEF TableTypeOK
  <2>2. finished' = finished
    BY <1>1, <1>2, SetOfNone DEF TableTypeOK
  <2>3. QED
    BY <1>1, <2>1, <2>2 DEF tableVars, publishedColumns, leaseColumns
<1>3. ASSUME NEW m \in MsgId, S = {m}, Holds(call.by, m)
      PROVE  Holder
  <2>1. Ack(call.by, m)
    BY <1>1, <1>3, SetOfOne DEF Ack, TableTypeOK
  <2>2. call.by \in Consumer
    BY CallFacts
  <2>3. QED
    BY <2>1, <2>2 DEF Holder
<1>4. QED
  BY <1>2, <1>3 DEF Admissible

LEMMA NackIsWritten ==
  ASSUME TableTypeOK, NEW call \in Calls \cup RenewCalls, NEW S,
         call.kind = "nack", Admissible(call, S), Write(call, S)
  PROVE  Holder \/ UNCHANGED tableVars
<1>1. /\ GiveBack(S)
      /\ due_in' = [m \in MsgId |-> IF m \in S /\ ~Exhausted(m)
                                    THEN Backoff(attempts[m]) ELSE due_in[m]]
      /\ UNCHANGED <<next_id, publishedColumns, attempts>>
  BY DEF Write
<1>2. CASE S = {}
  <2>1. due_in' = due_in
    BY <1>1, <1>2 DEF TableTypeOK
  <2>2. QED
    BY <1>1, <1>2, <2>1, GiveBackNone DEF tableVars, publishedColumns, leaseColumns
<1>3. ASSUME NEW m \in MsgId, S = {m}, Holds(call.by, m)
      PROVE  Holder
  <2>1. due_in' = [due_in EXCEPT ![m] =
                     IF Holds(call.by, m) /\ ~Exhausted(m) THEN Backoff(attempts[m]) ELSE @]
    BY <1>1, <1>3 DEF TableTypeOK
  <2>2. GiveBack(IF Holds(call.by, m) THEN {m} ELSE {})
    BY <1>1, <1>3
  <2>3. Nack(call.by, m)
    BY <1>1, <2>1, <2>2 DEF Nack
  <2>4. call.by \in Consumer
    BY CallFacts
  <2>5. QED
    BY <2>3, <2>4 DEF Holder
<1>4. QED
  BY <1>2, <1>3 DEF Admissible

LEMMA RenewIsWritten ==
  ASSUME TableTypeOK, NEW call \in Calls \cup RenewCalls, NEW S,
         call.kind = "renew", Admissible(call, S), Write(call, S)
  PROVE  Holder
<1> DEFINE leases == {<<m, locked_by[m]>> : m \in S}
<1>1. \A m \in S : /\ m \in MsgId /\ status[m] = "processing"
                   /\ locked_by[m] \in Consumer
  BY DEF Admissible
<1>2. leases \in SUBSET (MsgId \X Consumer)
  BY <1>1
<1>3. \A m \in MsgId :
         m \in S <=> \E c \in Consumer : <<m, c>> \in leases /\ Holds(c, m)
  BY <1>1 DEF Holds
<1>4. /\ lease_age' = Set(lease_age, S, 0)
      /\ UNCHANGED <<next_id, status, publishedColumns, attempts, due_in,
                     locked_by, finished>>
  BY DEF Write
<1> HIDE DEF leases
<1>5. Renew(leases)
  BY <1>3, <1>4 DEF Renew, Set
<1>6. QED
  BY <1>2, <1>5 DEF Holder

LEMMA ReapIsWritten ==
  ASSUME NEW call \in Calls \cup RenewCalls, NEW S,
         call.kind = "reap", Admissible(call, S), Write(call, S)
  PROVE  Reaper
<1>1. GiveBack(S) /\ UNCHANGED <<next_id, publishedColumns, attempts, due_in>>
  BY DEF Write
<1>2. S = Expired \ (Expired \ S) /\ (Expired \ S) \in SUBSET MsgId
  BY DEF Admissible, Expired
<1>3. Reap(Expired \ S)
  BY <1>1, <1>2 DEF Reap
<1>4. QED
  BY <1>2, <1>3 DEF Reaper

LEMMA RequeueIsWritten ==
  ASSUME NEW call \in Calls \cup RenewCalls, NEW S,
         call.kind = "requeue", Admissible(call, S), Write(call, S)
  PROVE  Operator
<1>1. /\ status' = Set(status, S, "pending")
      /\ attempts' = Set(attempts, S, 0)
      /\ due_in' = Set(due_in, S, 0)
      /\ finished' = Set(finished, S, FALSE)
      /\ UNCHANGED <<next_id, publishedColumns, leaseColumns>>
  BY DEF Write
<1>2. S \in SUBSET MsgId /\ Dead \cap S = S
  BY DEF Admissible
<1>3. Requeue(S)
  BY <1>1, <1>2 DEF Requeue, Set
<1>4. QED
  BY <1>2, <1>3 DEF Operator

LEMMA PurgeIsWritten ==
  ASSUME NEW call \in Calls \cup RenewCalls, NEW S,
         call.kind = "purge", Admissible(call, S), Write(call, S)
  PROVE  Operator
<1>1. S \in SUBSET MsgId /\ Dead \cap S = S
  BY DEF Admissible
<1>2. PurgeDead(S)
  BY <1>1 DEF PurgeDead, Write
<1>3. QED
  BY <1>1, <1>2 DEF Operator

LEMMA WriteIsTableStep ==
  ASSUME TableTypeOK, NEW call \in Calls \cup RenewCalls, NEW S,
         Admissible(call, S), Write(call, S)
  PROVE  [TableNext]_tableVars
<1>1. call.kind \in {"claim", "ack", "nack", "requeue", "purge", "reap", "renew"}
  BY DEF Calls, RenewCalls
<1>2. CASE call.kind = "claim"
  BY <1>2, ClaimIsWritten DEF TableNext
<1>3. CASE call.kind = "ack"
  BY <1>3, AckIsWritten DEF TableNext
<1>4. CASE call.kind = "nack"
  BY <1>4, NackIsWritten DEF TableNext
<1>5. CASE call.kind = "renew"
  BY <1>5, RenewIsWritten DEF TableNext
<1>6. CASE call.kind = "reap"
  BY <1>6, ReapIsWritten DEF TableNext
<1>7. CASE call.kind = "requeue"
  BY <1>7, RequeueIsWritten DEF TableNext
<1>8. CASE call.kind = "purge"
  BY <1>8, PurgeIsWritten DEF TableNext
<1>9. QED
  BY <1>1, <1>2, <1>3, <1>4, <1>5, <1>6, <1>7, <1>8

-----------------------------------------------------------------------------
(* What a step of the table leaves alone.                                  *)

LEMMA WriteLeavesOthers ==
  ASSUME TableTypeOK, NEW call \in Calls \cup RenewCalls, NEW S, Write(call, S),
         NEW m \in MsgId, m \notin S
  PROVE  Undisturbed(m)
<1> USE DEF TableTypeOK
<1>1. call.kind \in {"claim", "ack", "nack", "requeue", "purge", "reap", "renew"}
  BY DEF Calls, RenewCalls
<1>2. CASE call.kind = "claim"
  BY <1>2 DEF Write, Set, Undisturbed, publishedColumns
<1>3. CASE call.kind = "ack"
  BY <1>3 DEF Write, Set, Undisturbed, publishedColumns, leaseColumns
<1>4. CASE call.kind = "nack"
  BY <1>4 DEF Write, GiveBack, Undisturbed, publishedColumns
<1>5. CASE call.kind = "renew"
  BY <1>5 DEF Write, Set, Undisturbed, publishedColumns
<1>6. CASE call.kind = "reap"
  BY <1>6 DEF Write, GiveBack, Undisturbed, publishedColumns
<1>7. CASE call.kind = "requeue"
  BY <1>7 DEF Write, Set, Undisturbed, publishedColumns, leaseColumns
<1>8. CASE call.kind = "purge"
  BY <1>8 DEF Write, Delete, Undisturbed
<1>9. QED
  BY <1>1, <1>2, <1>3, <1>4, <1>5, <1>6, <1>7, <1>8

LEMMA BackgroundLeavesRows ==
  ASSUME TableInv, Producer \/ Tick, NEW m \in MsgId, status[m] # "absent"
  PROVE  Undisturbed(m)
<1>1. CASE Producer
  BY <1>1, MessagesAssumption
  DEF Producer, Publish, TableInv, TableTypeOK, FreshIds, MsgId, Undisturbed
<1>2. CASE Tick
  BY <1>2, MessagesAssumption
  DEF Tick, TableInv, TableTypeOK, Undisturbed, publishedColumns
<1>3. QED
  BY <1>1, <1>2

(* A session whose statement goes on keeps what it has found.              *)
SessionKeeps(s) ==
  /\ stmt'[s] = stmt[s] /\ worker'[s] = worker[s] /\ todo'[s] = todo[s]
  /\ rows'[s] = rows[s] /\ locks'[s] = locks[s] /\ taken'[s] = taken[s]

LEMMA KeepsFound ==
  ASSUME StatementsInv, NEW s \in Session, SessionKeeps(s),
         \A m \in taken[s] : m \in MsgId /\ status[m] # "absent" => Undisturbed(m)
  PROVE  taken'[s] \subseteq Found(s)'
<1> SUFFICES ASSUME NEW m \in taken[s] PROVE m \in Found(s)'
  BY DEF SessionKeeps
<1>1. m \in Found(s)
  BY DEF StatementsInv, TakenAreFound
<1>2. Undisturbed(m)
  BY <1>1, FoundExist DEF StatementsInv
<1>3. QED
  BY <1>1, <1>2, StaysFound DEF StatementsInv, SessionKeeps

(* Everything the invariant says of a session on its own, or of a pair,    *)
(* but what it has found.                                                  *)
SessionsInv ==
  /\ SessionTypeOK /\ LocksExclude /\ TakenAreLocked /\ OneRow /\ AtRest
  /\ BeatsExclude /\ OwnLeases /\ HeartbeatsDoNotDeadlock

LEMMA EndKeepsSessions ==
  ASSUME StatementsInv, NEW s \in Session, End(s)
  PROVE  SessionsInv' /\ taken'[s] = {} /\ \A t \in Session \ {s} : SessionKeeps(t)
<1>1. /\ stmt'[s] = Idle /\ worker'[s] = Nobody /\ todo'[s] = {}
      /\ rows'[s] = {} /\ locks'[s] = {} /\ taken'[s] = {}
  BY DEF End, StatementsInv, SessionTypeOK
<1>2. \A t \in Session \ {s} : SessionKeeps(t)
  BY DEF End, StatementsInv, SessionTypeOK, SessionKeeps
<1>3. Idle.kind = "idle"
  BY DEF Idle, Call
<1>4. SessionTypeOK'
  BY DEF End, StatementsInv, SessionTypeOK
<1>5. LocksExclude' /\ TakenAreLocked'
  BY <1>1, <1>2 DEF StatementsInv, LocksExclude, TakenAreLocked, SessionKeeps
<1>6. OneRow' /\ AtRest'
  BY <1>1, <1>2, <1>3 DEF StatementsInv, OneRow, AtRest, SessionKeeps
<1>7. BeatsExclude' /\ OwnLeases'
  BY <1>1, <1>2, <1>3 DEF StatementsInv, BeatsExclude, OwnLeases, SessionKeeps
<1>8. HeartbeatsDoNotDeadlock'
  BY <1>1, <1>2, <1>3 DEF StatementsInv, HeartbeatsDoNotDeadlock, SessionKeeps
<1>9. QED
  BY <1>1, <1>2, <1>4, <1>5, <1>6, <1>7, <1>8 DEF SessionsInv

-----------------------------------------------------------------------------
(* The steps of a session that write nothing.                              *)

LEMMA QuietKeepsFound ==
  ASSUME StatementsInv, UNCHANGED tableVars, NEW s \in Session, SessionKeeps(s)
  PROVE  taken'[s] \subseteq Found(s)'
<1>1. \A m : Undisturbed(m)
  BY DEF Undisturbed, tableVars
<1>2. QED
  BY <1>1, KeepsFound

(* A statement begins with nothing taken, in a session that had nothing.   *)
LEMMA BeginKeepsSessions ==
  ASSUME StatementsInv, NEW s \in Session, NEW call \in Calls, Begin(s, call)
  PROVE  SessionsInv' /\ TakenAreFound'
<1> USE DEF StatementsInv, SessionTypeOK
<1>1. /\ stmt'[s] = call /\ rows'[s] = Where(call)
      /\ worker'[s] = worker[s] /\ todo'[s] = todo[s]
      /\ locks'[s] = locks[s] /\ taken'[s] = taken[s]
      /\ \A t \in Session \ {s} : SessionKeeps(t)
  BY DEF Begin, Execute, SessionKeeps
<1>2. /\ stmt[s].kind = "idle" /\ Where(call) \in SUBSET MsgId
      /\ call.kind # "idle" /\ call.kind # "renew"
  BY WhereIs DEF Begin, Idle, Call, Calls
<1>3. locks[s] = {} /\ taken[s] = {} /\ worker[s] = Nobody /\ todo[s] = {}
  <2>1. stmt[s].kind # "renew"
    BY <1>2
  <2>2. worker[s] = Nobody /\ todo[s] = {}
    BY <2>1 DEF BeatsExclude, OwnLeases
  <2>3. QED
    BY <1>2, <2>2 DEF AtRest
<1>4. SessionTypeOK'
  BY <1>2 DEF Begin, Execute
<1>5. LocksExclude' /\ TakenAreLocked'
  BY <1>1 DEF LocksExclude, TakenAreLocked, SessionKeeps
<1>6. OneRow'
  <2>1. call.kind \in {"ack", "nack"} => Where(call) \subseteq call.ids
    BY WhereIs
  <2>2. QED
    BY <1>1, <1>2, <1>3, <2>1 DEF OneRow, SessionKeeps
<1>7. AtRest'
  BY <1>1, <1>2 DEF AtRest, SessionKeeps
<1>8. BeatsExclude' /\ OwnLeases'
  BY <1>1, <1>2, <1>3 DEF BeatsExclude, OwnLeases, SessionKeeps
<1>9. HeartbeatsDoNotDeadlock'
  BY <1>1, <1>2 DEF HeartbeatsDoNotDeadlock, SessionKeeps
<1>10. TakenAreFound'
  BY <1>1, <1>3, QuietKeepsFound DEF TakenAreFound, Begin
<1>11. QED
  BY <1>4, <1>5, <1>6, <1>7, <1>8, <1>9, <1>10 DEF SessionsInv

LEMMA BeginBeatKeepsSessions ==
  ASSUME StatementsInv, NEW s \in Session, NEW w \in Worker,
         NEW leases \in Leases(w), BeginBeat(s, w, leases)
  PROVE  SessionsInv' /\ TakenAreFound'
<1> USE DEF StatementsInv, SessionTypeOK
<1> DEFINE call == Call("renew", Nobody, SomeQueue, {})
<1>0. /\ call \in RenewCalls /\ call.kind = "renew" /\ call.ids = {}
  BY DEF RenewCalls, Call, Named
<1>1. Where(call) = {}
  BY <1>0, WhereIs
<1> HIDE DEF call
<1>2. /\ stmt'[s] = call /\ rows'[s] = {} /\ worker'[s] = w /\ todo'[s] = leases
      /\ locks'[s] = locks[s] /\ taken'[s] = taken[s]
      /\ \A t \in Session \ {s} : SessionKeeps(t)
  BY <1>1 DEF BeginBeat, Execute, SessionKeeps, call
<1>3. stmt[s].kind = "idle"
  BY DEF BeginBeat, Idle, Call
<1>4. locks[s] = {} /\ taken[s] = {}
  BY <1>3 DEF AtRest
<1>5. /\ leases \in SUBSET (MsgId \X Consumer)
      /\ \A lease \in leases : WorkerOf[lease[2]] = w
  BY DEF Leases
<1>6. SessionTypeOK'
  <2>1. stmt' \in [Session -> Calls \cup RenewCalls \cup {Idle}]
    BY <1>0 DEF BeginBeat, Execute, call
  <2>2. rows' \in [Session -> SUBSET MsgId]
    BY <1>1 DEF BeginBeat, Execute, call
  <2>3. QED
    BY <1>5, <2>1, <2>2 DEF BeginBeat
<1>7. LocksExclude' /\ TakenAreLocked'
  BY <1>2 DEF LocksExclude, TakenAreLocked, SessionKeeps
<1>8. OneRow' /\ AtRest'
  BY <1>0, <1>2 DEF OneRow, AtRest, SessionKeeps
<1>9. BeatsExclude'
  <2>1. w # Nobody /\ \A t \in Session : worker[t] # w
    BY StatementsAssumption DEF BeginBeat
  <2>2. QED
    BY <1>0, <1>2, <2>1 DEF BeatsExclude, SessionKeeps
<1>10. OwnLeases'
  BY <1>0, <1>2, <1>5 DEF OwnLeases, SessionKeeps
<1>11. HeartbeatsDoNotDeadlock'
  BY <1>2 DEF HeartbeatsDoNotDeadlock, SessionKeeps
<1>12. TakenAreFound'
  BY <1>2, <1>4, QuietKeepsFound DEF TakenAreFound, BeginBeat
<1>13. QED
  BY <1>6, <1>7, <1>8, <1>9, <1>10, <1>11, <1>12 DEF SessionsInv

(* A lease that is still held is held by a consumer of this worker, and    *)
(* what another heartbeat has taken by one of another worker.              *)
LEMMA RenewNextKeepsSessions ==
  ASSUME StatementsInv, NEW s \in Session, NEW lease \in todo[s],
         RenewNext(s, lease)
  PROVE  SessionsInv' /\ TakenAreFound'
<1> USE DEF StatementsInv, SessionTypeOK
<1> DEFINE call == Call("renew", lease[2], SomeQueue, {lease[1]})
<1>0. /\ lease \in MsgId \X Consumer /\ lease[1] \in MsgId /\ lease[2] \in Consumer
      /\ call \in RenewCalls /\ call.kind = "renew"
      /\ call.ids = {lease[1]} /\ call.by = lease[2]
  BY RenewCall DEF Call
<1> HIDE DEF call
<1>1. Where(call) = {m \in {lease[1]} : Holds(lease[2], m)}
  <2>1. Where(call) = {m \in call.ids : Holds(call.by, m)}
    BY <1>0, WhereIs
  <2>2. QED
    BY <1>0, <2>1
<1>2. /\ stmt'[s] = call /\ rows'[s] = Where(call) /\ worker'[s] = worker[s]
      /\ todo'[s] = todo[s] \ {lease}
      /\ locks'[s] = locks[s] /\ taken'[s] = taken[s]
      /\ \A t \in Session \ {s} : SessionKeeps(t)
  BY DEF RenewNext, Execute, SessionKeeps, call
<1>3. stmt[s].kind = "renew" /\ WorkerOf[lease[2]] = worker[s]
  BY DEF OwnLeases
<1>4. SessionTypeOK'
  <2>1. stmt' \in [Session -> Calls \cup RenewCalls \cup {Idle}]
    BY <1>0 DEF RenewNext, Execute, call
  <2>2. rows' \in [Session -> SUBSET MsgId]
    BY <1>0, <1>1 DEF RenewNext, Execute, call
  <2>3. todo' \in [Session -> SUBSET (MsgId \X Consumer)]
    BY DEF RenewNext
  <2>4. QED
    BY <2>1, <2>2, <2>3 DEF RenewNext
<1>5. LocksExclude' /\ TakenAreLocked'
  BY <1>2 DEF LocksExclude, TakenAreLocked, SessionKeeps
<1>6. OneRow' /\ AtRest'
  BY <1>0, <1>1, <1>2 DEF OneRow, AtRest, SessionKeeps
<1>7. BeatsExclude' /\ OwnLeases'
  <2>1. BeatsExclude'
    BY <1>0, <1>2, <1>3 DEF BeatsExclude, SessionKeeps
  <2>2. OwnLeases'
    BY <1>0, <1>2, <1>3 DEF OwnLeases, SessionKeeps
  <2>3. QED
    BY <2>1, <2>2
<1>8. HeartbeatsDoNotDeadlock'
  <2>1. ASSUME NEW t \in Session \ {s}, stmt[t].kind = "renew"
        PROVE  rows'[s] \cap taken[t] = {}
    <3> SUFFICES ASSUME NEW m \in rows'[s], m \in taken[t] PROVE FALSE
      OBVIOUS
    <3>1. m = lease[1] /\ locked_by[m] = lease[2]
      BY <1>1, <1>2 DEF Holds
    <3>2. WorkerOf[locked_by[m]] = worker[t]
      BY <2>1 DEF TakenAreFound, Found
    <3>3. worker[s] # Nobody /\ worker[s] # worker[t]
      BY <1>3 DEF BeatsExclude
    <3>4. QED
      BY <1>3, <3>1, <3>2, <3>3
  <2>2. QED
    BY <1>2, <2>1 DEF HeartbeatsDoNotDeadlock, SessionKeeps
<1>9. TakenAreFound'
  <2>1. taken'[s] \subseteq Found(s)'
    BY <1>0, <1>2, <1>3 DEF TakenAreFound, Found, RenewNext, tableVars
  <2>2. QED
    BY <1>2, <2>1, QuietKeepsFound DEF TakenAreFound, RenewNext
<1>10. QED
  BY <1>4, <1>5, <1>6, <1>7, <1>8, <1>9 DEF SessionsInv

LEMMA TakeKeepsSessions ==
  ASSUME StatementsInv, NEW s \in Session, NEW m \in rows[s], Take(s, m)
  PROVE  SessionsInv' /\ TakenAreFound'
<1> USE DEF StatementsInv, SessionTypeOK
<1>1. /\ stmt'[s] = stmt[s] /\ worker'[s] = worker[s] /\ todo'[s] = todo[s]
      /\ rows'[s] = IF stmt[s].kind = "claim" THEN {} ELSE rows[s] \ {m}
      /\ locks'[s] = locks[s] \cup {m} /\ taken'[s] = taken[s] \cup {m}
      /\ \A t \in Session \ {s} : SessionKeeps(t)
      /\ \A t \in Session : stmt'[t] = stmt[t] /\ worker'[t] = worker[t] /\ todo'[t] = todo[t]
  BY DEF Take, SessionKeeps
<1>2. m \in MsgId /\ stmt[s].kind # "idle"
  BY DEF AtRest
<1>3. SessionTypeOK'
  BY <1>2 DEF Take
<1>4. LocksExclude' /\ TakenAreLocked'
  <2>1. \A t \in Session \ {s} : m \notin locks[t]
    BY DEF Take, LockedByOther
  <2>2. QED
    BY <1>1, <2>1 DEF LocksExclude, TakenAreLocked, SessionKeeps
<1>5. OneRow'
  <2>1. stmt[s].kind = "claim" => taken[s] = {}
    BY DEF OneRow
  <2>2. stmt[s].kind \in {"ack", "nack", "renew"} => rows[s] \subseteq stmt[s].ids
    BY DEF OneRow
  <2>3. QED
    BY <1>1, <1>2, <2>1, <2>2 DEF OneRow, SessionKeeps
<1>6. AtRest' /\ BeatsExclude' /\ OwnLeases'
  BY <1>1, <1>2 DEF AtRest, BeatsExclude, OwnLeases, SessionKeeps
<1>7. HeartbeatsDoNotDeadlock'
  <2>1. stmt[s].kind = "renew" => rows'[s] = {}
    <3>1. stmt[s].kind = "renew" => \A n \in rows[s] : n = m
      BY CallOf, CallFacts DEF OneRow
    <3>2. QED
      BY <1>1, <3>1
  <2>2. QED
    BY <1>1, <2>1 DEF HeartbeatsDoNotDeadlock, SessionKeeps
<1>8. TakenAreFound'
  <2>1. m \in Found(s)
    <3>1. m \in Where(stmt[s])
      BY DEF Take
    <3>2. CASE stmt[s].kind = "renew"
      <4>1. m \in stmt[s].ids /\ Holds(stmt[s].by, m)
        BY <3>1, <3>2, CallOf, WhereIs
      <4>2. stmt[s].by \in Consumer /\ WorkerOf[stmt[s].by] = worker[s]
        BY <3>2, <4>1 DEF OwnLeases
      <4>3. QED
        BY <1>2, <3>2, <4>1, <4>2 DEF Found, Holds
    <3>3. CASE stmt[s].kind # "renew"
      BY <3>1, <3>3 DEF Found
    <3>4. QED
      BY <3>2, <3>3
  <2>2. \A n : Undisturbed(n)
    BY DEF Take, tableVars, Undisturbed
  <2>3. taken'[s] \subseteq Found(s)'
    BY <1>1, <2>1, <2>2, StaysFound DEF TakenAreFound
  <2>4. QED
    BY <1>1, <2>3, QuietKeepsFound DEF TakenAreFound, Take
<1>9. QED
  BY <1>3, <1>4, <1>5, <1>6, <1>7, <1>8 DEF SessionsInv

(* A row is left, locked or not: the statement has one row less to visit.  *)
LEMMA LeaveKeepsSessions ==
  ASSUME StatementsInv, NEW s \in Session, NEW m \in rows[s],
         Leave(s, m) \/ PassOver(s, m)
  PROVE  SessionsInv' /\ TakenAreFound'
<1> USE DEF StatementsInv, SessionTypeOK
<1>1. /\ stmt'[s] = stmt[s] /\ worker'[s] = worker[s] /\ todo'[s] = todo[s]
      /\ rows'[s] = rows[s] \ {m} /\ taken'[s] = taken[s]
      /\ \/ locks'[s] = locks[s]
         \/ locks'[s] = locks[s] \cup {m} /\ ~LockedByOther(s, m)
      /\ \A t \in Session \ {s} : SessionKeeps(t)
  <2>1. CASE Leave(s, m)
    BY <2>1 DEF Leave, SessionKeeps
  <2>2. CASE PassOver(s, m)
    BY <2>2 DEF PassOver, SessionKeeps
  <2>3. QED
    BY <2>1, <2>2
<1>2. m \in MsgId /\ stmt[s].kind # "idle"
  BY DEF AtRest
<1>3. SessionTypeOK'
  BY <1>2 DEF Leave, PassOver
<1>4. LocksExclude' /\ TakenAreLocked'
  BY <1>1 DEF LocksExclude, TakenAreLocked, SessionKeeps, LockedByOther
<1>5. OneRow'
  BY <1>1 DEF OneRow, SessionKeeps
<1>6. AtRest' /\ BeatsExclude' /\ OwnLeases'
  BY <1>1, <1>2 DEF AtRest, BeatsExclude, OwnLeases, SessionKeeps
<1>7. HeartbeatsDoNotDeadlock'
  BY <1>1 DEF HeartbeatsDoNotDeadlock, SessionKeeps
<1>8. TakenAreFound'
  <2>1. \A n : Undisturbed(n)
    BY DEF Leave, PassOver, tableVars, Undisturbed
  <2>2. taken'[s] \subseteq Found(s)'
    BY <1>1, <2>1, StaysFound DEF TakenAreFound
  <2>3. QED
    BY <1>1, <2>2, QuietKeepsFound DEF TakenAreFound, Leave, PassOver
<1>9. QED
  BY <1>3, <1>4, <1>5, <1>6, <1>7, <1>8 DEF SessionsInv

-----------------------------------------------------------------------------
(* The steps that write.                                                   *)

LEMMA TakenAreAdmissible ==
  ASSUME StatementsInv, NEW s \in Session, stmt[s].kind # "idle"
  PROVE  Admissible(stmt[s], taken[s])
<1> USE DEF StatementsInv
<1>1. taken[s] \in SUBSET MsgId /\ taken[s] \subseteq Found(s)
  BY DEF SessionTypeOK, TakenAreFound
<1>2. CASE stmt[s].kind = "renew"
  BY <1>1, <1>2 DEF Admissible, Found
<1>3. CASE stmt[s].kind = "claim"
  <2>1. taken[s] \subseteq Ready(stmt[s].queue)
    BY <1>1, <1>3, CallOf, WhereIs DEF Found
  <2>2. QED
    BY <1>1, <1>3, <2>1 DEF Admissible, OneRow
<1>4. CASE stmt[s].kind \in {"ack", "nack"}
  <2>1. \A m \in taken[s] : m \in stmt[s].ids /\ Holds(stmt[s].by, m)
    BY <1>1, <1>4, CallOf, WhereIs DEF Found
  <2>2. \A m, n \in taken[s] : m = n
    BY <1>4, <2>1, CallOf, CallFacts
  <2>3. taken[s] = {} \/ \E m \in MsgId : taken[s] = {m} /\ Holds(stmt[s].by, m)
    BY <1>1, <2>1, <2>2
  <2>4. QED
    BY <1>1, <1>4, <2>3 DEF Admissible
<1>5. CASE stmt[s].kind = "reap"
  BY <1>1, <1>5, CallOf, WhereIs DEF Admissible, Found
<1>6. CASE stmt[s].kind \in {"requeue", "purge"}
  BY <1>1, <1>6, CallOf, WhereIs DEF Admissible, Found
<1>7. QED
  BY <1>2, <1>3, <1>4, <1>5, <1>6, CallOf, CallFacts

LEMMA CommitIsTableStep ==
  ASSUME StatementsInv, NEW s \in Session, Commit(s)
  PROVE  [TableNext]_tableVars
<1>1. stmt[s] \in Calls \cup RenewCalls /\ stmt[s].kind # "idle"
  BY CallOf, CallFacts DEF Commit, StatementsInv
<1>2. Admissible(stmt[s], taken[s])
  BY <1>1, TakenAreAdmissible
<1>3. QED
  BY <1>1, <1>2, WriteIsTableStep DEF Commit, StatementsInv, TableInv

LEMMA CommitKeepsSessions ==
  ASSUME StatementsInv, NEW s \in Session, Commit(s)
  PROVE  SessionsInv' /\ TakenAreFound'
<1>1. /\ SessionsInv' /\ taken'[s] = {}
      /\ \A t \in Session \ {s} : SessionKeeps(t)
  BY EndKeepsSessions DEF Commit
<1>2. stmt[s] \in Calls \cup RenewCalls
  BY CallOf, CallFacts DEF Commit, StatementsInv
<1>3. ASSUME NEW t \in Session \ {s}
      PROVE  taken'[t] \subseteq Found(t)'
  <2>1. \A m \in taken[t] : m \notin taken[s]
    BY DEF StatementsInv, LocksExclude, TakenAreLocked
  <2>2. \A m \in taken[t] : m \in MsgId => Undisturbed(m)
    BY <1>2, <2>1, WriteLeavesOthers DEF Commit, StatementsInv, TableInv
  <2>3. QED
    BY <1>1, <2>2, KeepsFound
<1>4. QED
  BY <1>1, <1>3 DEF TakenAreFound

LEMMA RollbackKeepsSessions ==
  ASSUME StatementsInv, NEW s \in Session, Rollback(s)
  PROVE  SessionsInv' /\ TakenAreFound'
<1>1. /\ SessionsInv' /\ taken'[s] = {}
      /\ \A t \in Session \ {s} : SessionKeeps(t)
  BY EndKeepsSessions DEF Rollback
<1>2. QED
  BY <1>1, QuietKeepsFound DEF TakenAreFound, Rollback

LEMMA OthersKeepSessions ==
  ASSUME StatementsInv,
         \/ (Producer \/ Tick) /\ UNCHANGED sessionVars
         \/ Truncate
         \/ UNCHANGED statementVars
  PROVE  SessionsInv' /\ TakenAreFound'
<1>1. UNCHANGED sessionVars /\ \A s \in Session : SessionKeeps(s)
  BY DEF Truncate, statementVars, sessionVars, SessionKeeps
<1>2. SessionsInv'
  BY <1>1 DEF SessionsInv, StatementsInv, sessionVars, SessionTypeOK, LocksExclude,
              TakenAreLocked, OneRow, AtRest, BeatsExclude, OwnLeases,
              HeartbeatsDoNotDeadlock
<1>3. ASSUME NEW s \in Session
      PROVE  taken'[s] \subseteq Found(s)'
  <2>1. CASE Truncate
    <3>1. taken[s] = {}
      BY <2>1 DEF Truncate, Idle, Call, StatementsInv, AtRest
    <3>2. QED
      BY <1>1, <3>1 DEF SessionKeeps
  <2>2. CASE Producer \/ Tick
    BY <1>1, <2>2, KeepsFound, BackgroundLeavesRows DEF StatementsInv
  <2>3. CASE UNCHANGED statementVars
    BY <1>1, <2>3, QuietKeepsFound DEF statementVars
  <2>4. QED
    BY <2>1, <2>2, <2>3
<1>4. QED
  BY <1>2, <1>3 DEF TakenAreFound

-----------------------------------------------------------------------------
(* The theorems.                                                           *)

LEMMA InitStatementsInv == StatementsInit => StatementsInv
<1> SUFFICES ASSUME StatementsInit PROVE StatementsInv
  OBVIOUS
<1>1. TableInv
  BY InitTableInv DEF StatementsInit
<1>2. \A s \in Session : /\ stmt[s].kind = "idle" /\ worker[s] = Nobody
                         /\ todo[s] = {} /\ rows[s] = {} /\ locks[s] = {} /\ taken[s] = {}
  BY DEF StatementsInit, Idle, Call
<1>3. SessionTypeOK
  BY DEF StatementsInit, SessionTypeOK
<1>4. QED
  BY <1>1, <1>2, <1>3
  DEF StatementsInv, LocksExclude, TakenAreLocked, TakenAreFound, OneRow,
      AtRest, BeatsExclude, OwnLeases, HeartbeatsDoNotDeadlock

LEMMA StepOfStatements ==
  StatementsInv /\ [StatementsNext]_statementVars =>
    StatementsInv' /\ [TableNext]_tableVars
<1> SUFFICES ASSUME StatementsInv, [StatementsNext]_statementVars
             PROVE  StatementsInv' /\ [TableNext]_tableVars
  OBVIOUS
<1>1. (SessionsInv' /\ TakenAreFound') /\ [TableNext]_tableVars
  <2>1. ASSUME NEW s \in Session, NEW call \in Calls, Begin(s, call)
        PROVE  (SessionsInv' /\ TakenAreFound') /\ [TableNext]_tableVars
    BY <2>1, BeginKeepsSessions DEF Begin
  <2>2. ASSUME NEW s \in Session, NEW w \in Worker, NEW leases \in Leases(w),
               BeginBeat(s, w, leases)
        PROVE  (SessionsInv' /\ TakenAreFound') /\ [TableNext]_tableVars
    BY <2>2, BeginBeatKeepsSessions DEF BeginBeat
  <2>3. ASSUME NEW s \in Session, NEW lease \in todo[s], RenewNext(s, lease)
        PROVE  (SessionsInv' /\ TakenAreFound') /\ [TableNext]_tableVars
    BY <2>3, RenewNextKeepsSessions DEF RenewNext
  <2>4. ASSUME NEW s \in Session, NEW m \in rows[s],
               Take(s, m) \/ Leave(s, m) \/ PassOver(s, m)
        PROVE  (SessionsInv' /\ TakenAreFound') /\ [TableNext]_tableVars
    BY <2>4, TakeKeepsSessions, LeaveKeepsSessions DEF Take, Leave, PassOver
  <2>5. ASSUME NEW s \in Session, Commit(s)
        PROVE  (SessionsInv' /\ TakenAreFound') /\ [TableNext]_tableVars
    BY <2>5, CommitKeepsSessions, CommitIsTableStep
  <2>6. ASSUME NEW s \in Session, Rollback(s)
        PROVE  (SessionsInv' /\ TakenAreFound') /\ [TableNext]_tableVars
    BY <2>6, RollbackKeepsSessions DEF Rollback
  <2>7. CASE \/ (Producer \/ Tick) /\ UNCHANGED sessionVars
             \/ Truncate
             \/ UNCHANGED statementVars
    <3>1. [TableNext]_tableVars
      BY <2>7 DEF TableNext, Truncate, Operator, statementVars
    <3>2. QED
      BY <2>7, <3>1, OthersKeepSessions
  <2>8. QED
    BY <2>1, <2>2, <2>3, <2>4, <2>5, <2>6, <2>7 DEF StatementsNext
<1>2. TableInv'
  BY <1>1, StepTableInv DEF StatementsInv
<1>3. QED
  BY <1>1, <1>2 DEF StatementsInv, SessionsInv

LEMMA StatementsInvariant == StatementsSpec => []StatementsInv
BY InitStatementsInv, StepOfStatements, PTL DEF StatementsSpec

(* Statements that overlap, wait for each other's rows and skip them act   *)
(* on the table as if each were executed alone: Messages may take each for *)
(* one action, and what is proved of it holds of them.                     *)
THEOREM StatementsAreAtomic == StatementsSpec => AtomicStatements
<1>1. StatementsInit => TableInit
  BY DEF StatementsInit
<1>2. QED
  BY <1>1, StepOfStatements, StatementsInvariant, PTL
  DEF StatementsSpec, AtomicStatements, TableSpec

(* Heartbeats renew leases in any order without waiting for each other: a  *)
(* consumer belongs to one worker, and a worker has one transaction.       *)
THEOREM HeartbeatsNeverDeadlock == StatementsSpec => []HeartbeatsDoNotDeadlock
BY StatementsInvariant, PTL DEF StatementsInv
=============================================================================
