--------------------------- MODULE DeliveryProofs ---------------------------
(***************************************************************************)
(* Proofs about the consumers, for every number of workers, consumers and  *)
(* messages: what Delivery keeps, that it implements AtLeastOnce, and what *)
(* is left when any number of statements is executed late.                 *)
(***************************************************************************)
EXTENDS LateStatements, MessagesProofs

-----------------------------------------------------------------------------
(* The inductive invariant.                                                *)

Involved == {"granted"} \cup Working

(* A consumer has a message from its claim to the end of the step.         *)
MessageInHand ==
  \A c \in Consumer : pc[c] \in Involved <=> message[c] # NoMessage

(* `mine` says what its name promises, and ...                             *)
MineIsHeld ==
  \A c \in Consumer :
     mine[c] => message[c] \in MsgId /\ Holds(c, message[c])

(* ... status and locked_by say the same: a consumer at work whose name is *)
(* on the row holds it by the claim it is working for.  This is why no     *)
(* fencing token is needed.                                                *)
LeaseIsOwn ==
  \A c \in Consumer :
     pc[c] \in Involved /\ Holds(c, message[c]) => mine[c]

AckIsEarned ==
  \A c \in Consumer :
     pc[c] = "acking" /\ mine[c] => message[c] \in succeeded

(* Success is remembered no longer than the lease.                         *)
SuccessIsCurrent ==
  \A m \in succeeded : status[m] \in {"processing", "done"}

HandInv == DeliveryTypeOK /\ MessageInHand

DeliveryInv ==
  /\ HandInv
  /\ MineIsHeld
  /\ LeaseIsOwn
  /\ AckIsEarned
  /\ SuccessIsCurrent
  /\ DoneOnlyAfterSuccess

-----------------------------------------------------------------------------
(* What statements do to leases and results.                               *)

(* Statements other than a claim give nobody a lease.                      *)
LEMMA GiveBackGivesNoLease ==
  ASSUME TableTypeOK, NEW S, GiveBack(S),
         NEW c \in Consumer, NEW m \in MsgId, Holds(c, m)'
  PROVE  Holds(c, m)
BY MessagesAssumption DEF GiveBack, Holds, TableTypeOK, Exhausted

LEMMA NoLeaseWithoutClaim ==
  ASSUME TableTypeOK,
         Producer \/ Holder \/ Reaper \/ Operator \/ Tick,
         NEW c \in Consumer, NEW m \in MsgId, Holds(c, m)'
  PROVE  Holds(c, m)
<1>1. CASE Producer
  BY <1>1 DEF Producer, Publish, Holds
<1>2. CASE Holder
  <2>1. CASE \E d \in Consumer, n \in MsgId : Ack(d, n)
    BY <2>1 DEF Ack, Holds, leaseColumns, TableTypeOK
  <2>2. CASE \E d \in Consumer, n \in MsgId : Nack(d, n)
    BY <2>2, GiveBackGivesNoLease DEF Nack
  <2>3. CASE \E leases \in SUBSET (MsgId \X Consumer) : Renew(leases)
    BY <2>3 DEF Renew, Holds
  <2>4. QED
    BY <1>2, <2>1, <2>2, <2>3 DEF Holder
<1>3. CASE Reaper
  BY <1>3, GiveBackGivesNoLease DEF Reaper, Reap
<1>4. CASE Operator
  <2>1. CASE \E ids \in SUBSET MsgId : Requeue(ids)
    BY <2>1 DEF Requeue, Holds, leaseColumns
  <2>2. CASE Reset \/ \E ids \in SUBSET MsgId : PurgeDead(ids)
    BY <2>2 DEF PurgeDead, Reset, Delete, Holds
  <2>3. QED
    BY <1>4, <2>1, <2>2 DEF Operator
<1>5. CASE Tick
  BY <1>5 DEF Tick, Holds
<1>6. QED
  BY <1>1, <1>2, <1>3, <1>4, <1>5

(* Statements other than an ack complete nothing.                          *)
NotAcked == \A m \in MsgId : status'[m] = "done" => status[m] = "done"

LEMMA GiveBackCompletesNothing ==
  ASSUME TableTypeOK, NEW S, GiveBack(S)
  PROVE  NotAcked
BY DEF GiveBack, NotAcked

LEMMA NoResultWithoutAck ==
  ASSUME TableTypeOK,
         \/ Producer \/ Reaper \/ Operator \/ Tick
         \/ \E c \in Consumer, m \in MsgId : Nack(c, m)
         \/ \E leases \in SUBSET (MsgId \X Consumer) : Renew(leases)
  PROVE  NotAcked
<1>1. CASE Producer
  BY <1>1 DEF Producer, Publish, NotAcked
<1>2. CASE Reaper
  BY <1>2, GiveBackCompletesNothing DEF Reaper, Reap
<1>3. CASE Operator
  <2>1. CASE \E ids \in SUBSET MsgId : Requeue(ids)
    BY <2>1 DEF Requeue, NotAcked
  <2>2. CASE Reset \/ \E ids \in SUBSET MsgId : PurgeDead(ids)
    BY <2>2 DEF PurgeDead, Reset, Delete, NotAcked
  <2>3. QED
    BY <1>3, <2>1, <2>2 DEF Operator
<1>4. CASE Tick
  BY <1>4 DEF Tick, NotAcked
<1>5. CASE \E c \in Consumer, m \in MsgId : Nack(c, m)
  BY <1>5, GiveBackCompletesNothing DEF Nack
<1>6. CASE \E leases \in SUBSET (MsgId \X Consumer) : Renew(leases)
  BY <1>6 DEF Renew, NotAcked
<1>7. QED
  BY <1>1, <1>2, <1>3, <1>4, <1>5, <1>6

-----------------------------------------------------------------------------
(* Every step of Delivery is a statement on the table or leaves it alone.  *)

LEMMA MessageOfAck ==
  ASSUME HandInv, NEW c \in Consumer, pc[c] \in Involved
  PROVE  message[c] \in MsgId
BY DEF HandInv, DeliveryTypeOK, MessageInHand

LEMMA ClaimIsClaimer ==
  ASSUME NEW c \in Consumer, NEW locked \in Selected(c), NEW m \in MsgId,
         ClaimMessage(c, locked, m)
  PROVE  Claimer
<1>1. locked \in SUBSET MsgId
  BY DEF Selected, Ready
<1>2. QueueOf[c] \in Queue
  BY DeliveryAssumption
<1>3. QED
  BY <1>1, <1>2 DEF ClaimMessage, Claimer

LEMMA StepOfTable ==
  ASSUME HandInv, [DeliveryNext]_vars
  PROVE  [TableNext]_tableVars
<1>1. CASE UNCHANGED vars
  BY <1>1 DEF vars
<1>2. ASSUME NEW c \in Consumer, ConsumerStep(c) \/ Exit(c) \/ Kill(c)
      PROVE  [TableNext]_tableVars
  <2>1. CASE \E locked \in Selected(c), m \in MsgId : ClaimMessage(c, locked, m)
    BY <2>1, ClaimIsClaimer DEF TableNext
  <2>2. CASE AckMessage(c) \/ NackMessage(c)
    <3>1. message[c] \in MsgId
      BY <2>2, MessageOfAck DEF AckMessage, NackMessage, Involved, Working
    <3>2. QED
      BY <2>2, <3>1 DEF AckMessage, NackMessage, TableNext, Holder
  <2>3. CASE \/ Loop(c) \/ ClaimNothing(c) \/ StartHandling(c)
             \/ HandlerSucceeds(c) \/ HandlerFails(c) \/ Finish(c)
             \/ DatabaseError(c) \/ Wake(c) \/ Exit(c) \/ Kill(c)
    BY <2>3 DEF Loop, ClaimNothing, StartHandling, HandlerSucceeds,
                HandlerFails, Finish, DatabaseError, Wake, Exit, Kill
  <2>4. QED
    BY <1>2, <2>1, <2>2, <2>3 DEF ConsumerStep
<1>3. ASSUME NEW w \in Worker, Crash(w) \/ BeatStart(w) \/ BeatEnd(w)
      PROVE  [TableNext]_tableVars
  <2>1. CASE BeatCommit(w)
    <3>1. beat[w] \in SUBSET (MsgId \X Consumer)
      BY DEF HandInv, DeliveryTypeOK
    <3>2. QED
      BY <2>1, <3>1 DEF BeatCommit, TableNext, Holder
  <2>2. CASE Crash(w) \/ BeatStart(w) \/ BeatFail(w)
    BY <2>2 DEF Crash, BeatStart, BeatFail
  <2>3. QED
    BY <1>3, <2>1, <2>2 DEF BeatEnd
<1>4. ASSUME NEW locked \in SUBSET LockedByHolders, ReaperPass(locked)
      PROVE  [TableNext]_tableVars
  BY <1>4 DEF ReaperPass, LockedByHolders, TableNext, Reaper
<1>5. CASE Background
  BY <1>5 DEF Background, TableNext
<1>6. QED
  BY <1>1, <1>2, <1>3, <1>4, <1>5 DEF DeliveryNext

-----------------------------------------------------------------------------
(* Type correctness.                                                       *)

LEMMA InitDeliveryInv == DeliveryInit => DeliveryInv
<1> SUFFICES ASSUME DeliveryInit PROVE DeliveryInv
  OBVIOUS
<1>1. DeliveryTypeOK
  BY InitTypeOK DEF DeliveryInit, DeliveryTypeOK, Place
<1>2. /\ MessageInHand /\ MineIsHeld /\ LeaseIsOwn
      /\ AckIsEarned /\ SuccessIsCurrent
  BY DEF DeliveryInit, MessageInHand, MineIsHeld, LeaseIsOwn, AckIsEarned,
         SuccessIsCurrent, Involved, Working
<1>3. DoneOnlyAfterSuccess
  BY DEF DeliveryInit, TableInit, DoneOnlyAfterSuccess
<1>4. QED
  BY <1>1, <1>2, <1>3 DEF DeliveryInv, HandInv

ClientTypeOK ==
  /\ pc \in [Consumer -> Place]
  /\ message \in [Consumer -> MsgId \cup {NoMessage}]
  /\ beat \in [Worker -> SUBSET (MsgId \X Consumer)]
  /\ mine \in [Consumer -> BOOLEAN]
  /\ succeeded \in SUBSET MsgId

LEMMA KeepHistoryTypeOK ==
  ASSUME DeliveryTypeOK, KeepHistory
  PROVE  mine' \in [Consumer -> BOOLEAN] /\ succeeded' \in SUBSET MsgId
<1>1. mine' \in [Consumer -> BOOLEAN]
  BY DEF DeliveryTypeOK, KeepHistory
<1>2. QED
  BY <1>1 DEF DeliveryTypeOK, KeepHistory

LEMMA StepDeliveryTypeOK ==
  ASSUME HandInv, [DeliveryNext]_vars
  PROVE  DeliveryTypeOK'
<1>0. TableTypeOK'
  BY StepOfTable, StepTypeOK DEF HandInv, DeliveryTypeOK
<1> USE DEF ClientTypeOK
<1>1. ASSUME UNCHANGED vars
      PROVE  ClientTypeOK'
  BY <1>1 DEF vars, clientVars, history, HandInv, DeliveryTypeOK
<1>2. ASSUME NEW c \in Consumer, ConsumerStep(c) \/ Exit(c) \/ Kill(c)
      PROVE  ClientTypeOK'
  <2> USE DEF HandInv, DeliveryTypeOK, Place, Goto, history
  <2>1. CASE \E locked \in Selected(c), m \in MsgId : ClaimMessage(c, locked, m)
    BY <2>1 DEF ClaimMessage
  <2>2. CASE AckMessage(c) \/ NackMessage(c)
    BY <2>2, KeepHistoryTypeOK DEF AckMessage, NackMessage
  <2>3. CASE HandlerSucceeds(c)
    <3>1. message[c] \in MsgId
      BY <2>3, MessageOfAck DEF HandlerSucceeds, Involved, Working
    <3>2. QED
      BY <2>3, <3>1 DEF HandlerSucceeds
  <2>4. CASE \/ Loop(c) \/ ClaimNothing(c) \/ StartHandling(c)
             \/ HandlerFails(c) \/ Wake(c) \/ Exit(c)
    BY <2>4 DEF Loop, ClaimNothing, StartHandling, HandlerFails, Wake, Exit
  <2>5. CASE Finish(c) \/ DatabaseError(c) \/ Kill(c)
    BY <2>5 DEF Finish, DatabaseError, Kill, LetGo
  <2>6. QED
    BY <1>2, <2>1, <2>2, <2>3, <2>4, <2>5 DEF ConsumerStep
<1>3. ASSUME NEW w \in Worker, Crash(w) \/ BeatStart(w) \/ BeatEnd(w)
      PROVE  ClientTypeOK'
  <2> USE DEF HandInv, DeliveryTypeOK, history
  <2>1. CASE Crash(w)
    <3>1. pc' \in [Consumer -> Place]
      BY <2>1 DEF Crash, Place
    <3>2. message' \in [Consumer -> MsgId \cup {NoMessage}]
      BY <2>1 DEF Crash
    <3>3. mine' \in [Consumer -> BOOLEAN]
      BY <2>1 DEF Crash
    <3>4. QED
      BY <2>1, <3>1, <3>2, <3>3 DEF Crash
  <2>2. CASE BeatStart(w)
    <3>1. LeasesOf(w) \in SUBSET (MsgId \X Consumer)
      BY MessageOfAck DEF LeasesOf, ConsumersOf, Involved
    <3>2. QED
      BY <2>2, <3>1 DEF BeatStart
  <2>3. CASE BeatCommit(w)
    BY <2>3, KeepHistoryTypeOK DEF BeatCommit
  <2>4. CASE BeatFail(w)
    BY <2>4 DEF BeatFail
  <2>5. QED
    BY <1>3, <2>1, <2>2, <2>3, <2>4 DEF BeatEnd
<1>4. ASSUME NEW locked \in SUBSET LockedByHolders, ReaperPass(locked)
      PROVE  ClientTypeOK'
  BY <1>4, KeepHistoryTypeOK
  DEF ReaperPass, clientVars, HandInv, DeliveryTypeOK
<1>5. ASSUME Background
      PROVE  ClientTypeOK'
  BY <1>5, KeepHistoryTypeOK
  DEF Background, clientVars, HandInv, DeliveryTypeOK
<1> HIDE DEF ClientTypeOK
<1>6. QED
  <2>1. ClientTypeOK'
    BY <1>1, <1>2, <1>3, <1>4, <1>5 DEF DeliveryNext
  <2>2. QED
    BY <1>0, <2>1 DEF DeliveryTypeOK, ClientTypeOK

LEMMA StepMessageInHand ==
  ASSUME HandInv, [DeliveryNext]_vars
  PROVE  MessageInHand'
<1> USE DEF HandInv, DeliveryTypeOK, MessageInHand, Involved, Working, Goto
<1>1. CASE UNCHANGED vars
  BY <1>1 DEF vars, clientVars
<1>2. ASSUME NEW c \in Consumer, ConsumerStep(c) \/ Exit(c) \/ Kill(c)
      PROVE  MessageInHand'
  <2>1. CASE \E locked \in Selected(c), m \in MsgId : ClaimMessage(c, locked, m)
    BY <2>1, DeliveryAssumption DEF ClaimMessage
  <2>2. CASE AckMessage(c) \/ NackMessage(c)
    BY <2>2 DEF AckMessage, NackMessage
  <2>3. CASE \/ StartHandling(c) \/ HandlerSucceeds(c) \/ HandlerFails(c)
    BY <2>3 DEF StartHandling, HandlerSucceeds, HandlerFails
  <2>4. CASE \/ Loop(c) \/ ClaimNothing(c) \/ Wake(c) \/ Exit(c)
    BY <2>4 DEF Loop, ClaimNothing, Wake, Exit
  <2>5. CASE Finish(c) \/ DatabaseError(c) \/ Kill(c)
    BY <2>5 DEF Finish, DatabaseError, Kill, LetGo
  <2>6. QED
    BY <1>2, <2>1, <2>2, <2>3, <2>4, <2>5 DEF ConsumerStep
<1>3. ASSUME NEW w \in Worker, Crash(w) \/ BeatStart(w) \/ BeatEnd(w)
      PROVE  MessageInHand'
  BY <1>3 DEF Crash, BeatStart, BeatEnd, BeatCommit, BeatFail
<1>4. ASSUME NEW locked \in SUBSET LockedByHolders, ReaperPass(locked)
      PROVE  MessageInHand'
  BY <1>4 DEF ReaperPass, clientVars
<1>5. CASE Background
  BY <1>5 DEF Background, clientVars
<1>6. QED
  BY <1>1, <1>2, <1>3, <1>4, <1>5 DEF DeliveryNext

-----------------------------------------------------------------------------
(* Leases and results.                                                     *)

LeasesAndResults ==
  /\ MineIsHeld /\ LeaseIsOwn /\ AckIsEarned
  /\ SuccessIsCurrent /\ DoneOnlyAfterSuccess

(* A step that changes rows without a claim and after which the history    *)
(* follows: it is enough that it gives no lease and completes nothing that *)
(* was not handled.                                                        *)
LEMMA HistoryFollows ==
  ASSUME DeliveryInv, KeepHistory, UNCHANGED message,
         \A c \in Consumer : pc'[c] \in Involved => pc[c] \in Involved,
         \A c \in Consumer : pc'[c] = "acking" => pc[c] = "acking",
         \A c \in Consumer, m \in MsgId : Holds(c, m)' => Holds(c, m),
         \A m \in MsgId : status'[m] = "done" => m \in succeeded
  PROVE  LeasesAndResults'
<1> USE DEF DeliveryInv, HandInv, DeliveryTypeOK
<1>1. \A c \in Consumer : mine'[c] <=>
        /\ mine[c]
        /\ message[c] \in MsgId
        /\ status'[message[c]] = "processing"
        /\ locked_by'[message[c]] = c
  BY DEF KeepHistory
<1>2. \A m : m \in succeeded' <=>
              m \in succeeded /\ status'[m] \in {"processing", "done"}
  BY DEF KeepHistory
<1>3. MineIsHeld'
  BY <1>1 DEF MineIsHeld, Holds
<1>4. LeaseIsOwn'
  <2> SUFFICES ASSUME NEW c \in Consumer,
                      pc'[c] \in Involved, Holds(c, message[c])'
               PROVE  mine'[c]
    BY DEF LeaseIsOwn
  <2>1. message[c] \in MsgId
    BY MessageOfAck
  <2>2. Holds(c, message[c])
    BY <2>1 DEF Holds
  <2>3. mine[c]
    BY <2>2 DEF LeaseIsOwn
  <2>4. QED
    BY <1>1, <2>1, <2>3 DEF Holds
<1>5. AckIsEarned'
  BY <1>1, <1>2 DEF AckIsEarned
<1>6. SuccessIsCurrent'
  BY <1>2 DEF SuccessIsCurrent
<1>7. DoneOnlyAfterSuccess'
  BY <1>2 DEF DoneOnlyAfterSuccess
<1>8. QED
  BY <1>3, <1>4, <1>5, <1>6, <1>7 DEF LeasesAndResults

(* The same, for the steps that cannot complete a message.                 *)
LEMMA NoLeaseNoResult ==
  ASSUME DeliveryInv, KeepHistory, UNCHANGED message,
         \A c \in Consumer : pc'[c] \in Involved => pc[c] \in Involved,
         \A c \in Consumer : pc'[c] = "acking" => pc[c] = "acking",
         \/ Producer \/ Reaper \/ Operator \/ Tick
         \/ \E c \in Consumer, m \in MsgId : Nack(c, m)
         \/ \E leases \in SUBSET (MsgId \X Consumer) : Renew(leases)
  PROVE  LeasesAndResults'
<1>1. TableTypeOK
  BY DEF DeliveryInv, HandInv, DeliveryTypeOK
<1>2. \A c \in Consumer, m \in MsgId : Holds(c, m)' => Holds(c, m)
  BY <1>1, NoLeaseWithoutClaim DEF Holder
<1>3. NotAcked
  BY <1>1, NoResultWithoutAck
<1>4. \A m \in MsgId : status'[m] = "done" => m \in succeeded
  BY <1>3 DEF NotAcked, DeliveryInv, DoneOnlyAfterSuccess
<1>5. QED
  BY <1>2, <1>4, HistoryFollows

LEMMA AckKeepsLeases ==
  ASSUME DeliveryInv, NEW c \in Consumer, AckMessage(c)
  PROVE  LeasesAndResults'
<1>1. message[c] \in MsgId
  BY MessageOfAck DEF AckMessage, Involved, Working, DeliveryInv
<1>2. \A d \in Consumer, m \in MsgId : Holds(d, m)' => Holds(d, m)
  BY <1>1, NoLeaseWithoutClaim
  DEF AckMessage, Holder, DeliveryInv, HandInv, DeliveryTypeOK
<1>3. /\ \A d \in Consumer : pc'[d] \in Involved => pc[d] \in Involved
      /\ \A d \in Consumer : pc'[d] = "acking" => pc[d] = "acking"
  BY DEF AckMessage, Goto, Involved, Working, DeliveryInv, HandInv, DeliveryTypeOK
<1>4. ASSUME NEW m \in MsgId, status'[m] = "done"
      PROVE  m \in succeeded
  <2>1. CASE status[m] = "done"
    BY <2>1 DEF DeliveryInv, DoneOnlyAfterSuccess
  <2>2. CASE status[m] # "done"
    <3>1. m = message[c] /\ Holds(c, m)
      BY <1>4, <2>2 DEF AckMessage, Ack, DeliveryInv, HandInv, DeliveryTypeOK, TableTypeOK
    <3>2. mine[c]
      BY <3>1 DEF AckMessage, Involved, Working, DeliveryInv, LeaseIsOwn
    <3>3. QED
      BY <3>1, <3>2 DEF AckMessage, DeliveryInv, AckIsEarned
  <2>3. QED
    BY <2>1, <2>2
<1>5. QED
  BY <1>2, <1>3, <1>4, HistoryFollows DEF AckMessage

LEMMA NackKeepsLeases ==
  ASSUME DeliveryInv, NEW c \in Consumer, NackMessage(c)
  PROVE  LeasesAndResults'
<1>1. message[c] \in MsgId
  BY MessageOfAck DEF NackMessage, Involved, Working, DeliveryInv
<1>2. /\ \A d \in Consumer : pc'[d] \in Involved => pc[d] \in Involved
      /\ \A d \in Consumer : pc'[d] = "acking" => pc[d] = "acking"
  BY DEF NackMessage, Goto, Involved, Working, DeliveryInv, HandInv, DeliveryTypeOK
<1>3. QED
  BY <1>1, <1>2, NoLeaseNoResult DEF NackMessage

(* A claim by c gives c a lease on m, which nobody had, and nothing else.  *)
LEMMA ClaimKeepsLeases ==
  ASSUME DeliveryInv, NEW c \in Consumer, NEW locked, NEW m \in MsgId,
         ClaimMessage(c, locked, m)
  PROVE  LeasesAndResults'
<1> USE DEF DeliveryInv, HandInv, DeliveryTypeOK, TableTypeOK
<1>1. /\ status[m] = "pending"
      /\ status' = [status EXCEPT ![m] = "processing"]
      /\ locked_by' = [locked_by EXCEPT ![m] = c]
  BY DEF ClaimMessage, Claim, Ready
<1>2. /\ pc' = [pc EXCEPT ![c] = "granted"]
      /\ message' = [message EXCEPT ![c] = m]
      /\ mine' = [mine EXCEPT ![c] = TRUE]
      /\ succeeded' = succeeded
  BY DEF ClaimMessage, Goto
<1>3. \A d \in Consumer, n \in MsgId :
         Holds(d, n)' <=> IF n = m THEN d = c ELSE Holds(d, n)
  BY <1>1 DEF Holds
<1>4. MineIsHeld'
  <2> SUFFICES ASSUME NEW d \in Consumer, mine'[d]
               PROVE  message'[d] \in MsgId /\ Holds(d, message[d])'
    BY DEF MineIsHeld
  <2>1. CASE d = c
    BY <1>2, <1>1, <2>1 DEF Holds
  <2>2. CASE d # c
    <3>1. message'[d] = message[d] /\ message[d] \in MsgId /\ Holds(d, message[d])
      BY <1>2, <2>2 DEF MineIsHeld
    <3>2. message[d] # m
      BY <1>1, <3>1 DEF Holds
    <3>3. QED
      BY <1>1, <3>1, <3>2 DEF Holds
  <2>3. QED
    BY <2>1, <2>2
<1>5. LeaseIsOwn'
  <2> SUFFICES ASSUME NEW d \in Consumer, d # c,
                      pc'[d] \in Involved, Holds(d, message[d])'
               PROVE  mine'[d]
    BY <1>2 DEF LeaseIsOwn
  <2>1. pc[d] \in Involved /\ message'[d] = message[d] /\ message[d] \in MsgId
    BY <1>2, MessageOfAck
  <2>2. Holds(d, message[d])
    BY <1>1, <2>1 DEF Holds
  <2>3. QED
    BY <1>2, <2>1, <2>2 DEF LeaseIsOwn
<1>6. AckIsEarned'
  BY <1>2 DEF AckIsEarned
<1>7. SuccessIsCurrent'
  BY <1>1, <1>2 DEF SuccessIsCurrent
<1>8. DoneOnlyAfterSuccess'
  BY <1>1, <1>2 DEF DoneOnlyAfterSuccess
<1>9. QED
  BY <1>4, <1>5, <1>6, <1>7, <1>8 DEF LeasesAndResults

(* A step that changes no row and lets consumers go on or let go.          *)
LEMMA QuietKeepsLeases ==
  ASSUME DeliveryInv, UNCHANGED <<status, locked_by, succeeded>>,
         \A c \in Consumer : mine'[c] => mine[c] /\ message'[c] = message[c],
         \A c \in Consumer : pc'[c] \in Involved =>
            /\ pc[c] \in Involved
            /\ message'[c] = message[c]
            /\ mine'[c] = mine[c],
         \A c \in Consumer : pc'[c] = "acking" => pc[c] = "acking"
  PROVE  LeasesAndResults'
<1> USE DEF DeliveryInv
<1>1. MineIsHeld'
  BY DEF MineIsHeld, Holds
<1>2. LeaseIsOwn'
  BY DEF LeaseIsOwn, Holds
<1>3. AckIsEarned'
  BY DEF AckIsEarned
<1>4. SuccessIsCurrent'
  BY DEF SuccessIsCurrent
<1>5. DoneOnlyAfterSuccess'
  BY DEF DoneOnlyAfterSuccess
<1>6. QED
  BY <1>1, <1>2, <1>3, <1>4, <1>5 DEF LeasesAndResults

LEMMA SuccessKeepsLeases ==
  ASSUME DeliveryInv, NEW c \in Consumer, HandlerSucceeds(c)
  PROVE  LeasesAndResults'
<1> USE DEF DeliveryInv, HandInv, DeliveryTypeOK
<1>1. /\ pc[c] = "handling"
      /\ pc' = [pc EXCEPT ![c] = "acking"]
      /\ succeeded' = IF mine[c] THEN succeeded \cup {message[c]} ELSE succeeded
      /\ UNCHANGED <<status, locked_by, message, mine>>
  BY DEF HandlerSucceeds, Goto, tableVars
<1>2. MineIsHeld'
  BY <1>1 DEF MineIsHeld, Holds
<1>3. LeaseIsOwn'
  BY <1>1 DEF LeaseIsOwn, Holds, Involved, Working
<1>4. AckIsEarned'
  BY <1>1 DEF AckIsEarned
<1>5. SuccessIsCurrent'
  BY <1>1 DEF SuccessIsCurrent, MineIsHeld, Holds
<1>6. DoneOnlyAfterSuccess'
  BY <1>1 DEF DoneOnlyAfterSuccess
<1>7. QED
  BY <1>2, <1>3, <1>4, <1>5, <1>6 DEF LeasesAndResults

LEMMA StepKeepsLeases ==
  ASSUME DeliveryInv, [DeliveryNext]_vars
  PROVE  LeasesAndResults'
<1> USE DEF tableVars
<1>1. CASE UNCHANGED vars
  BY <1>1, QuietKeepsLeases DEF vars, clientVars, history
<1>2. ASSUME NEW c \in Consumer, ConsumerStep(c) \/ Exit(c) \/ Kill(c)
      PROVE  LeasesAndResults'
  <2> USE DEF DeliveryInv, HandInv, DeliveryTypeOK
  <2>1. CASE \E locked \in Selected(c), m \in MsgId : ClaimMessage(c, locked, m)
    BY <2>1, ClaimKeepsLeases
  <2>2. CASE AckMessage(c)
    BY <2>2, AckKeepsLeases
  <2>3. CASE NackMessage(c)
    BY <2>3, NackKeepsLeases
  <2>4. CASE HandlerSucceeds(c)
    BY <2>4, SuccessKeepsLeases
  <2>5. CASE \/ Loop(c) \/ ClaimNothing(c) \/ StartHandling(c)
             \/ HandlerFails(c) \/ Wake(c) \/ Exit(c)
    BY <2>5, QuietKeepsLeases
    DEF Loop, ClaimNothing, StartHandling, HandlerFails, Wake, Exit, Goto,
        history, Involved, Working
  <2>6. CASE Finish(c) \/ DatabaseError(c) \/ Kill(c)
    <3>1. UNCHANGED <<status, locked_by, succeeded>>
      BY <2>6 DEF Finish, DatabaseError, Kill
    <3>2. PICK place \in {"loop", "idle", "killed"} : LetGo(c, place)
      BY <2>6 DEF Finish, DatabaseError, Kill
    <3>3. /\ pc'[c] = place /\ ~mine'[c]
          /\ \A d \in Consumer \ {c} :
                pc'[d] = pc[d] /\ message'[d] = message[d] /\ mine'[d] = mine[d]
      BY <3>2 DEF LetGo, Goto
    <3>4. QED
      BY <3>1, <3>3, QuietKeepsLeases DEF Involved, Working
  <2>7. QED
    BY <1>2, <2>1, <2>2, <2>3, <2>4, <2>5, <2>6 DEF ConsumerStep
<1>3. ASSUME NEW w \in Worker, Crash(w) \/ BeatStart(w) \/ BeatEnd(w)
      PROVE  LeasesAndResults'
  <2>1. CASE Crash(w)
    <3>1. \A c \in Consumer :
             \/ pc'[c] = "killed" /\ ~mine'[c]
             \/ pc'[c] = pc[c] /\ message'[c] = message[c] /\ mine'[c] = mine[c]
      BY <2>1 DEF Crash, DeliveryInv, HandInv, DeliveryTypeOK
    <3>2. UNCHANGED <<status, locked_by, succeeded>>
      BY <2>1 DEF Crash
    <3>3. QED
      BY <3>1, <3>2, QuietKeepsLeases DEF Involved, Working
  <2>2. CASE BeatStart(w) \/ BeatFail(w)
    BY <2>2, QuietKeepsLeases DEF BeatStart, BeatFail, history
  <2>3. CASE BeatCommit(w)
    BY <2>3, NoLeaseNoResult DEF BeatCommit, DeliveryInv, HandInv, DeliveryTypeOK
  <2>4. QED
    BY <1>3, <2>1, <2>2, <2>3 DEF BeatEnd
<1>4. ASSUME NEW locked \in SUBSET LockedByHolders, ReaperPass(locked)
      PROVE  LeasesAndResults'
  BY <1>4, NoLeaseNoResult DEF ReaperPass, Reaper, LockedByHolders, clientVars
<1>5. CASE Background
  BY <1>5, NoLeaseNoResult DEF Background, clientVars
<1>6. QED
  BY <1>1, <1>2, <1>3, <1>4, <1>5 DEF DeliveryNext

LEMMA StepDeliveryInv == DeliveryInv /\ [DeliveryNext]_vars => DeliveryInv'
<1> SUFFICES ASSUME DeliveryInv, [DeliveryNext]_vars PROVE DeliveryInv'
  OBVIOUS
<1>1. LeasesAndResults'
  BY StepKeepsLeases
<1>2. QED
  BY <1>1, StepDeliveryTypeOK, StepMessageInHand
  DEF LeasesAndResults, DeliveryInv, HandInv

LEMMA DeliveryInvariant == DeliverySpec => []DeliveryInv
BY InitDeliveryInv, StepDeliveryInv, PTL DEF DeliverySpec

-----------------------------------------------------------------------------
(* The theorems.                                                           *)

(* Table, consumers, heartbeats and history have their types in every      *)
(* reachable state.                                                        *)
THEOREM DeliveryTypeCorrect == DeliverySpec => []DeliveryTypeOK
BY DeliveryInvariant, PTL DEF DeliveryInv, HandInv

(* Consumers, heartbeats and reapers are among the clients of TableSpec,   *)
(* so that what is proved of the table holds of the system.                *)
THEOREM DeliveryImplementsTable == DeliverySpec => TableSpec
<1>1. DeliveryInit => TableInit
  BY DEF DeliveryInit
<1>2. DeliveryInv /\ [DeliveryNext]_vars => [TableNext]_tableVars
  BY StepOfTable DEF DeliveryInv
<1>3. QED
  BY <1>1, <1>2, DeliveryInvariant, PTL DEF DeliverySpec, TableSpec

(* No message is done before the handler returned under the lease that was *)
(* acked, whatever is lost, late, killed, reaped, reset or requeued.       *)
THEOREM NoUnearnedResult == DeliverySpec => []DoneOnlyAfterSuccess
BY DeliveryInvariant, PTL DEF DeliveryInv

(* The ack or nack of a consumer that lost its lease has no effect:        *)
(* comparing status and locked_by tells its lease from every later one,    *)
(* for any number of consumers and messages.                               *)
THEOREM LateRepliesAreIgnored == DeliverySpec => LateReplyIsIgnored
<1> DEFINE Ignored ==
      \A c \in Consumer :
        pc[c] \in {"acking", "nacking"} /\ pc'[c] = "answered" /\ ~mine[c]
          => UNCHANGED tableVars
<1>1. DeliveryInv /\ [DeliveryNext]_vars => [Ignored]_vars
  <2> SUFFICES ASSUME DeliveryInv, DeliveryNext, NEW c \in Consumer,
                      pc[c] \in {"acking", "nacking"},
                      pc'[c] = "answered", ~mine[c]
               PROVE  UNCHANGED tableVars
    OBVIOUS
  <2> USE DEF DeliveryInv, HandInv, DeliveryTypeOK
  <2>1. AckMessage(c) \/ NackMessage(c)
    <3>1. PICK d \in Consumer : ConsumerStep(d) \/ Exit(d) \/ Kill(d)
      BY DEF DeliveryNext, Crash, BeatStart, BeatEnd, BeatCommit, BeatFail,
             ReaperPass, Background, clientVars
    <3>2. d = c
      BY <3>1
      DEF ConsumerStep, Exit, Kill, Loop, ClaimMessage, ClaimNothing,
          StartHandling, HandlerSucceeds, HandlerFails, AckMessage,
          NackMessage, Finish, DatabaseError, Wake, LetGo, Goto
    <3>3. QED
      BY <3>1, <3>2
      DEF ConsumerStep, Exit, Kill, Loop, ClaimMessage, ClaimNothing,
          StartHandling, HandlerSucceeds, HandlerFails, AckMessage,
          NackMessage, Finish, DatabaseError, Wake, LetGo, Goto
  <2>2. message[c] \in MsgId /\ ~Holds(c, message[c])
    BY MessageOfAck DEF Involved, Working, LeaseIsOwn
  <2>3. CASE AckMessage(c)
    BY <2>2, <2>3
    DEF AckMessage, Ack, TableTypeOK, tableVars, publishedColumns, leaseColumns
  <2>4. CASE NackMessage(c)
    BY <2>2, <2>4
    DEF NackMessage, Nack, GiveBack, TableTypeOK, tableVars, publishedColumns
  <2>5. QED
    BY <2>1, <2>3, <2>4
<1>2. QED
  BY <1>1, DeliveryInvariant, PTL DEF DeliverySpec, LateReplyIsIgnored

-----------------------------------------------------------------------------
(* Delivery implements AtLeastOnce: each step of the one is a step of the  *)
(* other, or leaves the other's state alone.                               *)

(* What the mapping rests on: the invariant of the clients and that of the *)
(* table, which says that rows without a holder have locked_by NULL.       *)
Inv == DeliveryInv /\ TableInv

LEMMA InvHolds == DeliverySpec => []Inv
BY DeliveryInvariant, DeliveryImplementsTable, TableInvariant, PTL DEF Inv

-----------------------------------------------------------------------------
(* The mapping, row by row.                                                *)

LEMMA StageIs ==
  ASSUME TableTypeOK, NEW m \in MsgId
  PROVE  /\ stage[m] = "absent" <=> status[m] = "absent"
         /\ stage[m] = "waiting" <=> status[m] = "pending"
         /\ stage[m] = "out" <=> status[m] = "processing"
         /\ stage[m] = "completed" <=> status[m] = "done"
         /\ stage[m] = "dead" <=> status[m] = "dead"
BY DEF TableTypeOK, Status, stage

(* A step that gives the rows of S one status moves their messages to the  *)
(* stage it stands for.                                                    *)
LEMMA SameStatusSameStage ==
  ASSUME UNCHANGED status
  PROVE  UNCHANGED stage
BY DEF stage

LEMMA HistoryKept ==
  ASSUME Inv, KeepHistory,
         \A m \in succeeded : status'[m] \in {"processing", "done"}
  PROVE  succeeded' = succeeded
BY DEF KeepHistory

(* Rows that are neither held nor done have no holder and no success.      *)
LEMMA UnheldRows ==
  ASSUME Inv, NEW m \in MsgId, status[m] \in {"absent", "pending", "dead"}
  PROVE  locked_by[m] = Nobody /\ m \notin succeeded
BY DEF Inv, TableInv, LeaseColumns, DeliveryInv, SuccessIsCurrent

-----------------------------------------------------------------------------
(* The statements.                                                         *)

LEMMA PublishIsPut ==
  ASSUME Inv, Producer, KeepHistory
  PROVE  \E S \in SUBSET MsgId : Promise!Put(S)
<1>1. PICK q \in Queue, p \in Priority, limit \in Limit, delay \in Delay,
           count \in 1..MaxBatch : Publish(q, p, limit, delay, count)
  BY DEF Producer
<1> DEFINE S == {m \in MsgId : m \in next_id..(next_id + count - 1)}
<1>2. /\ status' = [m \in MsgId |-> IF m \in S THEN "pending" ELSE status[m]]
      /\ locked_by' = [m \in MsgId |-> IF m \in S THEN Nobody ELSE locked_by[m]]
  BY <1>1 DEF Publish
<1>3. \A m \in S : status[m] = "absent"
  BY MessagesAssumption DEF Inv, TableInv, TableTypeOK, FreshIds, MsgId
<1> HIDE DEF S
<1>4. S \in SUBSET MsgId
  BY DEF S
<1>5. Promise!All(S, "absent")
  BY <1>3, <1>4, StageIs DEF Promise!All, Inv, TableInv
<1>6. Promise!Move(S, "waiting")
  BY <1>2 DEF Promise!Move, stage
<1>7. locked_by' = locked_by
  BY <1>2, <1>3, <1>4, UnheldRows DEF Inv, TableInv, TableTypeOK
<1>8. succeeded' = succeeded
  <2>1. \A m \in succeeded : m \in MsgId /\ m \notin S
    BY <1>3, UnheldRows DEF Inv, DeliveryInv, HandInv, DeliveryTypeOK
  <2>2. QED
    BY <1>2, <2>1, HistoryKept DEF Inv, DeliveryInv, SuccessIsCurrent
<1>9. QED
  BY <1>4, <1>5, <1>6, <1>7, <1>8 DEF Promise!Put

LEMMA ClaimIsTake ==
  ASSUME Inv, NEW c \in Consumer, NEW locked, NEW m \in MsgId,
         ClaimMessage(c, locked, m)
  PROVE  Promise!Take(c, m)
<1>1. /\ status[m] = "pending"
      /\ status' = [status EXCEPT ![m] = "processing"]
      /\ locked_by' = [locked_by EXCEPT ![m] = c]
      /\ succeeded' = succeeded
  BY DEF ClaimMessage, Claim, Ready
<1>2. stage[m] = "waiting"
  BY <1>1, StageIs DEF Inv, TableInv
<1>3. Promise!Move({m}, "out")
  BY <1>1 DEF Promise!Move, stage, Inv, TableInv, TableTypeOK
<1>4. succeeded' = succeeded \ {m}
  BY <1>1, UnheldRows
<1>5. QED
  BY <1>1, <1>2, <1>3, <1>4 DEF Promise!Take

LEMMA SuccessIsProve ==
  ASSUME Inv, NEW c \in Consumer, HandlerSucceeds(c)
  PROVE  (\E m \in MsgId : Promise!Prove(m)) \/ UNCHANGED Promise!vars
<1>1. UNCHANGED <<stage, locked_by>>
  BY SameStatusSameStage DEF HandlerSucceeds, tableVars
<1>2. CASE mine[c]
  <2>1. message[c] \in MsgId /\ status[message[c]] = "processing"
    BY <1>2 DEF Inv, DeliveryInv, MineIsHeld, Holds
  <2>2. stage[message[c]] = "out"
    BY <2>1, StageIs DEF Inv, TableInv
  <2>3. succeeded' = succeeded \cup {message[c]}
    BY <1>2 DEF HandlerSucceeds
  <2>4. QED
    BY <1>1, <2>1, <2>2, <2>3 DEF Promise!Prove
<1>3. CASE ~mine[c]
  BY <1>1, <1>3 DEF HandlerSucceeds, Promise!vars
<1>4. QED
  BY <1>2, <1>3

LEMMA AckIsComplete ==
  ASSUME Inv, NEW c \in Consumer, AckMessage(c)
  PROVE  (\E m \in MsgId : Promise!Complete(m)) \/ UNCHANGED Promise!vars
<1> DEFINE m == message[c]
<1>1. m \in MsgId
  BY MessageOfAck DEF AckMessage, Involved, Working, Inv, DeliveryInv
<1>2. UNCHANGED locked_by
  BY DEF AckMessage, Ack, leaseColumns
<1>3. CASE Holds(c, m)
  <2>1. status[m] = "processing" /\ status' = [status EXCEPT ![m] = "done"]
    BY <1>3 DEF AckMessage, Ack, Holds
  <2>2. m \in succeeded
    BY <1>3 DEF AckMessage, Inv, DeliveryInv, LeaseIsOwn, AckIsEarned,
                Involved, Working
  <2>3. stage[m] = "out"
    BY <1>1, <2>1, StageIs DEF Inv, TableInv
  <2>4. Promise!Move({m}, "completed")
    BY <1>1, <2>1 DEF Promise!Move, stage, Inv, TableInv, TableTypeOK
  <2>5. succeeded' = succeeded
    <3>1. KeepHistory
      BY DEF AckMessage
    <3>2. \A n \in succeeded : status'[n] \in {"processing", "done"}
      BY <1>1, <2>1
      DEF Inv, DeliveryInv, HandInv, DeliveryTypeOK, SuccessIsCurrent, TableInv,
          TableTypeOK
    <3>3. QED
      BY <3>1, <3>2, HistoryKept
  <2>6. QED
    BY <1>1, <1>2, <2>2, <2>3, <2>4, <2>5 DEF Promise!Complete
<1>4. CASE ~Holds(c, m)
  <2>1. UNCHANGED status
    BY <1>1, <1>4 DEF AckMessage, Ack, Inv, TableInv, TableTypeOK
  <2>2. UNCHANGED succeeded
    BY <2>1, HistoryKept
    DEF AckMessage, Inv, DeliveryInv, SuccessIsCurrent
  <2>3. QED
    BY <1>2, <2>1, <2>2, SameStatusSameStage DEF Promise!vars
<1>5. QED
  BY <1>3, <1>4

(* Nack and reap.                                                          *)
LEMMA GiveBackIsReturn ==
  ASSUME Inv, KeepHistory, NEW S, GiveBack(S), S \in SUBSET MsgId,
         \A m \in S : status[m] = "processing"
  PROVE  \E R \in SUBSET MsgId, spent \in SUBSET MsgId : Promise!Return(R, spent)
<1> DEFINE spent == {m \in MsgId : Exhausted(m)}
<1>1. status' = [m \in MsgId |->
        IF m \in S THEN IF m \in spent THEN "dead" ELSE "pending" ELSE status[m]]
  BY DEF GiveBack
<1>2. locked_by' = [m \in MsgId |-> IF m \in S THEN Nobody ELSE locked_by[m]]
  BY DEF GiveBack
<1>3. spent \in SUBSET MsgId
  OBVIOUS
<1> HIDE DEF spent
<1>4. Promise!All(S, "out")
  BY StageIs DEF Promise!All, Inv, TableInv
<1>5. stage' = [m \in MsgId |-> IF m \notin S THEN stage[m]
                ELSE IF m \in spent THEN "dead" ELSE "waiting"]
  BY <1>1 DEF stage
<1>6. succeeded' = succeeded \ S
  <2>1. \A m \in MsgId : m \in S => status'[m] \notin {"processing", "done"}
    BY <1>1
  <2>2. \A m \in MsgId : m \notin S => status'[m] = status[m]
    BY <1>1
  <2>3. succeeded \subseteq MsgId
    BY DEF Inv, DeliveryInv, HandInv, DeliveryTypeOK
  <2>4. QED
    BY <2>1, <2>2, <2>3
    DEF KeepHistory, Inv, DeliveryInv, SuccessIsCurrent
<1>7. QED
  BY <1>2, <1>3, <1>4, <1>5, <1>6 DEF Promise!Return

LEMMA NackIsReturn ==
  ASSUME Inv, NEW c \in Consumer, NackMessage(c)
  PROVE  \E R \in SUBSET MsgId, spent \in SUBSET MsgId : Promise!Return(R, spent)
<1>1. message[c] \in MsgId
  BY MessageOfAck DEF NackMessage, Involved, Working, Inv, DeliveryInv
<1> DEFINE S == IF Holds(c, message[c]) THEN {message[c]} ELSE {}
<1>2. S \in SUBSET MsgId /\ \A m \in S : status[m] = "processing"
  BY <1>1 DEF Holds
<1>3. KeepHistory /\ GiveBack(S)
  BY DEF NackMessage, Nack
<1> HIDE DEF S
<1>4. QED
  BY <1>2, <1>3, GiveBackIsReturn

LEMMA ReapIsReturn ==
  ASSUME Inv, NEW locked, ReaperPass(locked)
  PROVE  \E R \in SUBSET MsgId, spent \in SUBSET MsgId : Promise!Return(R, spent)
<1>1. KeepHistory /\ GiveBack(Expired \ locked)
  BY DEF ReaperPass, Reap
<1>2. /\ (Expired \ locked) \in SUBSET MsgId
      /\ \A m \in Expired \ locked : status[m] = "processing"
  BY DEF Expired
<1>3. QED
  BY <1>1, <1>2, GiveBackIsReturn

LEMMA RequeueIsRevive ==
  ASSUME Inv, KeepHistory, NEW ids, Requeue(ids)
  PROVE  \E S \in SUBSET MsgId : Promise!Revive(S)
<1> DEFINE S == Dead \cap ids
<1>1. /\ status' = [m \in MsgId |-> IF m \in S THEN "pending" ELSE status[m]]
      /\ UNCHANGED locked_by
  BY DEF Requeue, leaseColumns
<1>2. S \in SUBSET MsgId /\ \A m \in S : status[m] = "dead"
  BY DEF Dead
<1> HIDE DEF S
<1>3. Promise!All(S, "dead")
  BY <1>2, StageIs DEF Promise!All, Inv, TableInv
<1>4. Promise!Move(S, "waiting")
  BY <1>1 DEF Promise!Move, stage
<1>5. succeeded' = succeeded
  <2>1. \A m \in succeeded : m \in MsgId /\ m \notin S
    BY <1>2, UnheldRows DEF Inv, DeliveryInv, HandInv, DeliveryTypeOK
  <2>2. QED
    BY <1>1, <2>1, HistoryKept DEF Inv, DeliveryInv, SuccessIsCurrent
<1>6. QED
  BY <1>1, <1>2, <1>3, <1>4, <1>5 DEF Promise!Revive

LEMMA PurgeIsRemove ==
  ASSUME Inv, KeepHistory, NEW ids, PurgeDead(ids)
  PROVE  \E S \in SUBSET MsgId : Promise!Remove(S)
<1> DEFINE S == Dead \cap ids
<1>1. /\ status' = [m \in MsgId |-> IF m \in S THEN "absent" ELSE status[m]]
      /\ locked_by' = [m \in MsgId |-> IF m \in S THEN Nobody ELSE locked_by[m]]
  BY DEF PurgeDead, Delete
<1>2. S \in SUBSET MsgId /\ \A m \in S : status[m] = "dead"
  BY DEF Dead
<1> HIDE DEF S
<1>3. Promise!All(S, "dead")
  BY <1>2, StageIs DEF Promise!All, Inv, TableInv
<1>4. Promise!Move(S, "absent")
  BY <1>1 DEF Promise!Move, stage
<1>5. locked_by' = locked_by
  BY <1>1, <1>2, UnheldRows DEF Inv, TableInv, TableTypeOK
<1>6. succeeded' = succeeded
  <2>1. \A m \in succeeded : m \in MsgId /\ m \notin S
    BY <1>2, UnheldRows DEF Inv, DeliveryInv, HandInv, DeliveryTypeOK
  <2>2. QED
    BY <1>1, <2>1, HistoryKept DEF Inv, DeliveryInv, SuccessIsCurrent
<1>7. QED
  BY <1>2, <1>3, <1>4, <1>5, <1>6 DEF Promise!Remove

LEMMA ResetIsClear ==
  ASSUME Inv, KeepHistory, Reset
  PROVE  Promise!Clear
<1>1. /\ status' = [m \in MsgId |-> "absent"]
      /\ locked_by' = [m \in MsgId |-> Nobody]
  BY DEF Reset, Delete
<1>2. stage' = [m \in MsgId |-> "absent"]
  BY <1>1 DEF stage
<1>3. succeeded' = {}
  BY <1>1 DEF KeepHistory, Inv, DeliveryInv, HandInv, DeliveryTypeOK
<1>4. QED
  BY <1>1, <1>2, <1>3 DEF Promise!Clear

(* Renewals and the passing of time are invisible.                         *)
LEMMA ClockIsInvisible ==
  ASSUME Inv, KeepHistory, Tick \/ \E leases : Renew(leases)
  PROVE  UNCHANGED Promise!vars
<1>1. UNCHANGED <<status, locked_by>>
  BY DEF Tick, Renew
<1>2. UNCHANGED succeeded
  BY <1>1, HistoryKept DEF Inv, DeliveryInv, SuccessIsCurrent
<1>3. QED
  BY <1>1, <1>2, SameStatusSameStage DEF Promise!vars

-----------------------------------------------------------------------------

LEMMA InitOfPromise == DeliveryInit => Promise!Init
BY DEF DeliveryInit, TableInit, Promise!Init, stage

LEMMA StepOfPromise == Inv /\ [DeliveryNext]_vars => [Promise!Next]_(Promise!vars)
<1> SUFFICES ASSUME Inv, [DeliveryNext]_vars
             PROVE  [Promise!Next]_(Promise!vars)
  OBVIOUS
<1>1. CASE UNCHANGED vars
  BY <1>1, SameStatusSameStage DEF vars, tableVars, history, Promise!vars
<1>2. ASSUME NEW c \in Consumer, ConsumerStep(c) \/ Exit(c) \/ Kill(c)
      PROVE  [Promise!Next]_(Promise!vars)
  <2>1. CASE \E locked \in Selected(c), m \in MsgId : ClaimMessage(c, locked, m)
    BY <2>1, ClaimIsTake DEF Promise!Next
  <2>2. CASE AckMessage(c)
    BY <2>2, AckIsComplete DEF Promise!Next
  <2>3. CASE NackMessage(c)
    BY <2>3, NackIsReturn DEF Promise!Next
  <2>4. CASE HandlerSucceeds(c)
    BY <2>4, SuccessIsProve DEF Promise!Next
  <2>5. CASE \/ Loop(c) \/ ClaimNothing(c) \/ StartHandling(c)
             \/ HandlerFails(c) \/ Finish(c) \/ DatabaseError(c)
             \/ Wake(c) \/ Exit(c) \/ Kill(c)
    <3>1. UNCHANGED <<status, locked_by, succeeded>>
      BY <2>5 DEF Loop, ClaimNothing, StartHandling, HandlerFails, Finish,
                  DatabaseError, Wake, Exit, Kill, tableVars, history
    <3>2. QED
      BY <3>1, SameStatusSameStage DEF Promise!vars
  <2>6. QED
    BY <1>2, <2>1, <2>2, <2>3, <2>4, <2>5 DEF ConsumerStep
<1>3. ASSUME NEW w \in Worker, Crash(w) \/ BeatStart(w) \/ BeatEnd(w)
      PROVE  [Promise!Next]_(Promise!vars)
  <2>1. CASE Crash(w) \/ BeatStart(w) \/ BeatFail(w)
    <3>1. UNCHANGED <<status, locked_by, succeeded>>
      BY <2>1 DEF Crash, BeatStart, BeatFail, tableVars, history
    <3>2. QED
      BY <3>1, SameStatusSameStage DEF Promise!vars
  <2>2. CASE BeatCommit(w)
    BY <2>2, ClockIsInvisible DEF BeatCommit
  <2>3. QED
    BY <1>3, <2>1, <2>2 DEF BeatEnd
<1>4. ASSUME NEW locked \in SUBSET LockedByHolders, ReaperPass(locked)
      PROVE  [Promise!Next]_(Promise!vars)
  BY <1>4, ReapIsReturn DEF Promise!Next
<1>5. CASE Background
  <2>1. KeepHistory
    BY <1>5 DEF Background
  <2>2. CASE Producer
    BY <2>1, <2>2, PublishIsPut DEF Promise!Next
  <2>3. CASE Operator
    BY <2>1, <2>3, RequeueIsRevive, PurgeIsRemove, ResetIsClear
    DEF Operator, Promise!Next
  <2>4. CASE Tick
    BY <2>1, <2>4, ClockIsInvisible
  <2>5. QED
    BY <1>5, <2>2, <2>3, <2>4 DEF Background
<1>6. QED
  BY <1>1, <1>2, <1>3, <1>4, <1>5 DEF DeliveryNext

(* The broker keeps the promise of AtLeastOnce: a message is out to one    *)
(* consumer at a time, and completed only after that consumer handled it.  *)
THEOREM DeliveryKeepsPromise == DeliverySpec => KeepsPromise
BY InvHolds, InitOfPromise, StepOfPromise, PTL
DEF DeliverySpec, KeepsPromise, Promise!Spec

-----------------------------------------------------------------------------
(* LateStatements, for any number of late statements.                      *)
(*                                                                         *)
(* The inductive invariant.  An ack is sent only after the handler has     *)
(* succeeded, and it is executed only on a row that names its sender.      *)

LateAcksEarned ==
  /\ \A c \in Consumer : pc[c] = "acking" => <<c, message[c]>> \in handled
  /\ \A c \in Consumer, m \in MsgId :
        <<"acking", c, m>> \in late => <<c, m>> \in handled

LateMessages ==
  \A s \in late : s[1] \in {"acking", "nacking"} => s[3] \in MsgId

LateInv ==
  /\ TableInv /\ HandInv /\ LateTypeOK
  /\ LateMessages /\ LateAcksEarned /\ DoneByAHandler

(* A row is completed only by an ack of the consumer it names.             *)
CompletedOnlyBy(A) ==
  \A m \in MsgId : status'[m] = "done" /\ status[m] # "done" =>
     <<locked_by'[m], m>> \in A

(* What a step must keep to keep the results credited.                     *)
LEMMA ResultsStayCredited ==
  ASSUME LateInv, [TableNext]_tableVars, handled \subseteq handled',
         CompletedOnlyBy(handled')
  PROVE  DoneByAHandler'
<1> SUFFICES ASSUME NEW m \in MsgId, status'[m] = "done"
             PROVE  <<locked_by'[m], m>> \in handled'
  BY DEF DoneByAHandler
<1>1. CASE status[m] # "done"
  BY <1>1 DEF CompletedOnlyBy
<1>2. CASE status[m] = "done"
  <2>1. locked_by'[m] = locked_by[m]
    BY <1>2, StepKeepsDone DEF LateInv
  <2>2. QED
    BY <1>2, <2>1 DEF LateInv, DoneByAHandler
<1>3. QED
  BY <1>1, <1>2

LEMMA AckCompletes ==
  ASSUME TableTypeOK, NEW c \in Consumer, NEW n \in MsgId, Ack(c, n)
  PROVE  CompletedOnlyBy({<<c, n>>})
BY DEF Ack, Holds, CompletedOnlyBy, TableTypeOK, leaseColumns

LEMMA ClaimCompletesNothing ==
  ASSUME TableTypeOK, NEW c, NEW q, NEW locked, NEW m \in MsgId,
         Claim(c, q, locked, m)
  PROVE  NotAcked
BY DEF Claim, NotAcked, TableTypeOK

LEMMA InitLateInv == LateInit => LateInv
BY InitTableInv, InitDeliveryInv
DEF LateInit, LateInv, LateTypeOK, LateMessages, LateAcksEarned, DoneByAHandler,
    DeliveryInit, DeliveryInv, HandInv, TableInit

-----------------------------------------------------------------------------
(* Steps of Delivery.                                                      *)

(* Where the tasks of the consumers go: only a handler's success leads to  *)
(* an ack, for the message in hand.                                        *)
LEMMA ToAcking ==
  ASSUME HandInv, DeliveryNext, NEW c \in Consumer, pc'[c] = "acking"
  PROVE  /\ pc[c] \in {"acking", "handling"}
         /\ message'[c] = message[c]
<1> USE DEF HandInv, DeliveryTypeOK
<1>1. ASSUME NEW d \in Consumer, ConsumerStep(d) \/ Exit(d) \/ Kill(d)
      PROVE  pc[c] \in {"acking", "handling"} /\ message'[c] = message[c]
  <2>1. CASE \E locked \in Selected(d), m \in MsgId : ClaimMessage(d, locked, m)
    BY <2>1 DEF ClaimMessage, Goto
  <2>2. CASE \/ Loop(d) \/ ClaimNothing(d) \/ StartHandling(d)
             \/ HandlerSucceeds(d) \/ HandlerFails(d) \/ AckMessage(d)
             \/ NackMessage(d) \/ Wake(d) \/ Exit(d)
    BY <2>2 DEF Loop, ClaimNothing, StartHandling, HandlerSucceeds, HandlerFails,
                AckMessage, NackMessage, Wake, Exit, Goto
  <2>3. CASE Finish(d) \/ DatabaseError(d) \/ Kill(d)
    BY <2>3 DEF Finish, DatabaseError, Kill, LetGo, Goto
  <2>4. QED
    BY <1>1, <2>1, <2>2, <2>3 DEF ConsumerStep
<1>2. ASSUME NEW w \in Worker, Crash(w) \/ BeatStart(w) \/ BeatEnd(w)
      PROVE  pc[c] \in {"acking", "handling"} /\ message'[c] = message[c]
  BY <1>2 DEF Crash, BeatStart, BeatEnd, BeatCommit, BeatFail
<1>3. QED
  BY <1>1, <1>2 DEF DeliveryNext, ReaperPass, Background, clientVars

(* Only acks complete messages.                                            *)
LEMMA DeliveryCompletes ==
  ASSUME LateInv, DeliveryNext
  PROVE  CompletedOnlyBy(handled)
<1> USE DEF LateInv, HandInv, DeliveryTypeOK
<1>1. NotAcked => CompletedOnlyBy(handled)
  BY DEF NotAcked, CompletedOnlyBy
<1>2. UNCHANGED tableVars => NotAcked
  BY DEF tableVars, NotAcked
<1>3. ASSUME NEW c \in Consumer, AckMessage(c)
      PROVE  CompletedOnlyBy(handled)
  <2>1. message[c] \in MsgId /\ <<c, message[c]>> \in handled
    BY <1>3, MessageOfAck DEF AckMessage, Involved, Working, LateAcksEarned
  <2>2. CompletedOnlyBy({<<c, message[c]>>})
    BY <1>3, <2>1, AckCompletes DEF AckMessage
  <2>3. QED
    BY <2>1, <2>2 DEF CompletedOnlyBy
<1>4. ASSUME NEW c \in Consumer, ConsumerStep(c) \/ Exit(c) \/ Kill(c)
      PROVE  CompletedOnlyBy(handled)
  <2>1. CASE \E locked \in Selected(c), m \in MsgId : ClaimMessage(c, locked, m)
    BY <1>1, <2>1, ClaimCompletesNothing DEF ClaimMessage
  <2>2. CASE NackMessage(c)
    <3>1. message[c] \in MsgId
      BY <2>2, MessageOfAck DEF NackMessage, Involved, Working
    <3>2. QED
      BY <1>1, <2>2, <3>1, NoResultWithoutAck DEF NackMessage
  <2>3. CASE \/ Loop(c) \/ ClaimNothing(c) \/ StartHandling(c)
             \/ HandlerSucceeds(c) \/ HandlerFails(c) \/ Finish(c)
             \/ DatabaseError(c) \/ Wake(c) \/ Exit(c) \/ Kill(c)
    BY <1>1, <1>2, <2>3 DEF Loop, ClaimNothing, StartHandling, HandlerSucceeds,
       HandlerFails, Finish, DatabaseError, Wake, Exit, Kill
  <2>4. QED
    BY <1>3, <1>4, <2>1, <2>2, <2>3 DEF ConsumerStep
<1>5. ASSUME NEW w \in Worker, Crash(w) \/ BeatStart(w) \/ BeatEnd(w)
      PROVE  CompletedOnlyBy(handled)
  <2>1. CASE BeatCommit(w)
    BY <1>1, <2>1, NoResultWithoutAck DEF BeatCommit
  <2>2. CASE Crash(w) \/ BeatStart(w) \/ BeatFail(w)
    BY <1>1, <1>2, <2>2 DEF Crash, BeatStart, BeatFail
  <2>3. QED
    BY <1>5, <2>1, <2>2 DEF BeatEnd
<1>6. ASSUME NEW locked \in SUBSET LockedByHolders, ReaperPass(locked)
      PROVE  CompletedOnlyBy(handled)
  BY <1>1, <1>6, NoResultWithoutAck DEF ReaperPass, Reaper, LockedByHolders
<1>7. CASE Background
  BY <1>1, <1>7, NoResultWithoutAck DEF Background
<1>8. QED
  BY <1>4, <1>5, <1>6, <1>7 DEF DeliveryNext

(* What every step of Delivery keeps, whoever else goes on with it.        *)
LEMMA DeliveryKeepsTypes ==
  ASSUME LateInv, [DeliveryNext]_vars
  PROVE  TableInv' /\ HandInv' /\ [TableNext]_tableVars
<1>1. [TableNext]_tableVars
  BY StepOfTable DEF LateInv
<1>2. TableInv'
  BY <1>1, StepTableInv DEF LateInv
<1>3. HandInv'
  BY StepDeliveryTypeOK, StepMessageInHand DEF LateInv, HandInv
<1>4. QED
  BY <1>1, <1>2, <1>3

LEMMA OrdinaryKeepsInv ==
  ASSUME LateInv, DeliveryNext, Credit, UNCHANGED late
  PROVE  LateInv'
<1> USE DEF LateInv
<1>1. TableInv' /\ HandInv' /\ [TableNext]_tableVars
  BY DeliveryKeepsTypes
<1>2. handled \subseteq handled' /\ handled' \subseteq Consumer \X MsgId
  <2>1. \A c \in Consumer : pc[c] = "handling" => message[c] \in MsgId
    BY MessageOfAck DEF Involved, Working
  <2>2. QED
    BY <2>1 DEF Credit, LateTypeOK
<1>3. LateTypeOK' /\ LateMessages'
  BY <1>1, <1>2 DEF LateTypeOK, LateMessages, HandInv
<1>4. LateAcksEarned'
  <2>1. ASSUME NEW c \in Consumer, pc'[c] = "acking"
        PROVE  <<c, message'[c]>> \in handled'
    <3>1. pc[c] \in {"acking", "handling"} /\ message'[c] = message[c]
      BY <2>1, ToAcking
    <3>2. CASE pc[c] = "acking"
      BY <1>2, <3>1, <3>2 DEF LateAcksEarned
    <3>3. CASE pc[c] = "handling"
      BY <2>1, <3>1, <3>3 DEF Credit
    <3>4. QED
      BY <3>1, <3>2, <3>3
  <2>2. QED
    BY <1>2, <2>1 DEF LateAcksEarned
<1>5. DoneByAHandler'
  BY <1>1, <1>2, DeliveryCompletes, ResultsStayCredited DEF CompletedOnlyBy
<1>6. QED
  BY <1>1, <1>3, <1>4, <1>5

(* What a consumer leaves behind is an ack it has earned, or no ack.       *)
LEMMA GivingUpKeepsInv ==
  ASSUME LateInv, DeliveryNext, NEW C \in SUBSET Consumer, Survives(C),
         \A c \in Consumer : pc'[c] = "acking" => pc[c] = "acking",
         UNCHANGED handled
  PROVE  LateInv'
<1> USE DEF LateInv
<1>1. TableInv' /\ HandInv' /\ [TableNext]_tableVars
  BY DeliveryKeepsTypes
<1>2. ASSUME NEW s \in late', s \notin late
      PROVE  \E c \in Consumer : pc[c] \in Asking /\ s = <<pc[c], c, message[c]>>
  BY <1>2 DEF Survives, Sent
<1>3. \A c \in Consumer : /\ message[c] \in MsgId \cup {NoMessage}
                          /\ pc[c] \in {"acking", "nacking"} => message[c] \in MsgId
  BY MessageOfAck DEF HandInv, DeliveryTypeOK, Involved, Working
<1>4. LateTypeOK'
  <2>1. late' \subseteq Asking \X Consumer \X (MsgId \cup {NoMessage})
    BY <1>2, <1>3 DEF LateTypeOK
  <2>2. QED
    BY <1>1, <2>1 DEF LateTypeOK, HandInv
<1>5. LateMessages'
  BY <1>2, <1>3 DEF LateMessages
<1>6. LateAcksEarned'
  <2>1. ASSUME NEW c \in Consumer, NEW m \in MsgId, <<"acking", c, m>> \in late'
        PROVE  <<c, m>> \in handled
    BY <1>2, <2>1 DEF LateAcksEarned
  <2>2. ASSUME NEW c \in Consumer, pc'[c] = "acking"
        PROVE  <<c, message'[c]>> \in handled
    BY <2>2, ToAcking DEF LateAcksEarned
  <2>3. QED
    BY <2>1, <2>2 DEF LateAcksEarned
<1>7. DoneByAHandler'
  BY <1>1, DeliveryCompletes, ResultsStayCredited DEF CompletedOnlyBy
<1>8. QED
  BY <1>1, <1>4, <1>5, <1>6, <1>7

-----------------------------------------------------------------------------
(* Steps of the server alone.                                              *)

LEMMA ExecuteLateIsTableStep ==
  ASSUME LateInv, NEW s \in late, ExecuteLate(s)
  PROVE  [TableNext]_tableVars /\ CompletedOnlyBy(handled)
<1> USE DEF LateInv
<1>1. s[1] \in Asking /\ s[2] \in Consumer /\ s = <<s[1], s[2], s[3]>>
  BY DEF LateTypeOK
<1>2. TableTypeOK /\ QueueOf[s[2]] \in Queue
  BY <1>1, DeliveryAssumption DEF TableInv
<1>3. NotAcked => CompletedOnlyBy(handled)
  BY DEF NotAcked, CompletedOnlyBy
<1>4. ASSUME NEW locked \in Selected(s[2]), NEW n \in MsgId,
             Claim(s[2], QueueOf[s[2]], locked, n)
      PROVE  [TableNext]_tableVars /\ CompletedOnlyBy(handled)
  <2>1. locked \in SUBSET MsgId
    BY DEF Selected, Ready
  <2>2. Claimer
    BY <1>1, <1>2, <1>4, <2>1 DEF Claimer
  <2>3. QED
    BY <1>2, <1>3, <1>4, <2>2, ClaimCompletesNothing DEF TableNext
<1>5. CASE s[1] = "acking" /\ Ack(s[2], s[3])
  <2>1. s[3] \in MsgId /\ <<s[2], s[3]>> \in handled
    BY <1>1, <1>5 DEF LateMessages, LateAcksEarned
  <2>2. CompletedOnlyBy({<<s[2], s[3]>>})
    BY <1>1, <1>2, <1>5, <2>1, AckCompletes
  <2>3. QED
    BY <1>1, <1>5, <2>1, <2>2 DEF TableNext, Holder, CompletedOnlyBy
<1>6. CASE s[1] = "nacking" /\ Nack(s[2], s[3])
  <2>1. s[3] \in MsgId
    BY <1>1, <1>6 DEF LateMessages
  <2>2. NotAcked
    BY <1>1, <1>2, <1>6, <2>1, NoResultWithoutAck
  <2>3. QED
    BY <1>1, <1>3, <1>6, <2>1, <2>2 DEF TableNext, Holder
<1>7. QED
  BY <1>4, <1>5, <1>6 DEF ExecuteLate

LEMMA ExecuteLateKeepsInv ==
  ASSUME LateInv, NEW s \in late, ExecuteLate(s)
  PROVE  LateInv'
<1> USE DEF LateInv
<1>1. [TableNext]_tableVars /\ CompletedOnlyBy(handled)
  BY ExecuteLateIsTableStep
<1>2. TableInv'
  BY <1>1, StepTableInv
<1>3. UNCHANGED <<pc, message, beat, handled>> /\ late' \subseteq late
  BY DEF ExecuteLate, clientVars
<1>4. HandInv'
  <2>1. mine' \in [Consumer -> BOOLEAN] /\ succeeded' \in SUBSET MsgId
    BY KeepHistoryTypeOK DEF ExecuteLate, HandInv
  <2>2. QED
    BY <1>2, <1>3, <2>1 DEF HandInv, DeliveryTypeOK, MessageInHand, TableInv
<1>5. LateTypeOK' /\ LateMessages' /\ LateAcksEarned'
  BY <1>3, <1>4 DEF LateTypeOK, LateMessages, LateAcksEarned, HandInv
<1>6. DoneByAHandler'
  BY <1>1, <1>3, ResultsStayCredited
<1>7. QED
  BY <1>2, <1>4, <1>5, <1>6

LEMMA DropKeepsInv ==
  ASSUME LateInv, UNCHANGED <<vars, handled>>, late' \subseteq late
  PROVE  LateInv'
<1>1. [DeliveryNext]_vars
  OBVIOUS
<1>2. TableInv' /\ HandInv' /\ [TableNext]_tableVars
  BY <1>1, DeliveryKeepsTypes
<1>3. UNCHANGED <<status, locked_by, pc, message, handled>>
  BY DEF vars, tableVars, clientVars
<1>4. QED
  BY <1>2, <1>3
  DEF LateInv, LateTypeOK, LateMessages, LateAcksEarned, DoneByAHandler, HandInv

-----------------------------------------------------------------------------
(* The theorem.                                                            *)

LEMMA StepLateInv == LateInv /\ [LateNext]_lateVars => LateInv'
<1> SUFFICES ASSUME LateInv, [LateNext]_lateVars PROVE LateInv'
  OBVIOUS
<1>1. ASSUME NEW c \in Consumer, GiveUp(c)
      PROVE  LateInv'
  <2>1. DeliveryNext
    BY <1>1 DEF GiveUp, DeliveryNext, ConsumerStep
  <2>2. \A d \in Consumer : pc'[d] = "acking" => pc[d] = "acking"
    BY <1>1 DEF GiveUp, DatabaseError, Kill, LetGo, Goto, LateInv, HandInv, DeliveryTypeOK
  <2>3. QED
    BY <1>1, <2>1, <2>2, GivingUpKeepsInv DEF GiveUp
<1>2. ASSUME NEW w \in Worker, CrashLeaving(w)
      PROVE  LateInv'
  <2>1. DeliveryNext
    BY <1>2 DEF CrashLeaving, DeliveryNext
  <2>2. \A d \in Consumer : pc'[d] = "acking" => pc[d] = "acking"
    BY <1>2 DEF CrashLeaving, Crash
  <2>3. QED
    BY <1>2, <2>1, <2>2, GivingUpKeepsInv DEF CrashLeaving, ConsumersOf
<1>3. ASSUME NEW s \in late, ExecuteLate(s) \/ Drop(s)
      PROVE  LateInv'
  BY <1>3, ExecuteLateKeepsInv, DropKeepsInv DEF Drop
<1>4. CASE UNCHANGED lateVars
  BY <1>4, DropKeepsInv DEF lateVars
<1>5. CASE DeliveryNext /\ Credit /\ UNCHANGED late
  BY <1>5, OrdinaryKeepsInv
<1>6. QED
  BY <1>1, <1>2, <1>3, <1>4, <1>5 DEF LateNext

(* Whatever is executed late: a done message names a consumer whose        *)
(* handler succeeded for its id.                                           *)
THEOREM DoneByAHandlerHolds == LateSpec => []DoneByAHandler
<1>1. LateInv => DoneByAHandler
  BY DEF LateInv
<1>2. QED
  BY InitLateInv, StepLateInv, <1>1, PTL DEF LateSpec

(* The statements that survive their clients, and the record of what was   *)
(* handled, keep their types, as everything they are executed on does.     *)
THEOREM LateTypeCorrect == LateSpec => []LateTypeOK
<1>1. LateInv => LateTypeOK
  BY DEF LateInv
<1>2. QED
  BY InitLateInv, StepLateInv, <1>1, PTL DEF LateSpec
=============================================================================
