----------------------------- MODULE LeaseTiming -----------------------------
(***************************************************************************)
(* Leases in real time: one consumer and its worker, whose heartbeats      *)
(* renew the lease of the message in hand (app/worker.py, app/broker/      *)
(* registry.py), and the reaper that takes it back (app/reaper.py), with   *)
(* the settings of app/config.py.                                          *)
(*                                                                         *)
(* now() is the time at which a transaction begins, so what a heartbeat    *)
(* writes is already as old as the transaction when it commits; heartbeats *)
(* of several tasks overlap, and the one that commits last may be the one  *)
(* that began first.  A heartbeat renews what was in hand when it          *)
(* collected.                                                              *)
(*                                                                         *)
(* A consumer lets go of a message when its ack or nack fails, or the      *)
(* answer to its claim is lost: the row stays 'processing', nobody renews  *)
(* it, and it is taken back while the consumer goes on.  Such a lease is   *)
(* "left", and its age is not followed any further (Delivery follows the   *)
(* message).                                                               *)
(*                                                                         *)
(* A variable whose name ends in _age is a clock: Tick advances it, and    *)
(* Tick waits for what has a deadline.                                     *)
(***************************************************************************)
EXTENDS Integers

CONSTANTS
  HeartbeatInterval,   \* HEARTBEAT_INTERVAL_S
  VisibilityTimeout,   \* VISIBILITY_TIMEOUT_S
  Grace,               \* grace_s of stop_all
  LostAfter,           \* WORKER_LOST_AFTER_S
  ClaimTime,           \* a claim is answered within this time
  BeatTime,            \* a heartbeat is over within this time
  UnwindTime,          \* cancelled loops have ended within this time
  MaxFailures,         \* heartbeats of the loop that fail in a row
  OtherBeater,         \* tasks that call _beat besides the heartbeat loop
  MaxAge               \* bound: time after which a silent worker is not followed

(* What a lost heartbeat costs, and the age a lease can reach in between.  *)
Round       == BeatTime + HeartbeatInterval
RenewedBy   == ClaimTime + 2 * BeatTime + Round + MaxFailures * Round
RefreshedBy == 2 * BeatTime + Round + MaxFailures * Round

ASSUME TimingAssumption ==
  /\ HeartbeatInterval \in Nat /\ VisibilityTimeout \in Nat
  /\ Grace \in Nat /\ LostAfter \in Nat /\ MaxAge \in Nat
  /\ ClaimTime \in Nat /\ BeatTime \in Nat /\ UnwindTime \in Nat
  /\ MaxFailures \in Nat
  /\ "heartbeat" \notin OtherBeater

(* The settings fit each other and the database.                           *)
ASSUME SettingsFit ==
  /\ RenewedBy + UnwindTime + Grace <= VisibilityTimeout
  /\ RefreshedBy < LostAfter
  /\ LostAfter + ClaimTime + 2 * BeatTime <= VisibilityTimeout + 1

Beater == {"heartbeat"} \cup OtherBeater

VARIABLES
  worker,       \* how far main and close() have come
  closing_age,  \* since the present stage of close() began
  consumer,     \* where the consumer's task is
  claim_age,    \* since the claim that is being answered
  lease,        \* what has become of the lease of its last claim
  lease_age,    \* since locked_at
  row_age,      \* since heartbeat_at of the worker's row
  seen_age,     \* since heartbeat_at of the consumer's row
  beat,         \* the heartbeat of each task
  beat_age,     \* since it collected, or since the loop went to sleep
  begin_age,    \* since its transaction began
  carries,      \* what it has collected: with the worker the consumer, and its lease
  failures      \* heartbeats of the loop that have failed in a row

closeVars    == <<worker, closing_age>>
consumerVars == <<consumer, claim_age>>
rowVars      == <<lease, lease_age, row_age, seen_age>>
beatVars     == <<beat, beat_age, begin_age, carries, failures>>
vars == <<closeVars, consumerVars, rowVars, beatVars>>

Holding == {"granted", "working"}
UnderWay == {"collected", "begun", "committed"}

TypeOK ==
  /\ worker \in {"running", "unwinding", "closing", "closed", "crashed"}
  /\ consumer \in {"loop", "claiming", "granted", "working", "over", "killed"}
  /\ lease \in {"none", "held", "left", "reaped"}
  /\ closing_age \in Nat /\ claim_age \in Nat
  /\ lease_age \in Nat /\ row_age \in Nat /\ seen_age \in Nat
  /\ beat \in [Beater -> UnderWay \cup {"off"}]
  /\ beat_age \in [Beater -> Nat]
  /\ begin_age \in [Beater -> Nat]
  /\ carries \in [Beater -> {"worker", "consumer", "lease"}]
  /\ failures \in 0..MaxFailures

(* start() has created the loop, and start_consumers has sent the first    *)
(* heartbeat that lists the consumer.                                      *)
Init ==
  /\ worker = "running"
  /\ closing_age = 0
  /\ consumer = "loop"
  /\ claim_age = 0
  /\ lease = "none"
  /\ lease_age = 0
  /\ row_age \in 0..BeatTime
  /\ seen_age = row_age
  /\ beat = [b \in Beater |-> "off"]
  /\ beat_age = [b \in Beater |-> 0]
  /\ begin_age = [b \in Beater |-> 0]
  /\ carries = [b \in Beater |-> "worker"]
  /\ failures = 0

-----------------------------------------------------------------------------
(* The consumer (in detail in Delivery).                                   *)

Alive == worker \in {"running", "unwinding", "closing"}

(* `while not self.stopping`: the flag is set when closing begins.         *)
Ask ==
  /\ consumer = "loop"
  /\ worker \in {"running", "unwinding"}
  /\ consumer' = "claiming"
  /\ UNCHANGED <<closeVars, claim_age, rowVars, beatVars>>

(* Told to stop, by a command or by stop_all.                              *)
Exit ==
  /\ consumer = "loop"
  /\ Alive
  /\ consumer' = "over"
  /\ UNCHANGED <<closeVars, claim_age, rowVars, beatVars>>

(* The claim's statement.  It may return the very message that a heartbeat *)
(* under way has collected (`same`), given back in the meantime.           *)
Claim(same) ==
  /\ consumer = "claiming"
  /\ consumer' = "granted"
  /\ claim_age' = 0
  /\ lease' = "held"
  /\ lease_age' = 0
  /\ carries' = [b \in Beater |->
       IF carries[b] = "lease" /\ ~same THEN "consumer" ELSE carries[b]]
  /\ UNCHANGED <<closeVars, row_age, seen_age, beat, beat_age, begin_age, failures>>

(* No message, or no answer because the statement failed.                  *)
ClaimNothing ==
  /\ consumer = "claiming"
  /\ consumer' = "loop"
  /\ UNCHANGED <<closeVars, claim_age, rowVars, beatVars>>

(* The row stays 'processing' for the consumer, which has forgotten it.    *)
LetGo ==
  /\ lease' = "left"
  /\ lease_age' = 0

(* The claim took place, and its answer is lost.                           *)
ReplyLost ==
  /\ consumer = "granted"
  /\ consumer' = "loop"
  /\ LetGo
  /\ UNCHANGED <<closeVars, claim_age, row_age, seen_age, beatVars>>

StartHandling ==
  /\ consumer = "granted"
  /\ consumer' = "working"
  /\ UNCHANGED <<closeVars, claim_age, rowVars, beatVars>>

(* The ack or nack has taken place, whether or not its answer arrives.     *)
Settle ==
  /\ consumer = "working"
  /\ consumer' = "loop"
  /\ lease' = "none"
  /\ lease_age' = 0
  /\ UNCHANGED <<closeVars, claim_age, row_age, seen_age, beatVars>>

(* It has failed: the consumer forgets the message and goes on.            *)
SettleFails ==
  /\ consumer = "working"
  /\ consumer' = "loop"
  /\ LetGo
  /\ UNCHANGED <<closeVars, claim_age, row_age, seen_age, beatVars>>

(* The task is cancelled; a claim under way may be executed all the same.  *)
CutOff ==
  \/ UNCHANGED <<lease, lease_age>>
  \/ consumer = "claiming" /\ LetGo

(* kill_consumer.                                                          *)
Kill ==
  /\ worker = "running"
  /\ consumer \in {"loop", "claiming"} \cup Holding
  /\ consumer' = "killed"
  /\ CutOff
  /\ UNCHANGED <<closeVars, claim_age, row_age, seen_age, beatVars>>

-----------------------------------------------------------------------------
(* Heartbeats: _heartbeat_loop and _beat.                                  *)

To(b, place) == beat' = [beat EXCEPT ![b] = place]

Collected ==
  CASE consumer \in {"over", "killed"} -> "worker"
    [] consumer = "working"           -> "lease"
    [] OTHER                          -> "consumer"

(* The loop has slept for its interval; the other tasks beat when asked.   *)
BeatCollect(b) ==
  /\ worker = "running"
  /\ beat[b] = "off"
  /\ b = "heartbeat" => beat_age[b] = HeartbeatInterval
  /\ To(b, "collected")
  /\ beat_age' = [beat_age EXCEPT ![b] = 0]
  /\ carries' = [carries EXCEPT ![b] = Collected]
  /\ UNCHANGED <<closeVars, consumerVars, rowVars, begin_age, failures>>

BeatBegin(b) ==
  /\ beat[b] = "collected"
  /\ To(b, "begun")
  /\ begin_age' = [begin_age EXCEPT ![b] = 0]
  /\ UNCHANGED <<closeVars, consumerVars, rowVars, beat_age, carries, failures>>

(* The age of what a transaction writes as now(), when it commits.         *)
Now(b) == begin_age[b]

(* RENEW_LEASE_SQL: the row is still processing for the consumer.          *)
Renew(b) ==
  lease_age' = IF carries[b] = "lease" /\ lease = "held" THEN Now(b) ELSE lease_age

(* mutant: a worker that holds nothing is not refreshed.                   *)
BeatCommitLeases(b) ==
  /\ beat[b] = "begun"
  /\ To(b, "committed")
  /\ row_age' = IF carries[b] = "lease" THEN Now(b) ELSE row_age
  /\ seen_age' = IF carries[b] # "worker" THEN Now(b) ELSE seen_age
  /\ Renew(b)
  /\ failures' = IF b = "heartbeat" THEN 0 ELSE failures
  /\ UNCHANGED <<closeVars, consumerVars, lease, beat_age, begin_age, carries>>

(* WORKER_HEARTBEAT_SQL, CONSUMER_HEARTBEAT_SQL and RENEW_LEASE_SQL in one *)
(* transaction.                                                            *)
BeatCommit(b) ==
  /\ beat[b] = "begun"
  /\ To(b, "committed")
  /\ row_age' = Now(b)
  /\ seen_age' = IF carries[b] # "worker" THEN Now(b) ELSE seen_age
  /\ Renew(b)
  /\ failures' = IF b = "heartbeat" THEN 0 ELSE failures
  /\ UNCHANGED <<closeVars, consumerVars, lease, beat_age, begin_age, carries>>

Rest(b) ==      \* the loop goes back to sleep
  /\ To(b, "off")
  /\ beat_age' = [beat_age EXCEPT ![b] = 0]
  /\ begin_age' = [begin_age EXCEPT ![b] = 0]
  /\ carries' = [carries EXCEPT ![b] = "worker"]

BeatReply(b) ==
  /\ beat[b] = "committed"
  /\ Rest(b)
  /\ UNCHANGED <<closeVars, consumerVars, rowVars, failures>>

(* psycopg.Error: logged by the loop, and nothing has been written.        *)
BeatFail(b) ==
  /\ beat[b] \in {"collected", "begun"}
  /\ b = "heartbeat" => failures < MaxFailures
  /\ Rest(b)
  /\ failures' = IF b = "heartbeat" THEN failures + 1 ELSE failures
  /\ UNCHANGED <<closeVars, consumerVars, rowVars>>

-----------------------------------------------------------------------------
(* The reaper of any process; the end of the worker.                       *)

(* mutant: the reaper counts missed heartbeats.                            *)
ReapAfterHeartbeats ==
  /\ lease = "held"
  /\ lease_age > 3 * HeartbeatInterval
  /\ lease' = "reaped"
  /\ UNCHANGED <<closeVars, consumerVars, lease_age, row_age, seen_age, beatVars>>

Reap ==
  /\ lease = "held"
  /\ lease_age > VisibilityTimeout
  /\ lease' = "reaped"
  /\ UNCHANGED <<closeVars, consumerVars, lease_age, row_age, seen_age, beatVars>>

Silence ==      \* no task sends heartbeats any more
  /\ beat' = [b \in Beater |-> "off"]
  /\ beat_age' = [b \in Beater |-> 0]
  /\ begin_age' = [b \in Beater |-> 0]
  /\ carries' = [b \in Beater |-> "worker"]
  /\ UNCHANGED failures

(* close(): the loops are cancelled and awaited ...                        *)
Sigterm ==
  /\ worker = "running"
  /\ worker' = "unwinding"
  /\ closing_age' = 0
  /\ Silence
  /\ UNCHANGED <<consumerVars, rowVars>>

(* ... stop_all tells the consumers to stop ...                            *)
StopAll ==
  /\ worker = "unwinding"
  /\ worker' = "closing"
  /\ closing_age' = 0
  /\ UNCHANGED <<consumerVars, rowVars, beatVars>>

(* ... and cancels those that are busy when the grace is over.             *)
Closed ==
  /\ worker = "closing"
  /\ consumer \in {"over", "killed"} \/ closing_age = Grace
  /\ worker' = "closed"
  /\ consumer' = "over"
  /\ CutOff
  /\ UNCHANGED <<closing_age, claim_age, row_age, seen_age, beatVars>>

(* The whole process dies.                                                 *)
Crash ==
  /\ Alive
  /\ worker' = "crashed"
  /\ consumer' = "over"
  /\ CutOff
  /\ Silence
  /\ UNCHANGED <<closing_age, claim_age, row_age, seen_age>>

-----------------------------------------------------------------------------
(* Time, and what it waits for.                                            *)

AnswersInTime == consumer = "granted" => claim_age < ClaimTime

BeatsInTime ==
  /\ \A b \in Beater : beat[b] # "off" => beat_age[b] < BeatTime
  /\ worker = "running" /\ beat["heartbeat"] = "off" =>
       beat_age["heartbeat"] < HeartbeatInterval

(* mutant: asyncio.wait without its timeout.                               *)
UnwindsInTime == worker = "unwinding" => closing_age < UnwindTime

ClosesInTime ==
  /\ worker = "unwinding" => closing_age < UnwindTime
  /\ worker = "closing" => closing_age < Grace

Tick ==
  /\ AnswersInTime
  /\ BeatsInTime
  /\ ClosesInTime
  /\ row_age < MaxAge /\ seen_age < MaxAge
  /\ row_age' = row_age + 1
  /\ seen_age' = seen_age + 1
  /\ lease_age' = IF lease = "held" THEN lease_age + 1 ELSE lease_age
  /\ claim_age' = IF consumer = "granted" THEN claim_age + 1 ELSE claim_age
  /\ closing_age' =
       IF worker \in {"unwinding", "closing"} THEN closing_age + 1 ELSE closing_age
  /\ beat_age' = [b \in Beater |->
       IF beat[b] # "off" \/ (worker = "running" /\ b = "heartbeat")
       THEN beat_age[b] + 1 ELSE beat_age[b]]
  /\ begin_age' = [b \in Beater |->
       IF beat[b] \in {"begun", "committed"} THEN begin_age[b] + 1 ELSE begin_age[b]]
  /\ UNCHANGED <<worker, consumer, lease, beat, carries, failures>>

(* Nobody is left whose time would matter.                                 *)
Gone == worker \in {"closed", "crashed"} /\ UNCHANGED vars

Next ==
  \/ Ask \/ Exit \/ ClaimNothing \/ ReplyLost \/ StartHandling
  \/ Settle \/ SettleFails \/ Kill
  \/ \E same \in BOOLEAN : Claim(same)
  \/ \E b \in Beater :
       BeatCollect(b) \/ BeatBegin(b) \/ BeatCommit(b) \/ BeatReply(b) \/ BeatFail(b)
  \/ Reap \/ Sigterm \/ StopAll \/ Closed \/ Crash
  \/ Tick \/ Gone

Spec == Init /\ [][Next]_vars

(* What the workers page makes of a heartbeat_at.                          *)
Lost(age) == age >= LostAfter

-----------------------------------------------------------------------------
(* Properties.                                                             *)

(* A consumer that lives is not robbed of its message: from the claim to   *)
(* the end of the ack, and through an orderly shutdown, whose grace is     *)
(* spent without heartbeats (worker.py:60-70, 105-114), no reaper finds    *)
(* its lease expired.  This is what keeps a slow handler from being run    *)
(* twice.                                                                  *)
NotRobbed == consumer \in Holding => lease = "held"

(* A worker that runs is never shown as lost (web.py:58), although its     *)
(* heartbeats are slow, overlap, overwrite each other and sometimes fail.  *)
NotShownLost == worker = "running" => ~Lost(row_age)

(* Before a message is taken back from a consumer that died with it, the   *)
(* workers page shows that consumer as lost (workers.html:40), whether it  *)
(* was killed in a worker that goes on or died with its worker, and even   *)
(* if the last heartbeat that listed it had not yet collected the message. *)
(* It does not hold of a message its consumer has let go of: that one is   *)
(* taken back while the consumer and its worker are shown alive.           *)
NoticedFirst == lease = "reaped" /\ worker # "closed" => Lost(seen_age)
=============================================================================
