-------------------------- MODULE LeaseTimingProofs --------------------------
(***************************************************************************)
(* Proofs about LeaseTiming, for all settings that fit.  The invariant     *)
(* says how much time is left until the heartbeat loop commits again: what *)
(* has gone by since the last renewal and what is left until the next one  *)
(* are together less than a lease's life.                                  *)
(***************************************************************************)
EXTENDS LeaseTiming, TLAPS

(* Time the failures still allowed may cost.                               *)
Spare(f) == (MaxFailures - f) * Round

(* Time until the heartbeat loop's next commit; `counts` says whether the  *)
(* one under way refreshes what is asked about.                            *)
UntilCommit(counts) ==
  CASE beat["heartbeat"] = "off" ->
         HeartbeatInterval - beat_age["heartbeat"] + BeatTime
    [] beat["heartbeat"] \in {"collected", "begun"} /\ counts ->
         BeatTime - beat_age["heartbeat"]
    [] OTHER -> BeatTime - beat_age["heartbeat"] + HeartbeatInterval + BeatTime

BeatClocks ==
  /\ \A b \in Beater :
       /\ beat[b] = "off" => carries[b] = "worker"
       /\ beat[b] # "off" => beat_age[b] <= BeatTime
       /\ beat[b] \in {"begun", "committed"} => begin_age[b] <= beat_age[b]
       /\ worker # "running" => beat[b] = "off"
  /\ beat["heartbeat"] = "off" /\ worker = "running" =>
       beat_age["heartbeat"] <= HeartbeatInterval

Places ==
  /\ consumer \in {"loop", "claiming"} => lease \in {"none", "left"}
  /\ consumer = "over" /\ Alive => lease \in {"none", "left"}
  /\ worker \in {"closed", "crashed"} => consumer = "over"

(* Just claimed; being worked on while heartbeats come; and at the end.    *)
LeaseAges ==
  /\ consumer = "granted" =>
       claim_age <= ClaimTime /\ lease_age <= claim_age + BeatTime
  /\ consumer = "working" /\ worker = "running" =>
       lease_age + UntilCommit(carries["heartbeat"] = "lease") + Spare(failures) <= RenewedBy
  /\ worker = "unwinding" => closing_age <= UnwindTime
  /\ worker = "closing" => closing_age <= Grace
  /\ consumer \in Holding /\ worker = "unwinding" =>
       lease_age <= RenewedBy + closing_age
  /\ consumer \in Holding /\ worker = "closing" =>
       lease_age <= RenewedBy + UnwindTime + closing_age

RowAge ==
  worker = "running" =>
    row_age + UntilCommit(TRUE) + Spare(failures) <= RefreshedBy

(* A heartbeat under way that lists the consumer without the lease has     *)
(* collected before the claim was answered; one that lists the lease too   *)
(* has collected before the lease could have become too old.               *)
Uncovered ==
  \A b \in Beater :
    beat[b] \in {"collected", "begun"} /\ lease = "held" =>
      /\ carries[b] = "consumer" => lease_age <= ClaimTime + BeatTime + beat_age[b]
      /\ carries[b] = "lease" => lease_age <= RenewedBy + beat_age[b]

(* A heartbeat under way leaves out a consumer that has ended only; and by *)
(* the time its message is reaped, every one of them does.                 *)
Silent ==
  /\ \A b \in Beater : beat[b] \in {"collected", "begun"} /\ carries[b] = "worker" =>
       consumer \in {"killed", "over"}
  /\ lease = "reaped" =>
       /\ consumer \in {"killed", "over"}
       /\ \A b \in Beater : beat[b] \in {"collected", "begun"} => carries[b] = "worker"

RowFollowsLease ==
  /\ lease = "held" => lease_age <= seen_age + ClaimTime + 2 * BeatTime
  /\ lease = "reaped" /\ worker # "closed" => seen_age >= LostAfter

TimingInv ==
  /\ TypeOK
  /\ BeatClocks
  /\ Places
  /\ NotRobbed
  /\ LeaseAges
  /\ RowAge
  /\ Uncovered
  /\ Silent
  /\ RowFollowsLease

-----------------------------------------------------------------------------
(* Arithmetic: the two products, and what each failure takes away.         *)
LEMMA Constants ==
  /\ Round \in Nat
  /\ Round = BeatTime + HeartbeatInterval
  /\ MaxFailures * Round \in Nat
  /\ RenewedBy = ClaimTime + 2 * BeatTime + Round + MaxFailures * Round
  /\ RefreshedBy = 2 * BeatTime + Round + MaxFailures * Round
  /\ RenewedBy + BeatTime <= VisibilityTimeout
  <1>1. Round \in Nat /\ Round = BeatTime + HeartbeatInterval
    BY TimingAssumption DEF Round
  <1>2. ASSUME NEW m \in Nat, NEW r \in Nat PROVE m * r \in Nat
    OBVIOUS
  <1>3. MaxFailures * Round \in Nat
    BY <1>1, <1>2, TimingAssumption
  <1>4. RenewedBy + BeatTime <= VisibilityTimeout
    BY <1>1, <1>3, SettingsFit, TimingAssumption DEF RenewedBy, RefreshedBy
  <1> QED
    BY <1>1, <1>3, <1>4 DEF RenewedBy, RefreshedBy

LEMMA SpareIs ==
  ASSUME NEW f \in 0..MaxFailures
  PROVE  /\ Spare(f) \in Nat
         /\ Spare(f) <= MaxFailures * Round
         /\ Spare(0) = MaxFailures * Round
         /\ f < MaxFailures => Spare(f + 1) = Spare(f) - Round
  <1>1. ASSUME NEW m \in Nat, NEW r \in Nat, NEW k \in 0..m
        PROVE  /\ (m - k) * r \in Nat
               /\ (m - k) * r = m * r - k * r
               /\ k * r \in Nat
               /\ (m - 0) * r = m * r
               /\ (m - (k + 1)) * r = (m - k) * r - r
    <2>1. m - k \in Nat
      OBVIOUS
    <2>2. ASSUME NEW x \in Nat, NEW y \in Nat PROVE x * y \in Nat
      OBVIOUS
    <2>3. (m - k) * r \in Nat /\ k * r \in Nat
      BY <2>1, <2>2
    <2> QED
      BY <2>3
  <1> QED
    BY <1>1, Constants, TimingAssumption DEF Spare

-----------------------------------------------------------------------------
(* Every step keeps the invariant.                                         *)
LEMMA InitTiming == Init => TimingInv
  BY Constants, SpareIs, TimingAssumption, SettingsFit
  DEF Init, TimingInv, TypeOK, BeatClocks, Places, NotRobbed, LeaseAges, RowAge,
      Uncovered, Silent, RowFollowsLease, UntilCommit, Holding, UnderWay, Beater, Alive

LEMMA NextTiming == TimingInv /\ [Next]_vars => TimingInv'
  <1> SUFFICES ASSUME TimingInv, [Next]_vars PROVE TimingInv'
    OBVIOUS
  <1> USE Constants, SpareIs, TimingAssumption, SettingsFit
      DEF TimingInv, TypeOK, BeatClocks, Places, NotRobbed, LeaseAges, RowAge,
          Uncovered, Silent, RowFollowsLease, UntilCommit, Holding, UnderWay, Beater,
          Alive,
          closeVars, consumerVars, rowVars, beatVars
  <1>1. ASSUME Ask PROVE TimingInv'
    BY <1>1 DEF Ask
  <1>2. ASSUME Exit PROVE TimingInv'
    BY <1>2 DEF Exit
  <1>3. ASSUME ClaimNothing PROVE TimingInv'
    BY <1>3 DEF ClaimNothing
  <1>4. ASSUME StartHandling PROVE TimingInv'
    BY <1>4 DEF StartHandling
  <1>5. ASSUME Settle PROVE TimingInv'
    BY <1>5 DEF Settle
  <1>6. ASSUME Reap PROVE TimingInv'
    BY <1>6 DEF Reap
  <1>7. ASSUME Sigterm PROVE TimingInv'
    BY <1>7 DEF Sigterm, Silence
  <1>8. ASSUME StopAll PROVE TimingInv'
    BY <1>8 DEF StopAll
  <1>9. ASSUME Closed PROVE TimingInv'
    BY <1>9 DEF Closed, CutOff, LetGo
  <1>10. ASSUME Crash PROVE TimingInv'
    BY <1>10 DEF Crash, Silence, CutOff, LetGo
  <1>11. ASSUME Tick PROVE TimingInv'
    BY <1>11 DEF Tick, AnswersInTime, BeatsInTime, ClosesInTime
  <1>12. ASSUME Gone PROVE TimingInv'
    BY <1>12 DEF Gone, vars
  <1>13. ASSUME NEW same \in BOOLEAN, Claim(same) PROVE TimingInv'
    BY <1>13 DEF Claim
  <1>14. ASSUME NEW b \in Beater, BeatCollect(b) PROVE TimingInv'
    <2>1. CASE consumer = "working"
      <3>1. carries' = [carries EXCEPT ![b] = "lease"]
        BY <1>14, <2>1 DEF BeatCollect, Collected
      <3> QED
        BY <1>14, <2>1, <3>1 DEF BeatCollect, To
    <2>2. CASE consumer \in {"over", "killed"}
      <3>1. carries' = [carries EXCEPT ![b] = "worker"]
        BY <1>14, <2>2 DEF BeatCollect, Collected
      <3> QED
        BY <1>14, <2>2, <3>1 DEF BeatCollect, To
    <2>3. CASE consumer \in {"loop", "claiming", "granted"}
      <3>1. carries' = [carries EXCEPT ![b] = "consumer"]
        BY <1>14, <2>3 DEF BeatCollect, Collected
      <3> QED
        BY <1>14, <2>3, <3>1 DEF BeatCollect, To
    <2> QED
      BY <2>1, <2>2, <2>3
  <1>15. ASSUME NEW b \in Beater, BeatBegin(b) PROVE TimingInv'
    BY <1>15 DEF BeatBegin, To
  <1>16. ASSUME NEW b \in Beater, BeatCommit(b) PROVE TimingInv'
    <2>1. CASE carries[b] = "worker"
      BY <1>16, <2>1 DEF BeatCommit, To, Now, Renew
    <2>2. CASE carries[b] = "consumer"
      BY <1>16, <2>2 DEF BeatCommit, To, Now, Renew
    <2>3. CASE carries[b] = "lease"
      BY <1>16, <2>3 DEF BeatCommit, To, Now, Renew
    <2> QED
      BY <2>1, <2>2, <2>3
  <1>17. ASSUME NEW b \in Beater, BeatReply(b) PROVE TimingInv'
    BY <1>17 DEF BeatReply, Rest, To
  <1>18. ASSUME NEW b \in Beater, BeatFail(b) PROVE TimingInv'
    BY <1>18 DEF BeatFail, Rest, To
  <1>19. ASSUME UNCHANGED vars PROVE TimingInv'
    BY <1>19 DEF vars
  <1>20. ASSUME ReplyLost PROVE TimingInv'
    BY <1>20 DEF ReplyLost, LetGo
  <1>21. ASSUME SettleFails PROVE TimingInv'
    BY <1>21 DEF SettleFails, LetGo
  <1>22. ASSUME Kill PROVE TimingInv'
    BY <1>22 DEF Kill, CutOff, LetGo
  <1> HIDE DEF TimingInv
  <1> QED
    BY <1>1, <1>2, <1>3, <1>4, <1>5, <1>6, <1>7, <1>8, <1>9, <1>10, <1>11,
       <1>12, <1>13, <1>14, <1>15, <1>16, <1>17, <1>18, <1>19,
       <1>20, <1>21, <1>22 DEF Next

-----------------------------------------------------------------------------
(* The results.                                                            *)
LEMMA TimingInvariant == Spec => []TimingInv
  BY InitTiming, NextTiming, PTL DEF Spec

(* Clocks, heartbeats and places keep their types.                         *)
THEOREM TimingTypeCorrect == Spec => []TypeOK
  <1>1. TimingInv => TypeOK
    BY DEF TimingInv
  <1> QED
    BY <1>1, TimingInvariant, PTL

(* Whenever claims and heartbeats are answered in time and the settings    *)
(* fit, no living consumer loses its lease, not even during the shutdown   *)
(* of its worker (worker.py:60-105).                                       *)
THEOREM LivingConsumersKeepLeases == Spec => []NotRobbed
  <1>1. TimingInv => NotRobbed
    BY DEF TimingInv
  <1> QED
    BY <1>1, TimingInvariant, PTL

(* A worker whose loop runs is not shown as lost (web.py:58), as long as   *)
(* at most MaxFailures heartbeats fail in a row.                           *)
THEOREM RunningWorkersShown == Spec => []NotShownLost
  <1>1. TimingInv => NotShownLost
    <2> SUFFICES ASSUME TimingInv, worker = "running" PROVE row_age < LostAfter
      BY TimingAssumption DEF NotShownLost, Lost, TimingInv, TypeOK
    <2>1. beat["heartbeat"] # "off" => beat_age["heartbeat"] <= BeatTime
      BY DEF TimingInv, BeatClocks, Beater
    <2>2. UntilCommit(TRUE) >= 0 /\ UntilCommit(TRUE) \in Int
      BY <2>1, TimingAssumption
      DEF TimingInv, TypeOK, BeatClocks, UntilCommit, Beater, UnderWay
    <2>3. Spare(failures) \in Nat
      BY SpareIs DEF TimingInv, TypeOK
    <2>4. row_age + UntilCommit(TRUE) + Spare(failures) <= RefreshedBy
      BY DEF TimingInv, RowAge
    <2>5. row_age \in Nat /\ RefreshedBy \in Nat /\ RefreshedBy < LostAfter
      BY Constants, SettingsFit, TimingAssumption DEF TimingInv, TypeOK
    <2>6. ASSUME NEW left \in Int, left >= 0, NEW spare \in Nat,
                 row_age + left + spare <= RefreshedBy
          PROVE  row_age < LostAfter
      BY <2>5, <2>6, TimingAssumption
    <2> QED
      BY <2>2, <2>3, <2>4, <2>6
  <1> QED
    BY <1>1, TimingInvariant, PTL

(* A consumer that died with a message in hand, killed or with its worker, *)
(* is shown as lost (workers.html:40) before the message is taken back.    *)
THEOREM LossIsNoticedFirst == Spec => []NoticedFirst
  <1>1. TimingInv => NoticedFirst
    BY DEF TimingInv, RowFollowsLease, NoticedFirst, Lost
  <1> QED
    BY <1>1, TimingInvariant, PTL
=============================================================================
