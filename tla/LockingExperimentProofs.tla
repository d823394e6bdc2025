----------------------- MODULE LockingExperimentProofs -----------------------
(***************************************************************************)
(* Proofs about LockingExperiment, for every number of jobs and consumers. *)
(***************************************************************************)
EXTENDS LockingExperiment, TLAPS

-----------------------------------------------------------------------------
(* The inductive invariant.                                                *)

(* A row is locked by one transaction at most.                             *)
LocksExclude ==
  \A c, d \in Consumer : \A j \in Job : j \in held[c] /\ j \in held[d] => c = d

(* Who works has a job.  Under a locking clause its row is locked, and is  *)
(* still pending; who is about to commit has locked it in every mode.      *)
JobInHand ==
  \A c \in Consumer :
    pc[c] \in Busy =>
      /\ job[c] \in Job
      /\ Locking \/ pc[c] = "committing" => job[c] \in held[c]
      /\ Locking => job[c] \notin done

(* FOR UPDATE passes over no pending row: a query has all of them ahead of *)
(* it, and who works has the first.                                        *)
FirstPending ==
  mode = "for_update" =>
    \A c \in Consumer, j \in Job \ done :
      /\ pc[c] = "selecting" => j \in rows[c]
      /\ pc[c] \in Busy => job[c] <= j

(* A consumer ends because every job is done, or because of an abort.      *)
EndsExplained ==
  \A c \in Consumer :
    /\ pc[c] = "returned" => Job \subseteq done
    /\ pc[c] = "cancelled" => aborted

ExperimentInv ==
  /\ TypeOK
  /\ LocksExclude
  /\ JobInHand
  /\ FirstPending
  /\ EndsExplained
  /\ ExecutionsMatchResults
  /\ FinishedIsComplete

LEMMA InitInv == Init => ExperimentInv
<1> SUFFICES ASSUME Init  PROVE ExperimentInv
  OBVIOUS
<1>1. TypeOK
  <2>1. aborted \in BOOLEAN
    BY DEF Init
  <2>2. /\ mode \in Modes
        /\ run \in {"running", "finished", "failed", "interrupted"}
        /\ done \in SUBSET Job
        /\ executions \in [Job -> Nat]
    BY DEF Init
  <2>3. /\ pc \in [Consumer -> Place]
        /\ rows \in [Consumer -> SUBSET Job]
        /\ held \in [Consumer -> SUBSET Job]
        /\ job \in [Consumer -> Job \cup {NoJob}]
    BY DEF Init, Place
  <2>4. QED
    BY <2>1, <2>2, <2>3 DEF TypeOK
<1>2. LocksExclude /\ JobInHand /\ FirstPending /\ EndsExplained
  BY DEF Init, LocksExclude, JobInHand, FirstPending, EndsExplained, Busy
<1>3. ExecutionsMatchResults /\ FinishedIsComplete
  BY DEF Init, ExecutionsMatchResults, FinishedIsComplete
<1>4. QED
  BY <1>1, <1>2, <1>3 DEF ExperimentInv

(* A consumer that locks or commits a job has one in hand.                 *)
LEMMA TypeOKStep ==
  ASSUME TypeOK, JobInHand, [Next]_vars
  PROVE  TypeOK'
<1> USE DEF TypeOK, JobInHand, Place, Busy, Ended
<1>1. ASSUME NEW c \in Consumer, Begin(c)  PROVE TypeOK'
  BY <1>1 DEF Begin
<1>2. ASSUME NEW c \in Consumer, NEW j \in Job, Select(c, j)  PROVE TypeOK'
  BY <1>2 DEF Select, Return
<1>3. ASSUME NEW c \in Consumer, NEW j \in Job, Lock(c, j)  PROVE TypeOK'
  BY <1>3 DEF Lock, Return
<1>4. ASSUME NEW c \in Consumer, NEW j \in Job, Skip(c, j)  PROVE TypeOK'
  BY <1>4 DEF Skip
<1>5. ASSUME NEW c \in Consumer, NoRow(c)  PROVE TypeOK'
  BY <1>5 DEF NoRow, EndTransaction
<1>6. ASSUME NEW c \in Consumer, Work(c)  PROVE TypeOK'
  BY <1>6 DEF Work
<1>7. ASSUME NEW c \in Consumer, Complete(c)  PROVE TypeOK'
  BY <1>7 DEF Complete
<1>8. ASSUME NEW c \in Consumer, Commit(c)  PROVE TypeOK'
  BY <1>8 DEF Commit, EndTransaction
<1>9. ASSUME NEW c \in Consumer, Check(c)  PROVE TypeOK'
  BY <1>9 DEF Check
<1>10. ASSUME NEW c \in Consumer, Cancel(c)  PROVE TypeOK'
  BY <1>10 DEF Cancel, EndTransaction
<1>11. ASSUME Abort  PROVE TypeOK'
  BY <1>11 DEF Abort, consumerVars
<1>12. ASSUME EndRun  PROVE TypeOK'
  BY <1>12 DEF EndRun, consumerVars
<1>13. ASSUME Restart  PROVE TypeOK'
  BY <1>13 DEF Restart
<1>14. ASSUME UNCHANGED vars  PROVE TypeOK'
  BY <1>14 DEF vars, consumerVars
<1> HIDE DEF TypeOK, JobInHand, Place, Busy, Ended
<1>15. QED
  BY <1>1, <1>2, <1>3, <1>4, <1>5, <1>6, <1>7,
     <1>8, <1>9, <1>10, <1>11, <1>12, <1>13, <1>14 DEF Next, Step, Over

(* A row is locked where no other transaction has it locked.               *)
LEMMA LocksExcludeStep ==
  ASSUME TypeOK, JobInHand, LocksExclude, [Next]_vars
  PROVE  LocksExclude'
<1> USE DEF TypeOK, JobInHand, LocksExclude, LockedByOther, Busy
<1>1. ASSUME NEW c \in Consumer, Begin(c)  PROVE LocksExclude'
  BY <1>1 DEF Begin
<1>2. ASSUME NEW c \in Consumer, NEW j \in Job, Select(c, j)  PROVE LocksExclude'
  BY <1>2 DEF Select, Return
<1>3. ASSUME NEW c \in Consumer, NEW j \in Job, Lock(c, j)  PROVE LocksExclude'
  BY <1>3 DEF Lock, Return
<1>4. ASSUME NEW c \in Consumer, NEW j \in Job, Skip(c, j)  PROVE LocksExclude'
  BY <1>4 DEF Skip
<1>5. ASSUME NEW c \in Consumer, NoRow(c)  PROVE LocksExclude'
  BY <1>5 DEF NoRow, EndTransaction
<1>6. ASSUME NEW c \in Consumer, Work(c)  PROVE LocksExclude'
  BY <1>6 DEF Work
<1>7. ASSUME NEW c \in Consumer, Complete(c)  PROVE LocksExclude'
  BY <1>7 DEF Complete
<1>8. ASSUME NEW c \in Consumer, Commit(c)  PROVE LocksExclude'
  BY <1>8 DEF Commit, EndTransaction
<1>9. ASSUME NEW c \in Consumer, Check(c)  PROVE LocksExclude'
  BY <1>9 DEF Check
<1>10. ASSUME NEW c \in Consumer, Cancel(c)  PROVE LocksExclude'
  BY <1>10 DEF Cancel, EndTransaction
<1>11. ASSUME Abort  PROVE LocksExclude'
  BY <1>11 DEF Abort, consumerVars
<1>12. ASSUME EndRun  PROVE LocksExclude'
  BY <1>12 DEF EndRun, consumerVars
<1>13. ASSUME Restart  PROVE LocksExclude'
  BY <1>13 DEF Restart
<1>14. ASSUME UNCHANGED vars  PROVE LocksExclude'
  BY <1>14 DEF vars, consumerVars
<1> HIDE DEF TypeOK, JobInHand, LocksExclude, LockedByOther, Busy
<1>15. QED
  BY <1>1, <1>2, <1>3, <1>4, <1>5, <1>6, <1>7,
     <1>8, <1>9, <1>10, <1>11, <1>12, <1>13, <1>14 DEF Next, Step, Over

(* Under a locking clause a job is done by the transaction that has its    *)
(* row locked: it is not the job of another consumer.                      *)
LEMMA JobInHandStep ==
  ASSUME TypeOK, LocksExclude, JobInHand, [Next]_vars
  PROVE  JobInHand'
<1> USE DEF TypeOK, LocksExclude, JobInHand, Locking, LockedByOther, Busy, First, Ended
<1>1. ASSUME NEW c \in Consumer, Begin(c)  PROVE JobInHand'
  BY <1>1 DEF Begin
<1>2. ASSUME NEW c \in Consumer, NEW j \in Job, Select(c, j)  PROVE JobInHand'
  BY <1>2 DEF Select, Return
<1>3. ASSUME NEW c \in Consumer, NEW j \in Job, Lock(c, j)  PROVE JobInHand'
  BY <1>3 DEF Lock, Return
<1>4. ASSUME NEW c \in Consumer, NEW j \in Job, Skip(c, j)  PROVE JobInHand'
  BY <1>4 DEF Skip
<1>5. ASSUME NEW c \in Consumer, NoRow(c)  PROVE JobInHand'
  BY <1>5 DEF NoRow, EndTransaction
<1>6. ASSUME NEW c \in Consumer, Work(c)  PROVE JobInHand'
  BY <1>6 DEF Work
<1>7. ASSUME NEW c \in Consumer, Complete(c)  PROVE JobInHand'
  BY <1>7 DEF Complete
<1>8. ASSUME NEW c \in Consumer, Commit(c)  PROVE JobInHand'
  BY <1>8 DEF Commit, EndTransaction
<1>9. ASSUME NEW c \in Consumer, Check(c)  PROVE JobInHand'
  BY <1>9 DEF Check
<1>10. ASSUME NEW c \in Consumer, Cancel(c)  PROVE JobInHand'
  BY <1>10 DEF Cancel, EndTransaction
<1>11. ASSUME Abort  PROVE JobInHand'
  BY <1>11 DEF Abort, consumerVars
<1>12. ASSUME EndRun  PROVE JobInHand'
  BY <1>12 DEF EndRun, consumerVars
<1>13. ASSUME Restart  PROVE JobInHand'
  BY <1>13 DEF Restart
<1>14. ASSUME UNCHANGED vars  PROVE JobInHand'
  BY <1>14 DEF vars, consumerVars
<1> HIDE DEF TypeOK, LocksExclude, JobInHand, Locking, LockedByOther, Busy, First, Ended
<1>15. QED
  BY <1>1, <1>2, <1>3, <1>4, <1>5, <1>6, <1>7,
     <1>8, <1>9, <1>10, <1>11, <1>12, <1>13, <1>14 DEF Next, Step, Over

(* A row leaves a snapshot only if it is done.                             *)
LEMMA FirstPendingStep ==
  ASSUME TypeOK, JobInHand, FirstPending, [Next]_vars
  PROVE  FirstPending'
<1> USE DEF TypeOK, JobInHand, FirstPending, Locking, First, Busy, Ended
<1>1. ASSUME NEW c \in Consumer, Begin(c)  PROVE FirstPending'
  BY <1>1 DEF Begin
<1>2. ASSUME NEW c \in Consumer, NEW j \in Job, Select(c, j)  PROVE FirstPending'
  BY <1>2 DEF Select, Return
<1>3. ASSUME NEW c \in Consumer, NEW j \in Job, Lock(c, j)  PROVE FirstPending'
  BY <1>3 DEF Lock, Return
<1>4. ASSUME NEW c \in Consumer, NEW j \in Job, Skip(c, j)  PROVE FirstPending'
  BY <1>4 DEF Skip
<1>5. ASSUME NEW c \in Consumer, NoRow(c)  PROVE FirstPending'
  BY <1>5 DEF NoRow, EndTransaction
<1>6. ASSUME NEW c \in Consumer, Work(c)  PROVE FirstPending'
  BY <1>6 DEF Work
<1>7. ASSUME NEW c \in Consumer, Complete(c)  PROVE FirstPending'
  BY <1>7 DEF Complete
<1>8. ASSUME NEW c \in Consumer, Commit(c)  PROVE FirstPending'
  BY <1>8 DEF Commit, EndTransaction
<1>9. ASSUME NEW c \in Consumer, Check(c)  PROVE FirstPending'
  BY <1>9 DEF Check
<1>10. ASSUME NEW c \in Consumer, Cancel(c)  PROVE FirstPending'
  BY <1>10 DEF Cancel, EndTransaction
<1>11. ASSUME Abort  PROVE FirstPending'
  BY <1>11 DEF Abort, consumerVars
<1>12. ASSUME EndRun  PROVE FirstPending'
  BY <1>12 DEF EndRun, consumerVars
<1>13. ASSUME Restart  PROVE FirstPending'
  BY <1>13 DEF Restart
<1>14. ASSUME UNCHANGED vars  PROVE FirstPending'
  BY <1>14 DEF vars, consumerVars
<1> HIDE DEF TypeOK, JobInHand, FirstPending, Locking, First, Busy, Ended
<1>15. QED
  BY <1>1, <1>2, <1>3, <1>4, <1>5, <1>6, <1>7,
     <1>8, <1>9, <1>10, <1>11, <1>12, <1>13, <1>14 DEF Next, Step, Over

(* Jobs that are done stay done, and an abort is not taken back.           *)
LEMMA EndsExplainedStep ==
  ASSUME TypeOK, EndsExplained, [Next]_vars
  PROVE  EndsExplained'
<1> USE DEF TypeOK, EndsExplained, Busy, Ended
<1>1. ASSUME NEW c \in Consumer, Begin(c)  PROVE EndsExplained'
  BY <1>1 DEF Begin
<1>2. ASSUME NEW c \in Consumer, NEW j \in Job, Select(c, j)  PROVE EndsExplained'
  BY <1>2 DEF Select, Return
<1>3. ASSUME NEW c \in Consumer, NEW j \in Job, Lock(c, j)  PROVE EndsExplained'
  BY <1>3 DEF Lock, Return
<1>4. ASSUME NEW c \in Consumer, NEW j \in Job, Skip(c, j)  PROVE EndsExplained'
  BY <1>4 DEF Skip
<1>5. ASSUME NEW c \in Consumer, NoRow(c)  PROVE EndsExplained'
  BY <1>5 DEF NoRow, EndTransaction
<1>6. ASSUME NEW c \in Consumer, Work(c)  PROVE EndsExplained'
  BY <1>6 DEF Work
<1>7. ASSUME NEW c \in Consumer, Complete(c)  PROVE EndsExplained'
  BY <1>7 DEF Complete
<1>8. ASSUME NEW c \in Consumer, Commit(c)  PROVE EndsExplained'
  BY <1>8 DEF Commit, EndTransaction
<1>9. ASSUME NEW c \in Consumer, Check(c)  PROVE EndsExplained'
  BY <1>9 DEF Check
<1>10. ASSUME NEW c \in Consumer, Cancel(c)  PROVE EndsExplained'
  BY <1>10 DEF Cancel, EndTransaction
<1>11. ASSUME Abort  PROVE EndsExplained'
  BY <1>11 DEF Abort, consumerVars
<1>12. ASSUME EndRun  PROVE EndsExplained'
  BY <1>12 DEF EndRun, consumerVars
<1>13. ASSUME Restart  PROVE EndsExplained'
  BY <1>13 DEF Restart
<1>14. ASSUME UNCHANGED vars  PROVE EndsExplained'
  BY <1>14 DEF vars, consumerVars
<1> HIDE DEF TypeOK, EndsExplained, Busy, Ended
<1>15. QED
  BY <1>1, <1>2, <1>3, <1>4, <1>5, <1>6, <1>7,
     <1>8, <1>9, <1>10, <1>11, <1>12, <1>13, <1>14 DEF Next, Step, Over

(* The job committed under a locking clause was pending till then.         *)
LEMMA ExecutionsMatchResultsStep ==
  ASSUME TypeOK, JobInHand, ExecutionsMatchResults, [Next]_vars
  PROVE  ExecutionsMatchResults'
<1> USE DEF TypeOK, JobInHand, ExecutionsMatchResults, Locking, Busy
<1>1. ASSUME NEW c \in Consumer, Begin(c)  PROVE ExecutionsMatchResults'
  BY <1>1 DEF Begin
<1>2. ASSUME NEW c \in Consumer, NEW j \in Job, Select(c, j)  PROVE ExecutionsMatchResults'
  BY <1>2 DEF Select, Return
<1>3. ASSUME NEW c \in Consumer, NEW j \in Job, Lock(c, j)  PROVE ExecutionsMatchResults'
  BY <1>3 DEF Lock, Return
<1>4. ASSUME NEW c \in Consumer, NEW j \in Job, Skip(c, j)  PROVE ExecutionsMatchResults'
  BY <1>4 DEF Skip
<1>5. ASSUME NEW c \in Consumer, NoRow(c)  PROVE ExecutionsMatchResults'
  BY <1>5 DEF NoRow, EndTransaction
<1>6. ASSUME NEW c \in Consumer, Work(c)  PROVE ExecutionsMatchResults'
  BY <1>6 DEF Work
<1>7. ASSUME NEW c \in Consumer, Complete(c)  PROVE ExecutionsMatchResults'
  BY <1>7 DEF Complete
<1>8. ASSUME NEW c \in Consumer, Commit(c)  PROVE ExecutionsMatchResults'
  BY <1>8 DEF Commit, EndTransaction
<1>9. ASSUME NEW c \in Consumer, Check(c)  PROVE ExecutionsMatchResults'
  BY <1>9 DEF Check
<1>10. ASSUME NEW c \in Consumer, Cancel(c)  PROVE ExecutionsMatchResults'
  BY <1>10 DEF Cancel, EndTransaction
<1>11. ASSUME Abort  PROVE ExecutionsMatchResults'
  BY <1>11 DEF Abort, consumerVars
<1>12. ASSUME EndRun  PROVE ExecutionsMatchResults'
  BY <1>12 DEF EndRun, consumerVars
<1>13. ASSUME Restart  PROVE ExecutionsMatchResults'
  BY <1>13 DEF Restart
<1>14. ASSUME UNCHANGED vars  PROVE ExecutionsMatchResults'
  BY <1>14 DEF vars, consumerVars
<1> HIDE DEF TypeOK, JobInHand, ExecutionsMatchResults, Locking, Busy
<1>15. QED
  BY <1>1, <1>2, <1>3, <1>4, <1>5, <1>6, <1>7,
     <1>8, <1>9, <1>10, <1>11, <1>12, <1>13, <1>14 DEF Next, Step, Over

(* There is a consumer, and without an abort it has returned.              *)
LEMMA FinishedIsCompleteStep ==
  ASSUME TypeOK, EndsExplained, FinishedIsComplete, [Next]_vars
  PROVE  FinishedIsComplete'
<1> USE DEF TypeOK, EndsExplained, FinishedIsComplete, Ended
<1>1. ASSUME NEW c \in Consumer, Begin(c)  PROVE FinishedIsComplete'
  BY <1>1 DEF Begin
<1>2. ASSUME NEW c \in Consumer, NEW j \in Job, Select(c, j)  PROVE FinishedIsComplete'
  BY <1>2 DEF Select, Return
<1>3. ASSUME NEW c \in Consumer, NEW j \in Job, Lock(c, j)  PROVE FinishedIsComplete'
  BY <1>3 DEF Lock, Return
<1>4. ASSUME NEW c \in Consumer, NEW j \in Job, Skip(c, j)  PROVE FinishedIsComplete'
  BY <1>4 DEF Skip
<1>5. ASSUME NEW c \in Consumer, NoRow(c)  PROVE FinishedIsComplete'
  BY <1>5 DEF NoRow, EndTransaction
<1>6. ASSUME NEW c \in Consumer, Work(c)  PROVE FinishedIsComplete'
  BY <1>6 DEF Work
<1>7. ASSUME NEW c \in Consumer, Complete(c)  PROVE FinishedIsComplete'
  BY <1>7 DEF Complete
<1>8. ASSUME NEW c \in Consumer, Commit(c)  PROVE FinishedIsComplete'
  BY <1>8 DEF Commit, EndTransaction
<1>9. ASSUME NEW c \in Consumer, Check(c)  PROVE FinishedIsComplete'
  BY <1>9 DEF Check
<1>10. ASSUME NEW c \in Consumer, Cancel(c)  PROVE FinishedIsComplete'
  BY <1>10 DEF Cancel, EndTransaction
<1>11. ASSUME Abort  PROVE FinishedIsComplete'
  BY <1>11 DEF Abort, consumerVars
<1>12. ASSUME EndRun  PROVE FinishedIsComplete'
  <2>1. PICK c \in Consumer : pc[c] \in Ended
    BY <1>12, ExperimentAssumption DEF EndRun
  <2>2. aborted \/ Job \subseteq done
    BY <2>1
  <2>3. done' = done /\ run' = IF aborted THEN "failed" ELSE "finished"
    BY <1>12 DEF EndRun
  <2>4. QED
    BY <2>2, <2>3
<1>13. ASSUME Restart  PROVE FinishedIsComplete'
  BY <1>13 DEF Restart
<1>14. ASSUME UNCHANGED vars  PROVE FinishedIsComplete'
  BY <1>14 DEF vars, consumerVars
<1> HIDE DEF TypeOK, EndsExplained, FinishedIsComplete, Ended
<1>15. QED
  BY <1>1, <1>2, <1>3, <1>4, <1>5, <1>6, <1>7,
     <1>8, <1>9, <1>10, <1>11, <1>12, <1>13, <1>14 DEF Next, Step, Over

LEMMA InvStep == ExperimentInv /\ [Next]_vars => ExperimentInv'
BY TypeOKStep, LocksExcludeStep, JobInHandStep, FirstPendingStep,
   EndsExplainedStep, ExecutionsMatchResultsStep, FinishedIsCompleteStep
   DEF ExperimentInv

LEMMA InvHolds == Spec => []ExperimentInv
BY InitInv, InvStep, PTL DEF Spec

-----------------------------------------------------------------------------
(* Theorems.                                                               *)

(* Jobs, executions, snapshots and locks keep their types.                 *)
THEOREM ExperimentTypeCorrect == Spec => []TypeOK
<1>1. ExperimentInv => TypeOK
  BY DEF ExperimentInv
<1>2. QED
  BY <1>1, InvHolds, PTL

(* "Every job runs exactly once": with FOR UPDATE, with or without SKIP    *)
(* LOCKED, no job is executed twice, and a job is done if and only if it   *)
(* was executed, whatever the timeout interrupts.                          *)
THEOREM ExactlyOnce == Spec => []ExecutionsMatchResults
<1>1. ExperimentInv => ExecutionsMatchResults
  BY DEF ExperimentInv
<1>2. QED
  BY <1>1, InvHolds, PTL

(* A run reported as finished has done all of its jobs.                    *)
THEOREM FinishedRunsAreComplete == Spec => []FinishedIsComplete
<1>1. ExperimentInv => FinishedIsComplete
  BY DEF ExperimentInv
<1>2. QED
  BY <1>1, InvHolds, PTL

(* Two consumers at work under FOR UPDATE would both have the first        *)
(* pending job, and its row is locked once.                                *)
THEOREM ForUpdateSerializes == Spec => []OneWorksForUpdate
<1>1. ASSUME ExperimentInv, mode = "for_update",
             NEW c \in Consumer, NEW d \in Consumer,
             pc[c] \in Busy, pc[d] \in Busy
      PROVE  c = d
  <2>1. /\ job[c] \in held[c] /\ job[c] \in Job \ done
        /\ job[d] \in held[d] /\ job[d] \in Job \ done
    BY <1>1 DEF ExperimentInv, JobInHand, Locking
  <2>2. job[c] <= job[d] /\ job[d] <= job[c]
    BY <1>1, <2>1 DEF ExperimentInv, FirstPending
  <2>3. job[c] = job[d]
    <3>1. job[c] \in Nat /\ job[d] \in Nat
      BY <2>1, ExperimentAssumption
    <3>2. QED
      BY <2>2, <3>1
  <2>4. QED
    BY <1>1, <2>1, <2>3 DEF ExperimentInv, LocksExclude
<1>2. ExperimentInv => OneWorksForUpdate
  BY <1>1 DEF OneWorksForUpdate
<1>3. QED
  BY <1>2, InvHolds, PTL
=============================================================================
