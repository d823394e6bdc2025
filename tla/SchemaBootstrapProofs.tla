----------------------- MODULE SchemaBootstrapProofs -----------------------
(***************************************************************************)
(* Proofs about SchemaBootstrap, for every number of processes.            *)
(***************************************************************************)
EXTENDS SchemaBootstrap, SequenceTheorems, WellFoundedInduction, TLAPS

----------------------------------------------------------------------------
(* The lists of locks.                                                     *)

LEMMA ScriptIs ==
  /\ Len(Script) = 8
  /\ Script[1] = <<"schema_key", "Exclusive">>
  /\ Script[2] = <<"messages", "Share">>
  /\ Script[3] = <<"messages", "ShareRowExclusive">>
  /\ Script[4] = <<"consumers", "Share">>
  /\ Script[5] = <<"worker_commands", "Share">>
  /\ Script[6] = <<"worker_commands", "ShareRowExclusive">>
  /\ Script[7] = <<"experiment_runs", "Share">>
  /\ Script[8] = <<"experiment_executions", "Share">>
BY DEF Script, ScriptTables

LEMMA LeasesAre ==
  /\ Len(BeatWithLeases) = 3
  /\ BeatWithLeases[1] = <<"workers", "RowExclusive">>
  /\ BeatWithLeases[2] = <<"consumers", "RowExclusive">>
  /\ BeatWithLeases[3] = <<"messages", "RowExclusive">>
<1> DEFINE S == {Beat[1], Beat[2], <<"messages", "RowExclusive">>}
<1>1. Beat \in Seq(S) /\ Len(Beat) = 2
  BY DEF Beat
<1>2. <<"messages", "RowExclusive">> \in S
  OBVIOUS
<1> HIDE DEF S
<1>3. QED
  BY <1>1, <1>2, AppendProperties DEF Beat, BeatWithLeases

LEMMA ClearIs ==
  /\ Len(Clear) = 4
  /\ Clear[1] = <<"experiments", "AccessExclusive">>
  /\ Clear[2] = <<"experiment_runs", "AccessExclusive">>
  /\ Clear[3] = <<"experiment_jobs", "AccessExclusive">>
  /\ Clear[4] = <<"experiment_executions", "AccessExclusive">>
BY DEF Clear

LEMMA KindsAre ==
  DOMAIN AllLocks = {"script", "beat", "leases", "message", "reset", "remove", "send",
                     "start", "jobs", "run", "job", "results", "history", "clear"}
BY DEF AllLocks

LEMMA LengthsAre == ASSUME NEW what \in DOMAIN AllLocks PROVE Len(AllLocks[what]) \in Nat
<1>1. CASE what = "script"
  BY <1>1, ScriptIs, LeasesAre, ClearIs DEF AllLocks, Beat
<1>2. CASE what = "beat"
  BY <1>2, ScriptIs, LeasesAre, ClearIs DEF AllLocks, Beat
<1>3. CASE what = "leases"
  BY <1>3, ScriptIs, LeasesAre, ClearIs DEF AllLocks, Beat
<1>4. CASE what = "message"
  BY <1>4, ScriptIs, LeasesAre, ClearIs DEF AllLocks, Beat
<1>5. CASE what = "reset"
  BY <1>5, ScriptIs, LeasesAre, ClearIs DEF AllLocks, Beat
<1>6. CASE what = "remove"
  BY <1>6, ScriptIs, LeasesAre, ClearIs DEF AllLocks, Beat
<1>7. CASE what = "send"
  BY <1>7, ScriptIs, LeasesAre, ClearIs DEF AllLocks, Beat
<1>8. CASE what = "start"
  BY <1>8, ScriptIs, LeasesAre, ClearIs DEF AllLocks, Beat
<1>9. CASE what = "jobs"
  BY <1>9, ScriptIs, LeasesAre, ClearIs DEF AllLocks, Beat
<1>10. CASE what = "run"
  BY <1>10, ScriptIs, LeasesAre, ClearIs DEF AllLocks, Beat
<1>11. CASE what = "job"
  BY <1>11, ScriptIs, LeasesAre, ClearIs DEF AllLocks, Beat
<1>12. CASE what = "results"
  BY <1>12, ScriptIs, LeasesAre, ClearIs DEF AllLocks, Beat
<1>13. CASE what = "history"
  BY <1>13, ScriptIs, LeasesAre, ClearIs DEF AllLocks, Beat
<1>14. CASE what = "clear"
  BY <1>14, ScriptIs, LeasesAre, ClearIs DEF AllLocks, Beat
<1>15. QED
  BY KindsAre, <1>1, <1>2, <1>3, <1>4, <1>5, <1>6, <1>7, <1>8, <1>9, <1>10,
     <1>11, <1>12, <1>13, <1>14

LEMMA RangesAre ==
  ASSUME NEW what \in DOMAIN AllLocks, NEW i \in 1..Len(AllLocks[what])
  PROVE  AllLocks[what][i] \in Range(AllLocks[what])
<1>1. CASE what = "script"
  <2>1. AllLocks[what] = Script
    BY <1>1 DEF AllLocks
  <2>2. DOMAIN Script = 1..Len(Script)
    BY DEF Script, ScriptTables
  <2>3. QED
    BY <2>1, <2>2 DEF Range
<1>2. CASE what = "beat"
  BY <1>2 DEF AllLocks, Beat, Clear, Range
<1>3. CASE what = "leases"
  <2>1. AllLocks[what] = BeatWithLeases
    BY <1>3 DEF AllLocks
  <2>2. DOMAIN BeatWithLeases = 1..Len(BeatWithLeases)
    BY DEF BeatWithLeases, Beat
  <2>3. QED
    BY <2>1, <2>2 DEF Range
<1>4. CASE what = "message"
  BY <1>4 DEF AllLocks, Beat, Clear, Range
<1>5. CASE what = "reset"
  BY <1>5 DEF AllLocks, Beat, Clear, Range
<1>6. CASE what = "remove"
  BY <1>6 DEF AllLocks, Beat, Clear, Range
<1>7. CASE what = "send"
  BY <1>7 DEF AllLocks, Beat, Clear, Range
<1>8. CASE what = "start"
  BY <1>8 DEF AllLocks, Beat, Clear, Range
<1>9. CASE what = "jobs"
  BY <1>9 DEF AllLocks, Beat, Clear, Range
<1>10. CASE what = "run"
  BY <1>10 DEF AllLocks, Beat, Clear, Range
<1>11. CASE what = "job"
  BY <1>11 DEF AllLocks, Beat, Clear, Range
<1>12. CASE what = "results"
  BY <1>12 DEF AllLocks, Beat, Clear, Range
<1>13. CASE what = "history"
  BY <1>13 DEF AllLocks, Beat, Clear, Range
<1>14. CASE what = "clear"
  BY <1>14 DEF AllLocks, Beat, Clear, Range
<1>15. QED
  BY KindsAre, <1>1, <1>2, <1>3, <1>4, <1>5, <1>6, <1>7, <1>8, <1>9, <1>10,
     <1>11, <1>12, <1>13, <1>14

(* Only the script and the two TRUNCATEs take locks that can clash with    *)
(* those of ordinary statements.                                           *)
RowModes == {"RowExclusive", "RowShare", "AccessShare"}

LEMMA OthersWriteRows ==
  ASSUME NEW what \in DOMAIN AllLocks \ {"script", "reset", "clear"},
         NEW i \in 1..Len(AllLocks[what])
  PROVE  AllLocks[what][i][2] \in RowModes
<1>1. CASE what = "beat"
  BY <1>1 DEF AllLocks, Beat, RowModes
<1>2. CASE what = "leases"
  <2>1. AllLocks[what] = BeatWithLeases
    BY <1>2 DEF AllLocks
  <2>2. i = 1 \/ i = 2 \/ i = 3
    BY <2>1, LeasesAre
  <2>3. QED
    BY <2>1, <2>2, LeasesAre DEF RowModes
<1>3. CASE what = "message"
  BY <1>3 DEF AllLocks, Beat, RowModes
<1>4. CASE what = "remove"
  BY <1>4 DEF AllLocks, Beat, RowModes
<1>5. CASE what = "send"
  BY <1>5 DEF AllLocks, Beat, RowModes
<1>6. CASE what = "start"
  BY <1>6 DEF AllLocks, Beat, RowModes
<1>7. CASE what = "jobs"
  BY <1>7 DEF AllLocks, Beat, RowModes
<1>8. CASE what = "run"
  BY <1>8 DEF AllLocks, Beat, RowModes
<1>9. CASE what = "job"
  BY <1>9 DEF AllLocks, Beat, RowModes
<1>10. CASE what = "results"
  BY <1>10 DEF AllLocks, Beat, RowModes
<1>11. CASE what = "history"
  BY <1>11 DEF AllLocks, Beat, RowModes
<1>12. QED
  BY KindsAre, <1>1, <1>2, <1>3, <1>4, <1>5, <1>6, <1>7, <1>8, <1>9, <1>10,
     <1>11

LEMMA RowLocksAgree ==
  ASSUME NEW lock, NEW other, lock[2] \in RowModes, other[2] \in RowModes
  PROVE  ~Clash(lock, other)
BY DEF Clash, Conflicts, RowModes

(* Conflicts is a relation that goes both ways.                            *)
Modes == RowModes \cup {"Share", "ShareRowExclusive", "Exclusive", "AccessExclusive"}

LEMMA ModesAre ==
  ASSUME NEW what \in DOMAIN AllLocks, NEW i \in 1..Len(AllLocks[what])
  PROVE  AllLocks[what][i][2] \in Modes
<1>1. CASE what = "script"
  <2>1. AllLocks[what] = Script /\ i \in 1..8
    BY <1>1, ScriptIs DEF AllLocks
  <2>2. i = 1 \/ i = 2 \/ i = 3 \/ i = 4 \/ i = 5 \/ i = 6 \/ i = 7 \/ i = 8
    BY <2>1
  <2>3. QED
    BY <2>1, <2>2, ScriptIs DEF Modes, RowModes
<1>2. CASE what = "reset"
  BY <1>2 DEF AllLocks, Modes
<1>3. CASE what = "clear"
  <2>1. AllLocks[what] = Clear /\ i \in 1..4
    BY <1>3, ClearIs DEF AllLocks
  <2>2. i = 1 \/ i = 2 \/ i = 3 \/ i = 4
    BY <2>1
  <2>3. QED
    BY <2>1, <2>2, ClearIs DEF Modes
<1>4. CASE what \notin {"script", "reset", "clear"}
  BY <1>4, OthersWriteRows DEF Modes
<1>5. QED
  BY <1>1, <1>2, <1>3, <1>4

LEMMA ClashesBothWays ==
  ASSUME NEW lock, NEW other, lock[2] \in Modes, other[2] \in Modes, Clash(lock, other)
  PROVE  Clash(other, lock)
BY DEF Clash, Conflicts, Modes, RowModes

(* What locks something that the script locks late, before something that  *)
(* the script locks early, is the heartbeat that renews leases.            *)
LEMMA OnlyLeasesCross ==
  ASSUME NEW what \in Operation \ {"reset", "clear"},
         NEW i \in 1..Len(AllLocks[what]), NEW j \in 1..Len(AllLocks[what]), i < j,
         NEW k \in 1..8, NEW l \in 1..8, k < l,
         Clash(AllLocks[what][i], Script[l]), Clash(Script[k], AllLocks[what][j])
  PROVE  what = "leases"
<1>1. CASE what = "beat"
  BY <1>1, ScriptIs DEF AllLocks, Beat, Clash, Conflicts
<1>2. CASE what = "message"
  BY <1>2, ScriptIs DEF AllLocks, Beat, Clash, Conflicts
<1>3. CASE what = "remove"
  BY <1>3, ScriptIs DEF AllLocks, Beat, Clash, Conflicts
<1>4. CASE what = "send"
  BY <1>4, ScriptIs DEF AllLocks, Beat, Clash, Conflicts
<1>5. CASE what = "start"
  BY <1>5, ScriptIs DEF AllLocks, Beat, Clash, Conflicts
<1>6. CASE what = "jobs"
  BY <1>6, ScriptIs DEF AllLocks, Beat, Clash, Conflicts
<1>7. CASE what = "run"
  BY <1>7, ScriptIs DEF AllLocks, Beat, Clash, Conflicts
<1>8. CASE what = "job"
  BY <1>8, ScriptIs DEF AllLocks, Beat, Clash, Conflicts
<1>9. CASE what = "results"
  BY <1>9, ScriptIs DEF AllLocks, Beat, Clash, Conflicts
<1>10. CASE what = "history"
  BY <1>10, ScriptIs DEF AllLocks, Beat, Clash, Conflicts
<1>11. QED
  BY KindsAre, <1>1, <1>2, <1>3, <1>4, <1>5, <1>6, <1>7, <1>8, <1>9, <1>10 DEF Operation

(* What locks something that the TRUNCATE locks late, before something     *)
(* that it locks early.                                                    *)
LEMMA OnlyThreeCross ==
  ASSUME NEW what \in Operation \ {"reset", "clear"},
         NEW i \in 1..Len(AllLocks[what]), NEW j \in 1..Len(AllLocks[what]), i < j,
         NEW k \in 1..4, NEW l \in 1..4, k < l,
         Clash(AllLocks[what][i], Clear[l]), Clash(Clear[k], AllLocks[what][j])
  PROVE  what \in {"results", "jobs", "job"}
<1>1. CASE what = "beat"
  BY <1>1, ClearIs DEF AllLocks, Beat, Clash, Conflicts
<1>2. CASE what = "leases"
  <2>1. AllLocks[what] = BeatWithLeases
    BY <1>2 DEF AllLocks
  <2>2. i = 1 \/ i = 2 \/ i = 3
    BY <2>1, LeasesAre
  <2>3. QED
    BY <2>1, <2>2, LeasesAre, ClearIs DEF Clash
<1>3. CASE what = "message"
  BY <1>3, ClearIs DEF AllLocks, Beat, Clash, Conflicts
<1>4. CASE what = "remove"
  BY <1>4, ClearIs DEF AllLocks, Beat, Clash, Conflicts
<1>5. CASE what = "send"
  BY <1>5, ClearIs DEF AllLocks, Beat, Clash, Conflicts
<1>6. CASE what = "start"
  BY <1>6, ClearIs DEF AllLocks, Beat, Clash, Conflicts
<1>7. CASE what = "run"
  BY <1>7, ClearIs DEF AllLocks, Beat, Clash, Conflicts
<1>8. CASE what = "history"
  BY <1>8, ClearIs DEF AllLocks, Beat, Clash, Conflicts
<1>9. QED
  BY KindsAre, <1>1, <1>2, <1>3, <1>4, <1>5, <1>6, <1>7, <1>8 DEF Operation

(* The transactions on the tables of the experiments, and those on others, *)
(* among which only the script locks an experiment's table, in the end.    *)
Experiments == {"start", "jobs", "run", "job", "results", "history", "clear"}

ExperimentTables ==
  {"experiments", "experiment_runs", "experiment_jobs", "experiment_executions"}

LEMMA ExperimentsLock ==
  ASSUME NEW what \in Experiments, NEW i \in 1..Len(AllLocks[what])
  PROVE  AllLocks[what][i][1] \in ExperimentTables
<1>1. CASE what = "start"
  BY <1>1 DEF AllLocks, Clear, ExperimentTables
<1>2. CASE what = "jobs"
  BY <1>2 DEF AllLocks, Clear, ExperimentTables
<1>3. CASE what = "run"
  BY <1>3 DEF AllLocks, Clear, ExperimentTables
<1>4. CASE what = "job"
  BY <1>4 DEF AllLocks, Clear, ExperimentTables
<1>5. CASE what = "results"
  BY <1>5 DEF AllLocks, Clear, ExperimentTables
<1>6. CASE what = "history"
  BY <1>6 DEF AllLocks, Clear, ExperimentTables
<1>7. CASE what = "clear"
  BY <1>7 DEF AllLocks, Clear, ExperimentTables
<1>8. QED
  BY <1>1, <1>2, <1>3, <1>4, <1>5, <1>6, <1>7 DEF Experiments

LEMMA OthersLock ==
  ASSUME NEW what \in DOMAIN AllLocks \ Experiments, NEW i \in 1..Len(AllLocks[what]),
         AllLocks[what][i][1] \in ExperimentTables
  PROVE  what = "script" /\ i \in {7, 8}
<1>1. CASE what = "script"
  <2>1. AllLocks[what] = Script /\ i \in 1..8
    BY <1>1, ScriptIs DEF AllLocks
  <2>2. i = 1 \/ i = 2 \/ i = 3 \/ i = 4 \/ i = 5 \/ i = 6 \/ i = 7 \/ i = 8
    BY <2>1
  <2>3. QED
    BY <1>1, <2>1, <2>2, ScriptIs DEF ExperimentTables
<1>2. CASE what = "beat"
  BY <1>2 DEF AllLocks, Beat, ExperimentTables
<1>3. CASE what = "leases"
  <2>1. AllLocks[what] = BeatWithLeases
    BY <1>3 DEF AllLocks
  <2>2. i = 1 \/ i = 2 \/ i = 3
    BY <2>1, LeasesAre
  <2>3. QED
    BY <2>1, <2>2, LeasesAre DEF ExperimentTables
<1>4. CASE what = "message"
  BY <1>4 DEF AllLocks, Beat, ExperimentTables
<1>5. CASE what = "reset"
  BY <1>5 DEF AllLocks, Beat, ExperimentTables
<1>6. CASE what = "remove"
  BY <1>6 DEF AllLocks, Beat, ExperimentTables
<1>7. CASE what = "send"
  BY <1>7 DEF AllLocks, Beat, ExperimentTables
<1>8. QED
  BY KindsAre, <1>1, <1>2, <1>3, <1>4, <1>5, <1>6, <1>7 DEF Experiments

(* Against Share on experiment_executions, and RowShare on experiment_runs. *)
LEMMA ClashLate ==
  ASSUME NEW what \in DOMAIN AllLocks, NEW i \in 1..Len(AllLocks[what])
  PROVE  /\ Clash(AllLocks[what][i], Script[8]) =>
              (what = "job" /\ i = 3) \/ (what = "clear" /\ i = 4)
         /\ Clash(AllLocks[what][i], <<"experiment_runs", "RowShare">>) => what = "clear" /\ i = 2
<1>8. CASE what \notin Experiments
  <2>1. CASE what = "script" /\ i \in {7, 8}
    BY <2>1, ScriptIs DEF AllLocks, Clash, Conflicts
  <2>2. CASE AllLocks[what][i][1] \notin ExperimentTables
    BY <2>2, ScriptIs DEF Clash, ExperimentTables
  <2>3. QED
    BY <1>8, <2>1, <2>2, OthersLock
<1>1. CASE what = "start"
  BY <1>1, ScriptIs DEF AllLocks, Clear, Clash, Conflicts
<1>2. CASE what = "jobs"
  BY <1>2, ScriptIs DEF AllLocks, Clear, Clash, Conflicts
<1>3. CASE what = "run"
  BY <1>3, ScriptIs DEF AllLocks, Clear, Clash, Conflicts
<1>4. CASE what = "job"
  BY <1>4, ScriptIs DEF AllLocks, Clear, Clash, Conflicts
<1>5. CASE what = "results"
  BY <1>5, ScriptIs DEF AllLocks, Clear, Clash, Conflicts
<1>6. CASE what = "history"
  BY <1>6, ScriptIs DEF AllLocks, Clear, Clash, Conflicts
<1>7. CASE what = "clear"
  BY <1>7, ScriptIs DEF AllLocks, Clear, Clash, Conflicts
<1>9. QED
  BY <1>8, <1>1, <1>2, <1>3, <1>4, <1>5, <1>6, <1>7 DEF Experiments

----------------------------------------------------------------------------
(* The next lock.                                                          *)

LEMMA MinIs ==
  ASSUME NEW T \in SUBSET Nat, T # {}
  PROVE  Min(T) \in T /\ \A y \in T : Min(T) <= y
<1> DEFINE less == OpToRel(<, Nat)
<1>1. PICK x \in T : \A y \in T : ~(<<y, x>> \in less)
  <2> HIDE DEF less
  <2>1. IsWellFoundedOn(less, Nat)
    BY NatLessThanWellFounded DEF less
  <2>2. QED
    BY <2>1, WFMin
<1>2. ASSUME NEW y \in T PROVE x <= y
  <2>1. <<y, x>> \in Nat \X Nat /\ <<y, x>>[1] = y /\ <<y, x>>[2] = x
    OBVIOUS
  <2>2. y < x => <<y, x>> \in less
    BY <2>1 DEF OpToRel
  <2>3. x \in Nat /\ y \in Nat /\ ~(y < x)
    BY <1>1, <2>2
  <2>4. QED
    BY <2>3
<1>3. QED
  BY <1>2 DEF Min

Rest(what, n) == {i \in n + 1..Len(AllLocks[what]) : Contended(AllLocks[what][i])}

LEMMA FirstPastDef ==
  ASSUME NEW what \in DOMAIN AllLocks, NEW n \in 0..Len(AllLocks[what])
  PROVE  FirstPast[what][n] = IF Rest(what, n) = {} THEN 0 ELSE Min(Rest(what, n))
BY DEF FirstPast, Rest

LEMMA FirstPastIs ==
  ASSUME NEW what \in DOMAIN AllLocks, NEW n \in 0..Len(AllLocks[what])
  PROVE  FirstPast[what][n] = 0 \/ FirstPast[what][n] \in n + 1..Len(AllLocks[what])
<1>1. Rest(what, n) \in SUBSET Nat
  BY LengthsAre DEF Rest
<1>2. Rest(what, n) # {} => Min(Rest(what, n)) \in Rest(what, n)
  BY <1>1, MinIs
<1>3. Rest(what, n) \subseteq n + 1..Len(AllLocks[what])
  BY DEF Rest
<1>4. QED
  BY <1>2, <1>3, FirstPastDef

LEMMA ClashContends ==
  ASSUME NEW lock,
         \/ \E k \in 1..8 : Clash(lock, Script[k])
         \/ \E k \in 1..4 : Clash(lock, Clear[k])
  PROVE  Contended(lock)
<1>1. /\ AllLocks["script"] = Script /\ "script" \in DOMAIN AllLocks
      /\ AllLocks["clear"] = Clear /\ "clear" \in DOMAIN AllLocks
  BY DEF AllLocks
<1>2. \A k \in 1..8 : Script[k] \in Range(Script)
  BY ScriptIs DEF Range, Script, ScriptTables
<1>3. \A k \in 1..4 : Clear[k] \in Range(Clear)
  BY ClearIs DEF Range, Clear
<1>4. QED
  BY <1>1, <1>2, <1>3 DEF Contended

(* Every transaction has a lock to wait for.                               *)
LEMMA SomeContended ==
  ASSUME NEW what \in DOMAIN AllLocks
  PROVE  \E i \in 1..Len(AllLocks[what]) : Contended(AllLocks[what][i])
<1>1. CASE what = "script"
  <2>1. 1 \in 1..Len(AllLocks[what]) /\ Clash(AllLocks[what][1], Script[1])
    <3>1. AllLocks[what] = Script
      BY <1>1 DEF AllLocks
    <3>2. Clash(Script[1], Script[1])
      BY ScriptIs DEF Clash, Conflicts
    <3>3. QED
      BY <3>1, <3>2, ScriptIs
  <2>2. 1 \in 1..8
    OBVIOUS
  <2>3. QED
    BY <2>1, <2>2, ClashContends
<1>2. CASE what = "beat"
  <2>1. 2 \in 1..Len(AllLocks[what]) /\ Clash(AllLocks[what][2], Script[4])
    BY <1>2, ScriptIs, ClearIs, LeasesAre DEF AllLocks, Beat, Clash, Conflicts
  <2>2. QED
    BY <2>1, ClashContends
<1>3. CASE what = "leases"
  <2>1. 2 \in 1..Len(AllLocks[what]) /\ Clash(AllLocks[what][2], Script[4])
    BY <1>3, ScriptIs, ClearIs, LeasesAre DEF AllLocks, Beat, Clash, Conflicts
  <2>2. QED
    BY <2>1, ClashContends
<1>4. CASE what = "message"
  <2>1. 1 \in 1..Len(AllLocks[what]) /\ Clash(AllLocks[what][1], Script[2])
    BY <1>4, ScriptIs, ClearIs, LeasesAre DEF AllLocks, Beat, Clash, Conflicts
  <2>2. QED
    BY <2>1, ClashContends
<1>5. CASE what = "reset"
  <2>1. 1 \in 1..Len(AllLocks[what]) /\ Clash(AllLocks[what][1], Script[2])
    BY <1>5, ScriptIs, ClearIs, LeasesAre DEF AllLocks, Beat, Clash, Conflicts
  <2>2. QED
    BY <2>1, ClashContends
<1>6. CASE what = "remove"
  <2>1. 2 \in 1..Len(AllLocks[what]) /\ Clash(AllLocks[what][2], Script[4])
    BY <1>6, ScriptIs, ClearIs, LeasesAre DEF AllLocks, Beat, Clash, Conflicts
  <2>2. QED
    BY <2>1, ClashContends
<1>7. CASE what = "send"
  <2>1. 1 \in 1..Len(AllLocks[what]) /\ Clash(AllLocks[what][1], Script[5])
    BY <1>7, ScriptIs, ClearIs, LeasesAre DEF AllLocks, Beat, Clash, Conflicts
  <2>2. QED
    BY <2>1, ClashContends
<1>8. CASE what = "start"
  <2>1. 1 \in 1..Len(AllLocks[what]) /\ Clash(AllLocks[what][1], Clear[1])
    BY <1>8, ScriptIs, ClearIs, LeasesAre DEF AllLocks, Beat, Clash, Conflicts
  <2>2. QED
    BY <2>1, ClashContends
<1>9. CASE what = "jobs"
  <2>1. 1 \in 1..Len(AllLocks[what]) /\ Clash(AllLocks[what][1], Clear[3])
    BY <1>9, ScriptIs, ClearIs, LeasesAre DEF AllLocks, Beat, Clash, Conflicts
  <2>2. QED
    BY <2>1, ClashContends
<1>10. CASE what = "run"
  <2>1. 1 \in 1..Len(AllLocks[what]) /\ Clash(AllLocks[what][1], Clear[2])
    BY <1>10, ScriptIs, ClearIs, LeasesAre DEF AllLocks, Beat, Clash, Conflicts
  <2>2. QED
    BY <2>1, ClashContends
<1>11. CASE what = "job"
  <2>1. 1 \in 1..Len(AllLocks[what]) /\ Clash(AllLocks[what][1], Clear[3])
    BY <1>11, ScriptIs, ClearIs, LeasesAre DEF AllLocks, Beat, Clash, Conflicts
  <2>2. QED
    BY <2>1, ClashContends
<1>12. CASE what = "results"
  <2>1. 1 \in 1..Len(AllLocks[what]) /\ Clash(AllLocks[what][1], Clear[2])
    BY <1>12, ScriptIs, ClearIs, LeasesAre DEF AllLocks, Beat, Clash, Conflicts
  <2>2. QED
    BY <2>1, ClashContends
<1>13. CASE what = "history"
  <2>1. 1 \in 1..Len(AllLocks[what]) /\ Clash(AllLocks[what][1], Clear[1])
    BY <1>13, ScriptIs, ClearIs, LeasesAre DEF AllLocks, Beat, Clash, Conflicts
  <2>2. QED
    BY <2>1, ClashContends
<1>14. CASE what = "clear"
  <2>1. 1 \in 1..Len(AllLocks[what]) /\ Clash(AllLocks[what][1], Clear[1])
    <3>1. AllLocks[what] = Clear
      BY <1>14 DEF AllLocks
    <3>2. Clash(Clear[1], Clear[1])
      BY ClearIs DEF Clash, Conflicts
    <3>3. QED
      BY <3>1, <3>2, ClearIs
  <2>2. 1 \in 1..4
    OBVIOUS
  <2>3. QED
    BY <2>1, <2>2, ClashContends
<1>15. QED
  BY KindsAre, <1>1, <1>2, <1>3, <1>4, <1>5, <1>6, <1>7, <1>8, <1>9, <1>10,
     <1>11, <1>12, <1>13, <1>14

LEMMA FirstIs ==
  ASSUME NEW what \in DOMAIN AllLocks
  PROVE  FirstPast[what][0] \in 1..Len(AllLocks[what])
<1>1. 0 \in 0..Len(AllLocks[what]) /\ Rest(what, 0) \in SUBSET Nat
  BY LengthsAre DEF Rest
<1>2. PICK i \in 1..Len(AllLocks[what]) : Contended(AllLocks[what][i])
  BY SomeContended
<1>3. i \in Rest(what, 0)
  BY <1>2 DEF Rest
<1>4. Min(Rest(what, 0)) \in Rest(what, 0)
  BY <1>1, <1>3, MinIs
<1>5. Rest(what, 0) \subseteq 1..Len(AllLocks[what])
  BY DEF Rest
<1>6. QED
  BY <1>1, <1>3, <1>4, <1>5, FirstPastDef

(* What is granted along with the next lock waits for nobody.              *)
LEMMA FirstPastSkips ==
  ASSUME NEW what \in DOMAIN AllLocks, NEW n \in 0..Len(AllLocks[what]),
         NEW i \in n + 1..Len(AllLocks[what]), i < FirstPast[what][n]
  PROVE  ~Contended(AllLocks[what][i])
<1> SUFFICES ASSUME Contended(AllLocks[what][i]) PROVE FALSE
  OBVIOUS
<1>1. i \in Rest(what, n) /\ Rest(what, n) \in SUBSET Nat
  BY LengthsAre DEF Rest
<1>2. Min(Rest(what, n)) <= i /\ Min(Rest(what, n)) \in Nat
  BY <1>1, MinIs
<1>3. FirstPast[what][n] = Min(Rest(what, n))
  BY <1>1, FirstPastDef
<1>4. i \in Nat
  BY <1>1
<1>5. QED
  BY <1>2, <1>3, <1>4

----------------------------------------------------------------------------
(* The queue.                                                              *)

LEMMA QueueWithoutIs ==
  ASSUME queue \in Seq(Process), IsInjective(queue), NEW p
  PROVE  /\ QueueWithout(p) \in Seq(Process)
         /\ IsInjective(QueueWithout(p))
         /\ Range(QueueWithout(p)) = Range(queue) \ {p}
<1>1. CASE ~Waiting(p)
  BY <1>1 DEF QueueWithout, Waiting
<1>2. CASE Waiting(p)
  <2> DEFINE i == CHOOSE k \in DOMAIN queue : queue[k] = p
             before == SubSeq(queue, 1, i - 1)
             after == SubSeq(queue, i + 1, Len(queue))
  <2>1. i \in 1..Len(queue) /\ queue[i] = p
    BY <1>2 DEF Waiting, Range
  <2>2. QueueWithout(p) = before \o after
    BY <1>2 DEF QueueWithout, RemoveAt
  <2> HIDE DEF i
  <2>3. /\ before \in Seq(Process)
        /\ Len(before) = i - 1
        /\ \A k \in 1..i - 1 : before[k] = queue[k]
    <3>1. /\ 1 \in Int /\ i - 1 \in Int
          /\ \A k \in 1..i - 1 : queue[k] \in Process
      BY <2>1, ElementOfSeq
    <3>2. /\ SubSeq(queue, 1, i - 1) \in Seq(Process)
          /\ Len(SubSeq(queue, 1, i - 1)) = IF 1 <= i - 1 THEN i - 1 - 1 + 1 ELSE 0
          /\ \A k \in 1..i - 1 - 1 + 1 : SubSeq(queue, 1, i - 1)[k] = queue[1 + k - 1]
      BY <3>1, SubSeqProperties
    <3>3. QED
      BY <2>1, <3>2
  <2>4. /\ after \in Seq(Process)
        /\ Len(after) = Len(queue) - i
        /\ \A k \in 1..Len(queue) - i : after[k] = queue[i + k]
    <3>1. /\ i + 1 \in Int /\ Len(queue) \in Int
          /\ \A k \in i + 1..Len(queue) : queue[k] \in Process
      BY <2>1, ElementOfSeq
    <3>2. /\ SubSeq(queue, i + 1, Len(queue)) \in Seq(Process)
          /\ Len(SubSeq(queue, i + 1, Len(queue))) =
               IF i + 1 <= Len(queue) THEN Len(queue) - (i + 1) + 1 ELSE 0
          /\ \A k \in 1..Len(queue) - (i + 1) + 1 :
               SubSeq(queue, i + 1, Len(queue))[k] = queue[i + 1 + k - 1]
      BY <3>1, SubSeqProperties
    <3>3. QED
      BY <2>1, <3>2
  <2> HIDE DEF before, after
  <2> DEFINE rest == before \o after
  <2>5. /\ rest \in Seq(Process)
        /\ Len(rest) = Len(queue) - 1
        /\ \A k \in 1..Len(queue) - 1 : rest[k] = IF k < i THEN queue[k] ELSE queue[k + 1]
    <3>1. /\ rest \in Seq(Process)
          /\ Len(rest) = Len(before) + Len(after)
          /\ \A k \in 1..Len(before) + Len(after) :
               rest[k] = IF k <= Len(before) THEN before[k] ELSE after[k - Len(before)]
      BY <2>3, <2>4, ConcatProperties
    <3>2. QED
      BY <2>1, <2>3, <2>4, <3>1
  <2> HIDE DEF rest
  <2>6. DOMAIN rest = 1..Len(queue) - 1 /\ DOMAIN queue = 1..Len(queue)
    BY <2>5
  <2>7. IsInjective(rest)
    BY <2>1, <2>5, <2>6 DEF IsInjective
  <2>8. Range(rest) = Range(queue) \ {p}
    <3>1. ASSUME NEW q \in Range(rest) PROVE q \in Range(queue) \ {p}
      <4>1. PICK k \in 1..Len(queue) - 1 : q = rest[k]
        BY <2>6, <3>1 DEF Range
      <4>2. PICK n \in 1..Len(queue) : n # i /\ q = queue[n]
        BY <2>1, <2>5, <4>1
      <4>3. QED
        BY <2>1, <2>6, <4>2 DEF Range, IsInjective
    <3>2. ASSUME NEW q \in Range(queue), q # p PROVE q \in Range(rest)
      <4>1. PICK n \in 1..Len(queue) : q = queue[n]
        BY <2>6 DEF Range
      <4>2. PICK k \in 1..Len(queue) - 1 : q = rest[k]
        <5>1. CASE n < i
          BY <2>1, <2>5, <4>1, <5>1
        <5>2. CASE n > i
          <6>1. n - 1 \in 1..Len(queue) - 1 /\ rest[n - 1] = queue[n]
            BY <2>1, <2>5, <5>2
          <6>2. QED
            BY <4>1, <6>1
        <5>3. QED
          BY <2>1, <3>2, <4>1, <5>1, <5>2
      <4>3. QED
        BY <2>6, <4>2 DEF Range
    <3>3. QED
      BY <3>1, <3>2
  <2>9. QED
    BY <2>2, <2>5, <2>7, <2>8 DEF rest
<1>3. QED
  BY <1>1, <1>2

(* A process that was not in the queue joins it.                           *)
LEMMA QueueWithOneMore ==
  ASSUME queue \in Seq(Process), IsInjective(queue), NEW p \in Process, ~Waiting(p),
         queue' = Append(queue, p)
  PROVE  /\ queue' \in Seq(Process)
         /\ IsInjective(queue')
         /\ Range(queue') = Range(queue) \cup {p}
<1>1. /\ queue' \in Seq(Process)
      /\ Len(queue') = Len(queue) + 1
      /\ \A i \in 1..Len(queue) : queue'[i] = queue[i]
      /\ queue'[Len(queue) + 1] = p
  BY AppendProperties
<1>2. DOMAIN queue = 1..Len(queue) /\ DOMAIN queue' = 1..Len(queue) + 1 /\ Len(queue) \in Nat
  BY <1>1
<1>3. \A i \in 1..Len(queue) : queue[i] # p
  BY <1>2 DEF Waiting, Range
<1>4. IsInjective(queue')
  <2>1. \A i, j \in 1..Len(queue) : queue[i] = queue[j] => i = j
    BY <1>2 DEF IsInjective
  <2>2. \A i, j \in 1..Len(queue) + 1 : queue'[i] = queue'[j] => i = j
    BY <1>1, <1>2, <1>3, <2>1
  <2>3. QED
    BY <1>2, <2>2 DEF IsInjective
<1>5. Range(queue') = Range(queue) \cup {p}
  <2>1. 1..Len(queue) + 1 = 1..Len(queue) \cup {Len(queue) + 1}
    BY <1>2
  <2>2. QED
    BY <1>1, <1>2, <2>1 DEF Range
<1>6. QED
  BY <1>1, <1>4, <1>5

----------------------------------------------------------------------------
(* The inductive invariant: no two processes hold locks that conflict, so  *)
(* that one script at a time is past the advisory lock.                    *)

Compatible ==
    \A p, q \in Process : p # q =>
        \A lock \in Held(p), other \in Held(q) : ~Clash(lock, other)

SchemaInv == TypeOK /\ Compatible

LEMMA HeldIs ==
  ASSUME TypeOK, NEW p \in Process, NEW lock \in Held(p)
  PROVE  /\ txn[p] \in DOMAIN AllLocks /\ Asked(p) = AllLocks[txn[p]]
         /\ \E i \in 1..granted[p] : i \in 1..Len(AllLocks[txn[p]]) /\ lock = AllLocks[txn[p]][i]
         /\ lock \in Range(AllLocks[txn[p]])
         /\ lock[2] \in Modes
<1>1. PICK i \in 1..granted[p] : lock = Asked(p)[i]
  BY DEF Held
<1>2. txn[p] \in DOMAIN AllLocks
  BY <1>1 DEF TypeOK, Asked
<1>3. Asked(p) = AllLocks[txn[p]] /\ i \in 1..Len(AllLocks[txn[p]])
  BY <1>1, <1>2, LengthsAre, SchemaAssumption DEF TypeOK, Asked
<1>4. lock[2] \in Modes
  BY <1>1, <1>2, <1>3, ModesAre
<1>5. AllLocks[txn[p]][i] \in Range(AllLocks[txn[p]])
  BY <1>2, <1>3, RangesAre
<1>6. QED
  BY <1>1, <1>2, <1>3, <1>4, <1>5

LEMMA NextLockIs ==
  ASSUME TypeOK, NEW p \in Process
  PROVE  NextLock(p) = 0 \/ (txn[p] \in DOMAIN AllLocks /\ NextLock(p) \in granted[p] + 1..Len(Asked(p)))
<1>1. CASE txn[p] = None
  BY <1>1 DEF NextLock
<1>2. CASE txn[p] # None
  <2>1. txn[p] \in DOMAIN AllLocks /\ granted[p] \in 0..Len(AllLocks[txn[p]])
    BY <1>2, LengthsAre DEF TypeOK, Asked
  <2>2. QED
    BY <1>2, <2>1, FirstPastIs DEF NextLock, Asked
<1>3. QED
  BY <1>1, <1>2

LEMMA InitSchema == Init => SchemaInv
<1> SUFFICES ASSUME Init PROVE SchemaInv
  OBVIOUS
<1>1. queue = << >> /\ DOMAIN queue = {} /\ Len(<< >>) = 0
  BY DEF Init
<1>2. queue \in Seq(Process) /\ IsInjective(queue)
  BY <1>1 DEF IsInjective
<1>3. \A p \in Process : ~Waiting(p)
  BY <1>1 DEF Waiting, Range
<1>4. \A p \in Process : granted[p] <= Len(Asked(p)) /\ txn[p] \notin Operation
  BY <1>1, SchemaAssumption DEF Init, Asked, Operation
<1>5. \A p \in Process : Held(p) = {}
  BY DEF Init, Held
<1>6. QED
  BY <1>2, <1>3, <1>4, <1>5 DEF Init, SchemaInv, TypeOK, Compatible

(* The locks p is granted on its way to the next contended one, which      *)
(* nobody else holds a lock against.                                       *)
LEMMA GrantedAgree ==
  ASSUME SchemaInv, NEW p \in Process, NEW what \in DOMAIN AllLocks,
         NEW n \in 0..Len(AllLocks[what]), n # 0 => txn[p] = what /\ granted[p] = n,
         NEW m \in n + 1..Len(AllLocks[what]), m = FirstPast[what][n],
         \A q \in Process \ {p} : \A other \in Held(q) : ~Clash(other, AllLocks[what][m]),
         NEW q \in Process \ {p}, NEW other \in Held(q), NEW i \in 1..m
  PROVE  ~Clash(AllLocks[what][i], other) /\ ~Clash(other, AllLocks[what][i])
<1> DEFINE lock == AllLocks[what][i]
<1>1. Len(AllLocks[what]) \in Nat /\ i \in 1..Len(AllLocks[what])
  BY LengthsAre
<1>2. lock[2] \in Modes /\ other[2] \in Modes
  BY <1>1, ModesAre, HeldIs DEF SchemaInv
<1>3. /\ txn[q] \in DOMAIN AllLocks /\ other \in Range(AllLocks[txn[q]])
  BY HeldIs DEF SchemaInv
<1>4. ~Clash(lock, other)
  <2>1. CASE i <= n
    <3>1. txn[p] = what /\ granted[p] = n /\ i \in 1..granted[p]
      BY <1>1, <2>1
    <3>2. lock \in Held(p)
      BY <3>1, SchemaAssumption DEF Held, Asked
    <3>3. QED
      BY <3>2 DEF SchemaInv, Compatible
  <2>2. CASE n < i /\ i < m
    <3>1. ~Contended(lock)
      BY <1>1, <2>2, FirstPastSkips
    <3>2. QED
      BY <1>3, <3>1 DEF Contended
  <2>3. CASE i = m
    <3>1. ~Clash(other, lock)
      BY <2>3
    <3>2. QED
      BY <1>2, <3>1, ClashesBothWays
  <2>4. QED
    BY <1>1, <2>1, <2>2, <2>3
<1>5. QED
  BY <1>2, <1>4, ClashesBothWays

LEMMA BeginKeeps ==
  ASSUME SchemaInv, NEW p \in Process, NEW what \in DOMAIN AllLocks,
         Begin(p, what), what \in Operation => up[p]
  PROVE  SchemaInv'
<1> DEFINE first == FirstPast[what][0]
<1>1. /\ granted[p] = 0 /\ ~Waiting(p)
      /\ first \in 1..Len(AllLocks[what]) /\ Len(AllLocks[what]) \in Nat
  BY FirstIs, LengthsAre DEF SchemaInv, TypeOK, Begin, Asked, AllGranted, NextLock
<1>2. /\ \A q \in Process \ {p} : txn'[q] = txn[q] /\ granted'[q] = granted[q]
      /\ txn'[p] = what /\ up' = up
      /\ txn' \in [Process -> DOMAIN AllLocks \cup {None}]
  BY DEF SchemaInv, TypeOK, Begin
<1>3. \A q \in Process \ {p} : /\ Held(q)' = Held(q) /\ Asked(q)' = Asked(q)
                              /\ NextLock(q)' = NextLock(q)
  BY <1>2 DEF Held, Asked, NextLock
<1>4. /\ Asked(p)' = AllLocks[what]
      /\ NextLock(p)' = FirstPast[what][granted'[p]]
  BY <1>2, SchemaAssumption DEF Asked, NextLock
<1>5. \A q \in Process : txn'[q] \in Operation => up'[q]
  BY <1>2 DEF SchemaInv, TypeOK
<1>6. ASSUME queue' = Append(queue, p), UNCHANGED granted PROVE SchemaInv'
  <2>1. granted'[p] = 0
    BY <1>1, <1>6
  <2>2. /\ queue' \in Seq(Process) /\ IsInjective(queue')
        /\ Range(queue') = Range(queue) \cup {p}
    BY <1>1, <1>6, QueueWithOneMore DEF SchemaInv, TypeOK
  <2>3. \A q \in Process : Waiting(q)' => ~AllGranted(q)'
    BY <1>1, <1>3, <1>4, <2>1, <2>2 DEF SchemaInv, TypeOK, Waiting, AllGranted
  <2>4. ASSUME NEW q \in Process PROVE granted'[q] <= Len(Asked(q))'
    <3>1. CASE q = p
      BY <1>1, <1>4, <2>1, <3>1
    <3>2. CASE q # p
      BY <1>2, <1>3, <3>2 DEF SchemaInv, TypeOK
    <3>3. QED
      BY <3>1, <3>2
  <2>5. Held(p)' = {}
    BY <2>1 DEF Held
  <2>6. Compatible'
    BY <1>3, <2>5 DEF SchemaInv, Compatible
  <2>7. QED
    BY <1>2, <1>5, <1>6, <2>2, <2>3, <2>4, <2>6 DEF SchemaInv, TypeOK
<1>7. ASSUME ~MustWaitFor(p, AllLocks[what][first]), UNCHANGED queue,
             granted' = [granted EXCEPT ![p] = first]
      PROVE  SchemaInv'
  <2>1. granted'[p] = first /\ granted' \in [Process -> Nat]
    BY <1>1, <1>7 DEF SchemaInv, TypeOK
  <2>2. \A q \in Process : Waiting(q)' => ~AllGranted(q)'
    BY <1>1, <1>3, <1>7 DEF SchemaInv, TypeOK, Waiting, AllGranted
  <2>3. ASSUME NEW q \in Process PROVE granted'[q] <= Len(Asked(q))'
    <3>1. CASE q = p
      BY <1>1, <1>4, <2>1, <3>1
    <3>2. CASE q # p
      BY <1>2, <1>3, <3>2 DEF SchemaInv, TypeOK
    <3>3. QED
      BY <3>1, <3>2
  <2>4. \A q \in Process \ {p} : \A other \in Held(q) : ~Clash(other, AllLocks[what][first])
    BY <1>7 DEF MustWaitFor
  <2>5. ASSUME NEW q \in Process \ {p}, NEW other \in Held(q), NEW lock \in Held(p)'
        PROVE  ~Clash(lock, other) /\ ~Clash(other, lock)
    <3>1. PICK i \in 1..first : lock = AllLocks[what][i]
      BY <1>4, <2>1, <2>5 DEF Held
    <3>2. 0 \in 0..Len(AllLocks[what]) /\ first \in 0 + 1..Len(AllLocks[what])
      BY <1>1
    <3>3. QED
      BY <2>4, <3>1, <3>2, GrantedAgree
  <2>6. Compatible'
    BY <1>3, <2>5 DEF SchemaInv, Compatible
  <2>7. QED
    BY <1>2, <1>5, <1>7, <2>1, <2>2, <2>3, <2>6 DEF SchemaInv, TypeOK
<1>8. QED
  BY <1>6, <1>7 DEF Begin

LEMMA EndKeeps ==
  ASSUME SchemaInv, NEW p \in Process, NEW alive \in BOOLEAN, End(p, alive)
  PROVE  SchemaInv'
<1>1. \A q \in Process \ {p} : /\ txn'[q] = txn[q] /\ granted'[q] = granted[q]
                              /\ up'[q] = up[q]
  BY DEF SchemaInv, TypeOK, End
<1>2. txn'[p] = None /\ granted'[p] = 0
  BY DEF SchemaInv, TypeOK, End
<1>3. /\ queue' \in Seq(Process) /\ IsInjective(queue')
      /\ Range(queue') = Range(queue) \ {p}
  BY QueueWithoutIs DEF SchemaInv, TypeOK, End
<1>4. TypeOK'
  <2>1. \A q \in Process : granted'[q] <= Len(Asked(q))'
    BY <1>1, <1>2 DEF SchemaInv, TypeOK, Asked
  <2>2. \A q \in Process : txn'[q] \in Operation => up'[q]
    BY <1>1, <1>2, SchemaAssumption DEF SchemaInv, TypeOK, Operation
  <2>3. \A q \in Process : Waiting(q)' => ~AllGranted(q)'
    BY <1>1, <1>3 DEF SchemaInv, TypeOK, Waiting, AllGranted, NextLock
  <2>4. /\ up' \in [Process -> BOOLEAN]
        /\ txn' \in [Process -> DOMAIN AllLocks \cup {None}]
        /\ granted' \in [Process -> Nat]
    BY DEF SchemaInv, TypeOK, End
  <2>5. QED
    BY <1>3, <2>1, <2>2, <2>3, <2>4 DEF TypeOK
<1>5. Compatible'
  <2>1. \A q \in Process \ {p} : Held(q)' = Held(q)
    BY <1>1 DEF Held, Asked
  <2>2. Held(p)' = {}
    BY <1>2 DEF Held
  <2>3. QED
    BY <2>1, <2>2 DEF SchemaInv, Compatible
<1>6. QED
  BY <1>4, <1>5 DEF SchemaInv

(* A lock is granted when nobody holds one against it, whatever the queue. *)
LEMMA ReceiveKeeps ==
  ASSUME SchemaInv, NEW p \in Process, ~AllGranted(p),
         \A q \in Process : ~BarredBy(p, q), Receive(p)
  PROVE  SchemaInv'
<1> DEFINE what == txn[p]
<1>1. /\ what \in DOMAIN AllLocks /\ Asked(p) = AllLocks[what]
      /\ NextLock(p) \in granted[p] + 1..Len(Asked(p))
      /\ NextLock(p) = FirstPast[what][granted[p]]
  BY NextLockIs, SchemaAssumption DEF SchemaInv, AllGranted, Asked, NextLock
<1>2. /\ UNCHANGED <<up, txn>>
      /\ \A q \in Process \ {p} : granted'[q] = granted[q]
      /\ granted'[p] = NextLock(p) /\ NextLock(p) \in Nat
      /\ granted' \in [Process -> Nat]
  BY <1>1 DEF SchemaInv, TypeOK, Receive
<1>3. /\ queue' \in Seq(Process) /\ IsInjective(queue')
      /\ Range(queue') = Range(queue) \ {p}
  BY QueueWithoutIs DEF SchemaInv, TypeOK, Receive
<1>4. TypeOK'
  <2>1. \A q \in Process : granted'[q] <= Len(Asked(q))'
    <3>1. \A q \in Process : Asked(q)' = Asked(q)
      BY <1>2 DEF Asked
    <3>2. granted'[p] <= Len(Asked(p))
      BY <1>1, <1>2, LengthsAre
    <3>3. QED
      BY <1>2, <3>1, <3>2 DEF SchemaInv, TypeOK
  <2>2. \A q \in Process : Waiting(q)' => ~AllGranted(q)'
    BY <1>2, <1>3 DEF SchemaInv, TypeOK, Waiting, AllGranted, NextLock
  <2>3. QED
    BY <1>2, <1>3, <2>1, <2>2 DEF SchemaInv, TypeOK
<1>5. ASSUME NEW q \in Process \ {p}, NEW other \in Held(q), NEW lock \in Held(p)'
      PROVE  ~Clash(lock, other) /\ ~Clash(other, lock)
  <2>1. PICK i \in 1..NextLock(p) : lock = AllLocks[what][i]
    BY <1>1, <1>2, <1>5 DEF Held, Asked
  <2>2. /\ granted[p] \in 0..Len(AllLocks[what])
        /\ NextLock(p) \in granted[p] + 1..Len(AllLocks[what])
    BY <1>1, LengthsAre DEF SchemaInv, TypeOK
  <2>3. \A r \in Process \ {p} : \A held \in Held(r) : ~Clash(held, AllLocks[what][NextLock(p)])
    BY <1>1 DEF BarredBy, Wanted
  <2>4. QED
    BY <1>1, <2>1, <2>2, <2>3, GrantedAgree
<1>6. Compatible'
  <2>1. \A q \in Process \ {p} : Held(q)' = Held(q)
    BY <1>2 DEF Held, Asked
  <2>2. QED
    BY <1>5, <2>1 DEF SchemaInv, Compatible
<1>7. QED
  BY <1>4, <1>6 DEF SchemaInv

LEMMA GrantKeeps ==
  ASSUME SchemaInv, NEW p \in Process, Grant(p) \/ Overtake(p)
  PROVE  SchemaInv'
<1>1. ASSUME Grant(p) PROVE SchemaInv'
  <2>1. \A q \in Process : ~BarredBy(p, q)
    BY <1>1 DEF Grant, MustWait, MustWaitFor, BarredBy
  <2>2. QED
    BY <1>1, <2>1, ReceiveKeeps DEF Grant
<1>2. ASSUME Overtake(p) PROVE SchemaInv'
  <2>1. ~AllGranted(p)
    BY <1>2 DEF Overtake, SoftCircles, SchemaInv, TypeOK, Waiting
  <2>2. QED
    BY <1>2, <2>1, ReceiveKeeps DEF Overtake
<1>3. QED
  BY <1>1, <1>2

LEMMA WaitKeeps ==
  ASSUME SchemaInv, NEW p \in Process, Wait(p)
  PROVE  SchemaInv'
<1>1. /\ queue' \in Seq(Process) /\ IsInjective(queue')
      /\ Range(queue') = Range(queue) \cup {p}
  BY QueueWithOneMore DEF SchemaInv, TypeOK, Wait
<1>2. \A q \in Process : Waiting(q)' => ~AllGranted(q)'
  BY <1>1 DEF SchemaInv, TypeOK, Wait, Waiting, AllGranted, NextLock
<1>3. QED
  BY <1>1, <1>2 DEF SchemaInv, TypeOK, Compatible, Wait, Asked, Held

LEMMA SchemaInvHolds == Spec => []SchemaInv
<1>1. SchemaInv /\ [Next]_vars => SchemaInv'
  <2> SUFFICES ASSUME SchemaInv, [Next]_vars PROVE SchemaInv'
    OBVIOUS
  <2>1. ASSUME NEW p \in Process, Start(p) \/ Operate(p) PROVE SchemaInv'
    BY <2>1, BeginKeeps, KindsAre DEF Start, Operate, Operation, SchemaInv, TypeOK
  <2>2. ASSUME NEW p \in Process, Commit(p) \/ Abort(p) \/ Crash(p) PROVE SchemaInv'
    BY <2>2, EndKeeps DEF Commit, Abort, Crash
  <2>3. CASE UNCHANGED vars
    BY <2>3
    DEF SchemaInv, TypeOK, Compatible, vars, Asked, Held, Waiting, AllGranted, NextLock
  <2>4. QED
    BY <2>1, <2>2, <2>3, GrantKeeps, WaitKeeps DEF Next
<1>2. QED
  BY <1>1, InitSchema, PTL DEF Spec

----------------------------------------------------------------------------
(* The theorems.                                                           *)

(* However many processes start, work, die and start again, only a process *)
(* that has applied the schema works on the tables, and transactions and   *)
(* the queue of the lock manager keep their types.                         *)
THEOREM SchemaTypeCorrect == Spec => []TypeOK
<1>1. SchemaInv => TypeOK
  BY DEF SchemaInv
<1>2. QED
  BY <1>1, SchemaInvHolds, PTL

(* What a process that is barred wants, and what bars it.                  *)
LEMMA WhoBars ==
  ASSUME TypeOK, NEW p \in Process, NEW q \in Process, BarredBy(p, q), ~AllGranted(p)
  PROVE  /\ txn[p] \in DOMAIN AllLocks /\ txn[q] \in DOMAIN AllLocks
         /\ granted[q] \in Nat /\ granted[q] > 0 /\ p # q
         /\ \E i \in 1..granted[q] :
              /\ i \in 1..Len(AllLocks[txn[q]])
              /\ Clash(AllLocks[txn[q]][i], AllLocks[txn[p]][NextLock(p)])
         /\ NextLock(p) \in granted[p] + 1..Len(AllLocks[txn[p]])
         /\ NextLock(p) \in 1..Len(AllLocks[txn[p]])
<1>1. PICK lock \in Held(q) : Clash(lock, Wanted(p))
  BY DEF BarredBy
<1>2. /\ txn[p] \in DOMAIN AllLocks /\ Asked(p) = AllLocks[txn[p]]
      /\ NextLock(p) \in granted[p] + 1..Len(Asked(p))
      /\ granted[p] \in Nat /\ granted[q] \in Nat
  BY NextLockIs, SchemaAssumption DEF AllGranted, Asked, TypeOK
<1>3. /\ txn[q] \in DOMAIN AllLocks
      /\ \E i \in 1..granted[q] :
           i \in 1..Len(AllLocks[txn[q]]) /\ lock = AllLocks[txn[q]][i]
  BY HeldIs
<1>4. granted[q] > 0 /\ Len(AllLocks[txn[p]]) \in Nat
  BY <1>2, <1>3, LengthsAre
<1>5. NextLock(p) \in 1..Len(AllLocks[txn[p]])
  BY <1>2, <1>4
<1>6. QED
  BY <1>1, <1>2, <1>3, <1>4, <1>5 DEF Wanted, BarredBy

(* Nobody but the script and the TRUNCATEs bars, or is barred.             *)
LEMMA StrongOnesMeet ==
  ASSUME TypeOK, NEW p \in Process, NEW q \in Process, BarredBy(p, q), ~AllGranted(p)
  PROVE  txn[p] \in {"script", "reset", "clear"} \/ txn[q] \in {"script", "reset", "clear"}
BY WhoBars, OthersWriteRows, RowLocksAgree

(* Two scripts, or two TRUNCATEs of the history, are not both granted      *)
(* their first lock.                                                       *)
LEMMA OneOfEach ==
  ASSUME SchemaInv, NEW p \in Process, NEW q \in Process, txn[p] = txn[q],
         txn[p] \in {"script", "clear"}, granted[p] > 0, granted[q] > 0
  PROVE  p = q
<1> SUFFICES ASSUME p # q PROVE FALSE
  OBVIOUS
<1>1. Asked(p) = AllLocks[txn[p]] /\ Asked(q) = AllLocks[txn[p]]
  BY KindsAre, SchemaAssumption DEF Asked
<1>2. AllLocks[txn[p]][1] \in Held(p) /\ AllLocks[txn[p]][1] \in Held(q)
  BY <1>1 DEF Held, SchemaInv, TypeOK
<1>3. AllLocks["script"] = Script /\ AllLocks["clear"] = Clear
  BY DEF AllLocks
<1>4. Clash(AllLocks[txn[p]][1], AllLocks[txn[p]][1])
  BY <1>3, ScriptIs, ClearIs DEF Clash, Conflicts
<1>5. QED
  BY <1>2, <1>4 DEF SchemaInv, Compatible

LEMMA CutIs ==
  ASSUME NEW S \in Circles, NEW T \in SUBSET S, NEW a \in T, NEW b \in S \ T
  PROVE  \E p \in T, q \in S \ T : BarredBy(p, q)
<1>1. T # {} /\ T # S
  OBVIOUS
<1>2. T \in (SUBSET S) \ {{}, S}
  BY <1>1
<1>3. PICK p \in T, q \in S \ T : <<p, q>> \in Barred
  BY <1>2 DEF Circles, Circle
<1>4. BarredBy(p, q)
  BY <1>3 DEF Barred
<1>5. QED
  BY <1>4

(* Whoever is in a circle is barred by another of it and bars another, so  *)
(* he holds a lock and wants a later one.                                  *)
LEMMA CircleIs ==
  ASSUME TypeOK, NEW S \in Circles
  PROVE  /\ S # {} /\ S \subseteq Process
         /\ \A p \in S : /\ ~AllGranted(p) /\ granted[p] > 0
                         /\ txn[p] \in DOMAIN AllLocks \ {"reset"}
                         /\ \E q \in S : BarredBy(p, q)
                         /\ \E q \in S : BarredBy(q, p)
<1>1. Range(queue) \subseteq Process /\ S \subseteq Range(queue)
  BY DEF TypeOK, Range, Circles
<1>3. PICK a \in S, b \in S : a # b
  BY DEF Circles, Circle
<1>4. ASSUME NEW p \in S
      PROVE  /\ ~AllGranted(p) /\ granted[p] > 0
             /\ txn[p] \in DOMAIN AllLocks \ {"reset"}
             /\ \E q \in S : BarredBy(p, q)
             /\ \E q \in S : BarredBy(q, p)
  <2>1. ~AllGranted(p)
    BY <1>1 DEF TypeOK, Waiting
  <2>2. PICK r \in S : r # p
    BY <1>3
  <2>3. PICK q \in S : BarredBy(p, q)
    <3> DEFINE T == {p}
    <3>1. p \in T /\ T \in SUBSET S /\ r \in S \ T
      BY <2>2
    <3> HIDE DEF T
    <3>2. PICK o \in T, q \in S \ T : BarredBy(o, q)
      BY <3>1, CutIs
    <3> USE DEF T
    <3>3. QED
      BY <3>2
  <2>4. PICK q2 \in S : BarredBy(q2, p)
    <3>1. r \in S \ {p} /\ S \ {p} \in SUBSET S /\ p \in S \ (S \ {p})
      BY <2>2
    <3>2. PICK o \in S \ {p}, q2 \in S \ (S \ {p}) : BarredBy(o, q2)
      BY <3>1, CutIs
    <3>3. q2 = p
      BY <3>2
    <3>4. QED
      BY <3>2, <3>3
  <2>5. ~AllGranted(q2)
    BY <1>1 DEF TypeOK, Waiting
  <2>6. granted[p] > 0 /\ granted[p] \in Nat
    BY <1>1, <2>4, <2>5, WhoBars
  <2>7. /\ txn[p] \in DOMAIN AllLocks
        /\ NextLock(p) \in granted[p] + 1..Len(AllLocks[txn[p]])
    BY <1>1, <2>1, <2>3, WhoBars
  <2>8. txn[p] # "reset"   \* it has one lock, which it holds
    <3>1. Len(AllLocks["reset"]) = 1
      BY DEF AllLocks
    <3>2. SUFFICES ASSUME txn[p] = "reset" PROVE FALSE
      OBVIOUS
    <3>3. NextLock(p) \in granted[p] + 1..1
      BY <2>7, <3>1, <3>2
    <3>4. QED
      BY <2>6, <3>3
  <2>9. QED
    BY <2>1, <2>3, <2>4, <2>6, <2>7, <2>8
<1>5. QED
  BY <1>1, <1>3, <1>4

(* Two that bar each other hold something the other wants.                 *)
LEMMA EachOther ==
  ASSUME TypeOK, NEW p \in Process, NEW q \in Process,
         BarredBy(p, q), BarredBy(q, p), ~AllGranted(p), ~AllGranted(q)
  PROVE  \E i, j \in 1..Len(AllLocks[txn[p]]) : \E k, l \in 1..Len(AllLocks[txn[q]]) :
            /\ i < j /\ k < l
            /\ Clash(AllLocks[txn[p]][i], AllLocks[txn[q]][l])
            /\ Clash(AllLocks[txn[q]][k], AllLocks[txn[p]][j])
<1>1. PICK i \in 1..granted[p] :
         /\ i \in 1..Len(AllLocks[txn[p]])
         /\ Clash(AllLocks[txn[p]][i], AllLocks[txn[q]][NextLock(q)])
  BY WhoBars
<1>2. PICK k \in 1..granted[q] :
         /\ k \in 1..Len(AllLocks[txn[q]])
         /\ Clash(AllLocks[txn[q]][k], AllLocks[txn[p]][NextLock(p)])
  BY WhoBars
<1>3. /\ NextLock(p) \in granted[p] + 1..Len(AllLocks[txn[p]])
      /\ NextLock(q) \in granted[q] + 1..Len(AllLocks[txn[q]])
      /\ NextLock(p) \in 1..Len(AllLocks[txn[p]])
      /\ NextLock(q) \in 1..Len(AllLocks[txn[q]])
      /\ granted[p] \in Nat /\ granted[q] \in Nat
  BY WhoBars
<1>4. i < NextLock(p) /\ k < NextLock(q)
  BY <1>1, <1>2, <1>3
<1>5. QED
  BY <1>1, <1>2, <1>3, <1>4

(* The script is in no circle with the TRUNCATE of the history: it locks   *)
(* the tables of the experiments last, and what it could then wait for     *)
(* would have to wait in turn for a TRUNCATE that it keeps out.            *)
LEMMA NoScriptWithClear ==
  ASSUME SchemaInv, NEW S \in Circles, NEW c \in S, txn[c] = "clear",
         NEW s \in S, txn[s] = "script"
  PROVE  FALSE
<1> DEFINE T == {p \in S : txn[p] \in Experiments}
<1>1. S \subseteq Process /\ \A p \in S : ~AllGranted(p) /\ txn[p] \in DOMAIN AllLocks
  BY CircleIs DEF SchemaInv
<1>2. PICK p \in T, q \in S \ T : BarredBy(p, q)
  <2>1. c \in T /\ s \notin T
    BY DEF Experiments
  <2>2. T \in SUBSET S /\ s \in S \ T
    BY <2>1
  <2> HIDE DEF T
  <2>3. QED
    BY <2>1, <2>2, CutIs
<1>3. PICK i \in 1..granted[q] :
         /\ i \in 1..Len(AllLocks[txn[q]])
         /\ Clash(AllLocks[txn[q]][i], AllLocks[txn[p]][NextLock(p)])
  BY <1>1, <1>2, WhoBars DEF SchemaInv
<1>4. txn[q] = "script" /\ i \in {7, 8}
  <2>1. AllLocks[txn[p]][NextLock(p)][1] \in ExperimentTables
    <3>1. NextLock(p) \in 1..Len(AllLocks[txn[p]])
      BY <1>1, <1>2, WhoBars DEF SchemaInv
    <3>2. QED
      BY <1>2, <3>1, ExperimentsLock
  <2>2. AllLocks[txn[q]][i][1] \in ExperimentTables
    BY <1>3, <2>1 DEF Clash
  <2>3. txn[q] \in DOMAIN AllLocks \ Experiments
    BY <1>1, <1>2
  <2>4. QED
    BY <1>3, <2>2, <2>3, OthersLock
<1>5. AllLocks["script"] = Script /\ Len(Script) = 8
  BY ScriptIs DEF AllLocks
<1>6. /\ granted[q] \in Nat /\ granted[q] >= 7
      /\ NextLock(q) \in granted[q] + 1..8
  <2>1. PICK r \in S : BarredBy(q, r)
    BY <1>2, CircleIs DEF SchemaInv
  <2>2. NextLock(q) \in granted[q] + 1..Len(AllLocks["script"])
    BY <1>1, <1>2, <1>4, <2>1, WhoBars DEF SchemaInv
  <2>3. granted[q] \in Nat
    BY <1>1, <1>2 DEF SchemaInv, TypeOK
  <2>4. granted[q] >= 7
    BY <1>3, <1>4, <2>3
  <2>5. QED
    BY <1>5, <2>2, <2>3, <2>4
<1>7. NextLock(q) = 8
  BY <1>6
<1>8. Script[7] \in Held(q)
  <2>1. Asked(q) = Script
    BY <1>4, <1>5, KindsAre, SchemaAssumption DEF Asked
  <2>2. 7 \in 1..granted[q]
    BY <1>6
  <2>3. QED
    BY <2>1, <2>2 DEF Held
<1>9. PICK r \in S : BarredBy(q, r)
  BY <1>2, CircleIs DEF SchemaInv
<1>10. PICK k \in 1..granted[r] :
          /\ k \in 1..Len(AllLocks[txn[r]])
          /\ Clash(AllLocks[txn[r]][k], Script[8])
  BY <1>1, <1>2, <1>4, <1>5, <1>7, <1>9, WhoBars DEF SchemaInv
<1>11. (txn[r] = "job" /\ k = 3) \/ (txn[r] = "clear" /\ k = 4)
  BY <1>1, <1>10, ClashLate
<1>12. PICK u \in S : BarredBy(r, u)
  BY CircleIs DEF SchemaInv
<1>13. /\ NextLock(r) \in granted[r] + 1..Len(AllLocks[txn[r]])
       /\ granted[r] \in Nat
  BY <1>1, <1>12, WhoBars DEF SchemaInv, TypeOK
<1>14. txn[r] = "job" /\ NextLock(r) = 4   \* the TRUNCATE holds all it needs
  <2>1. /\ Len(AllLocks["clear"]) = 4 /\ Len(AllLocks["job"]) = 4
    BY ClearIs DEF AllLocks
  <2>2. granted[r] >= k
    BY <1>10, <1>13
  <2>3. Len(AllLocks[txn[r]]) = 4
    BY <1>11, <2>1
  <2>4. NextLock(r) \in granted[r] + 1..4
    BY <1>13, <2>3
  <2>5. granted[r] # 4 /\ k # 4
    BY <1>11, <1>13, <2>2, <2>4
  <2>6. NextLock(r) = 4 /\ txn[r] = "job"
    BY <1>11, <1>13, <2>2, <2>4, <2>5
  <2>7. QED
    BY <2>6
<1>15. AllLocks["job"][4] = <<"experiment_runs", "RowShare">>
  BY DEF AllLocks
<1>16. PICK n \in 1..granted[u] :
          /\ n \in 1..Len(AllLocks[txn[u]])
          /\ Clash(AllLocks[txn[u]][n], <<"experiment_runs", "RowShare">>)
  BY <1>1, <1>12, <1>14, <1>15, WhoBars DEF SchemaInv
<1>17. txn[u] = "clear" /\ n = 2
  BY <1>1, <1>16, ClashLate
<1>18. Clear[2] \in Held(u)
  <2>1. Asked(u) = Clear
    BY <1>17, KindsAre, SchemaAssumption DEF Asked, AllLocks
  <2>2. QED
    BY <1>16, <1>17, <2>1 DEF Held
<1>19. u # q /\ Clash(Clear[2], Script[7])
  BY <1>4, <1>17, ScriptIs, ClearIs DEF Clash, Conflicts
<1>20. QED
  BY <1>1, <1>2, <1>8, <1>18, <1>19 DEF SchemaInv, Compatible

(* One of a circle that locks as much as nobody else does, with the others *)
(* each of which therefore waits for him and keeps him waiting.            *)
LEMMA AroundOne ==
  ASSUME SchemaInv, NEW S \in Circles, NEW s \in S, txn[s] \in {"script", "clear"},
         \A p, q \in S : BarredBy(p, q) => txn[p] = txn[s] \/ txn[q] = txn[s]
  PROVE  /\ \E p \in S : p # s
         /\ \A p \in S \ {s} : /\ txn[p] # txn[s]
                               /\ BarredBy(p, s) /\ BarredBy(s, p)
<1>1. /\ S \subseteq Process
      /\ \A p \in S : granted[p] > 0 /\ (\E q \in S : BarredBy(p, q)) /\ (\E q \in S : BarredBy(q, p))
  BY CircleIs DEF SchemaInv
<1>2. \A p \in S : txn[p] = txn[s] => p = s
  BY <1>1, OneOfEach
<1>3. \E p \in S : p # s
  BY <1>1 DEF BarredBy
<1>4. ASSUME NEW p \in S \ {s} PROVE txn[p] # txn[s] /\ BarredBy(p, s) /\ BarredBy(s, p)
  <2>1. PICK q \in S : BarredBy(p, q)
    BY <1>1
  <2>2. PICK r \in S : BarredBy(r, p)
    BY <1>1
  <2>3. txn[p] # txn[s]
    BY <1>2
  <2>4. q = s /\ r = s
    BY <1>2, <2>1, <2>2, <2>3
  <2>5. QED
    BY <2>1, <2>2, <2>3, <2>4
<1>5. QED
  BY <1>3, <1>4

(* The deadlocks on table locks, for every number of processes: the script *)
(* with a heartbeat that renews leases, and the TRUNCATE of the history    *)
(* with the reader of the results or the writers of jobs and executions.   *)
THEOREM OnlyKnownDeadlocksHolds == Spec => []OnlyKnownDeadlocks
<1>1. ASSUME SchemaInv, NEW S \in Circles
      PROVE  LET kinds == {txn[p] : p \in S}
             IN  \/ kinds = {"script", "leases"}
                 \/ "clear" \in kinds /\ kinds \subseteq {"clear", "results", "jobs", "job"}
  <2>1. /\ S # {} /\ S \subseteq Process
        /\ \A p \in S : /\ ~AllGranted(p) /\ txn[p] \in DOMAIN AllLocks \ {"reset"}
                        /\ \E q \in S : BarredBy(p, q)
    BY <1>1, CircleIs DEF SchemaInv
  <2>2. \A p, q \in S : BarredBy(p, q) => {txn[p], txn[q]} \cap {"script", "clear"} # {}
    BY <1>1, <2>1, StrongOnesMeet DEF SchemaInv
  <2>3. CASE \E c \in S : txn[c] = "clear"
    <3>1. PICK c \in S : txn[c] = "clear"
      BY <2>3
    <3>2. \A p \in S : txn[p] # "script"
      BY <1>1, <3>1, NoScriptWithClear
    <3>3. \A p, q \in S : BarredBy(p, q) => txn[p] = txn[c] \/ txn[q] = txn[c]
      BY <2>2, <3>1, <3>2
    <3>4. ASSUME NEW p \in S, p # c PROVE txn[p] \in {"results", "jobs", "job"}
      <4>1. txn[p] # "clear" /\ BarredBy(p, c) /\ BarredBy(c, p)
        BY <1>1, <3>1, <3>3, <3>4, AroundOne
      <4>2. PICK i, j \in 1..Len(AllLocks[txn[p]]), k, l \in 1..Len(AllLocks["clear"]) :
              /\ i < j /\ k < l
              /\ Clash(AllLocks[txn[p]][i], AllLocks["clear"][l])
              /\ Clash(AllLocks["clear"][k], AllLocks[txn[p]][j])
        BY <1>1, <2>1, <3>1, <3>4, <4>1, EachOther DEF SchemaInv
      <4>3. AllLocks["clear"] = Clear /\ Len(Clear) = 4
        BY ClearIs DEF AllLocks
      <4>4. txn[p] \in Operation \ {"reset", "clear"}
        BY <2>1, <3>2, <3>4, <4>1 DEF Operation
      <4>5. QED
        BY <4>2, <4>3, <4>4, OnlyThreeCross
    <3>5. QED
      BY <3>1, <3>4
  <2>4. CASE \A c \in S : txn[c] # "clear"
    <3>1. PICK s \in S : txn[s] = "script"
      BY <2>1, <2>2, <2>4
    <3>2. \A p, q \in S : BarredBy(p, q) => txn[p] = txn[s] \/ txn[q] = txn[s]
      BY <2>2, <2>4, <3>1
    <3>3. ASSUME NEW p \in S, p # s PROVE txn[p] = "leases"
      <4>1. txn[p] # "script" /\ BarredBy(p, s) /\ BarredBy(s, p)
        BY <1>1, <3>1, <3>2, <3>3, AroundOne
      <4>2. PICK i, j \in 1..Len(AllLocks[txn[p]]), k, l \in 1..Len(AllLocks["script"]) :
              /\ i < j /\ k < l
              /\ Clash(AllLocks[txn[p]][i], AllLocks["script"][l])
              /\ Clash(AllLocks["script"][k], AllLocks[txn[p]][j])
        BY <1>1, <2>1, <3>1, <3>3, <4>1, EachOther DEF SchemaInv
      <4>3. AllLocks["script"] = Script /\ Len(Script) = 8
        BY ScriptIs DEF AllLocks
      <4>4. txn[p] \in Operation \ {"reset", "clear"}
        BY <2>1, <2>4, <3>3, <4>1 DEF Operation
      <4>5. QED
        BY <4>2, <4>3, <4>4, OnlyLeasesCross
    <3>4. PICK p \in S : p # s
      BY <1>1, <3>1, <3>2, AroundOne
    <3>5. QED
      BY <3>1, <3>3, <3>4
  <2>5. QED
    BY <2>3, <2>4
<1>2. SchemaInv => OnlyKnownDeadlocks
  BY <1>1 DEF OnlyKnownDeadlocks
<1>3. QED
  BY <1>2, SchemaInvHolds, PTL

=============================================================================
