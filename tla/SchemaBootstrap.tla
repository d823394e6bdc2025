-------------------------- MODULE SchemaBootstrap --------------------------
(***************************************************************************)
(* Every process of the system, the web app and each worker, runs the      *)
(* whole of schema.sql in one transaction before it does anything else,    *)
(* also when it is only restarted and the others are working on the        *)
(* tables.  The statements of the script change nothing then, but they     *)
(* still take table locks, and a transaction keeps the locks it has until  *)
(* it ends.  So does the TRUNCATE that clears the history of experiments,  *)
(* which locks four tables against everybody.  This module models the      *)
(* table locks of all transactions of the program, the queue for them, and *)
(* the deadlock detector of PostgreSQL.                                    *)
(*                                                                         *)
(* A process runs one transaction at a time here; one that has several     *)
(* connections busy is several members of Process.                         *)
(***************************************************************************)
EXTENDS Naturals, Sequences, SequencesExt

CONSTANTS Process, None

VARIABLES up,      \* has the process applied the schema and not died since?
          txn,     \* what its transaction does, None when it has none
          granted, \* how far along the locks of its transaction it is
          queue    \* the processes waiting for a lock, in the order they asked

vars == <<up, txn, granted, queue>>

----------------------------------------------------------------------------
(* The lock manager of the server.                                         *)

\* The modes a mode conflicts with (the table of the PostgreSQL manual, less
\* the modes nothing here takes).
Conflicts ==
    LET writes == {"RowShare", "RowExclusive"}
        strong == {"Exclusive", "AccessExclusive"}
    IN  [AccessShare       |-> {"AccessExclusive"},
         RowShare          |-> strong,
         RowExclusive      |-> {"Share", "ShareRowExclusive"} \cup strong,
         Share             |-> {"RowExclusive", "ShareRowExclusive"} \cup strong,
         ShareRowExclusive |-> {"RowExclusive", "Share", "ShareRowExclusive"} \cup strong,
         Exclusive         |-> writes \cup {"Share", "ShareRowExclusive"} \cup strong,
         AccessExclusive   |-> writes \cup {"AccessShare", "Share", "ShareRowExclusive"}
                                 \cup strong]

\* apply_schema: the advisory lock, then the tables in the order of the file.
\* CREATE TABLE IF NOT EXISTS takes no lock on a table that is there, CREATE
\* INDEX IF NOT EXISTS takes Share before it looks for the index, and CREATE OR
\* REPLACE TRIGGER takes ShareRowExclusive.
ScriptTables ==
    << <<"messages", "Share">>, <<"messages", "ShareRowExclusive">>,
       <<"consumers", "Share">>,
       <<"worker_commands", "Share">>, <<"worker_commands", "ShareRowExclusive">>,
       <<"experiment_runs", "Share">>, <<"experiment_executions", "Share">> >>

\* mutant ScriptTables: without the advisory lock.
Script == << <<"schema_key", "Exclusive">> >> \o ScriptTables

\* heartbeat: the worker, its consumers, and the leases when it has any.
Beat == << <<"workers", "RowExclusive">>, <<"consumers", "RowExclusive">> >>
BeatWithLeases == Append(Beat, <<"messages", "RowExclusive">>)

\* clear_history: TRUNCATE locks its tables in the order it names them.
Clear == << <<"experiments", "AccessExclusive">>, <<"experiment_runs", "AccessExclusive">>,
            <<"experiment_jobs", "AccessExclusive">>,
            <<"experiment_executions", "AccessExclusive">> >>

\* The locks of each transaction, in the order it takes them: a query locks
\* its tables as it names them, and a foreign key is checked when its row has
\* been written.  Reads of a single table that no TRUNCATE of several tables
\* meets are left out, and locks no stronger than one the transaction has;
\* remove_consumers is a beat that does not lock workers, and take_commands a
\* send that does not.
AllLocks ==
    [script   |-> Script,
     beat     |-> Beat,
     leases   |-> BeatWithLeases,
     message  |-> << <<"messages", "RowExclusive">> >>,
     reset    |-> << <<"messages", "AccessExclusive">> >>,
     remove   |-> << <<"workers", "RowExclusive">>, <<"consumers", "RowExclusive">>,
                     <<"worker_commands", "RowExclusive">> >>,
     send     |-> << <<"worker_commands", "RowExclusive">>, <<"workers", "RowShare">> >>,
     start    |-> << <<"experiments", "RowExclusive">>, <<"experiment_runs", "RowExclusive">> >>,
     jobs     |-> << <<"experiment_jobs", "RowExclusive">>, <<"experiment_runs", "RowShare">> >>,
     run      |-> << <<"experiment_runs", "RowExclusive">> >>,
     job      |-> << <<"experiment_jobs", "RowShare">>, <<"experiment_jobs", "RowExclusive">>,
                     <<"experiment_executions", "RowExclusive">>,
                     <<"experiment_runs", "RowShare">> >>,
     results  |-> << <<"experiment_runs", "AccessShare">>, <<"experiments", "AccessShare">>,
                     <<"experiment_executions", "AccessShare">> >>,
     history  |-> << <<"experiments", "AccessShare">>, <<"experiment_runs", "AccessShare">> >>,
     clear    |-> Clear]

Clash(lock, other) == lock[1] = other[1] /\ lock[2] \in Conflicts[other[2]]

Operation == DOMAIN AllLocks \ {"script"}

ASSUME SchemaAssumption == None \notin DOMAIN AllLocks

\* A lock no transaction clashes with neither waits nor makes another wait
\* (those of workers): it is granted together with the next one that may.
Contended(lock) ==
    \E what \in DOMAIN AllLocks : \E other \in Range(AllLocks[what]) : Clash(lock, other)

\* The position of the first contended lock past the n-th, 0 if there is none.
FirstPast ==
    [what \in DOMAIN AllLocks |-> [n \in 0..Len(AllLocks[what]) |->
        LET rest == {i \in n + 1..Len(AllLocks[what]) : Contended(AllLocks[what][i])}
        IN  IF rest = {} THEN 0 ELSE Min(rest)]]

----------------------------------------------------------------------------

Asked(p) == IF txn[p] = None THEN << >> ELSE AllLocks[txn[p]]

\* The locks a process holds: those of its transaction it was granted so far.
HeldBySession(p) ==   \* mutant: pg_advisory_lock, which outlives the transaction
    {Asked(p)[i] : i \in 1..granted[p]} \cup (IF up[p] THEN {Script[1]} ELSE {})
Held(p) == {Asked(p)[i] : i \in 1..granted[p]}

\* The position of the lock it has to ask for next, 0 once it needs no more.
NextLock(p) == IF txn[p] = None THEN 0 ELSE FirstPast[txn[p]][granted[p]]

AllGranted(p) == NextLock(p) = 0

Wanted(p) == Asked(p)[NextLock(p)]

\* q holds a lock that conflicts with the next one p wants.
BarredBy(p, q) == p # q /\ \E lock \in Held(q) : Clash(lock, Wanted(p))

\* A request also waits for the conflicting requests ahead of it in the queue,
\* except for those that wait for p itself (JoinWaitQueue of the server).
Ahead(p) == {queue[i] : i \in {j \in DOMAIN queue : \A k \in 1..j : queue[k] # p}}

MustWaitFor(p, lock) ==
    \/ \E q \in Process \ {p} : \E other \in Held(q) : Clash(other, lock)
    \/ \E q \in Ahead(p) : Clash(Wanted(q), lock) /\ ~BarredBy(q, p)

MustWait(p) == MustWaitFor(p, Wanted(p))

Waiting(p) == p \in Range(queue)

\* Who of those that wait does so for a lock of whom, and who for his turn.
Barred == {e \in Range(queue) \X Range(queue) : BarredBy(e[1], e[2])}

Behind ==
    {e \in Range(queue) \X Range(queue) :
        e[2] \in Ahead(e[1]) /\ Clash(Wanted(e[2]), Wanted(e[1])) /\ ~BarredBy(e[2], e[1])}

\* Every one of S waits, at first or second hand, for every other.
Circle(S, edges) ==
    /\ \E p, q \in S : p # q
    /\ \A T \in (SUBSET S) \ {{}, S} : \E p \in T : \E q \in S \ T : <<p, q>> \in edges

\* Deadlocks, and those that a different order of the queue would avoid.
Circles == {S \in SUBSET Range(queue) : Circle(S, Barred)}
SoftCircles == {S \in SUBSET Range(queue) : Circle(S, Barred \cup Behind)}

----------------------------------------------------------------------------

\* The queue without p.
QueueWithout(p) ==
    IF Waiting(p) THEN RemoveAt(queue, CHOOSE i \in DOMAIN queue : queue[i] = p) ELSE queue

Init ==
    /\ up = [p \in Process |-> FALSE]
    /\ txn = [p \in Process |-> None]
    /\ granted = [p \in Process |-> 0]
    /\ queue = << >>

\* A transaction begins with the request for its first contended lock, which
\* is granted or has to wait.
Begin(p, what) ==
    LET first == FirstPast[what][0]
        waits == MustWaitFor(p, AllLocks[what][first])
    IN  /\ txn[p] = None
        /\ txn' = [txn EXCEPT ![p] = what]
        /\ \/ waits /\ queue' = Append(queue, p) /\ UNCHANGED granted
           \/ ~waits /\ granted' = [granted EXCEPT ![p] = first] /\ UNCHANGED queue
        /\ UNCHANGED up

End(p, alive) ==
    /\ up' = [up EXCEPT ![p] = alive]
    /\ txn' = [txn EXCEPT ![p] = None]
    /\ granted' = [granted EXCEPT ![p] = 0]
    /\ queue' = QueueWithout(p)

\* lifespan and worker.main: the pool is open, the schema comes first.
Start(p) == ~up[p] /\ Begin(p, "script")

\* A process that has applied the schema goes about its work.
OperateUnprepared(p) == \E what \in Operation : Begin(p, what)   \* mutant: schema later
Operate(p) == up[p] /\ \E what \in Operation : Begin(p, what)

Receive(p) ==
    /\ granted' = [granted EXCEPT ![p] = NextLock(p)]
    /\ queue' = QueueWithout(p)
    /\ UNCHANGED <<up, txn>>

\* The next lock of p is granted, at once or after a wait.
Grant(p) ==
    /\ ~AllGranted(p)
    /\ ~MustWait(p)
    /\ Receive(p)

\* The request of p has to wait.
Wait(p) ==
    /\ ~AllGranted(p)
    /\ ~Waiting(p)
    /\ MustWait(p)
    /\ queue' = Append(queue, p)
    /\ UNCHANGED <<up, txn, granted>>

\* The transaction has done all it asked for and gives its locks back; a
\* starting process is up once the script has committed.
Commit(p) ==
    /\ txn[p] # None
    /\ AllGranted(p)
    /\ End(p, TRUE)

\* The detector aborts one transaction of the circle.  Nothing catches the
\* error in a process that is starting: it exits.  Elsewhere it is logged and
\* the process goes on.
Abort(p) ==
    /\ \E S \in Circles : p \in S
    /\ End(p, txn[p] # "script")

\* The detector finds a circle that is closed only by the order of the queue:
\* it puts p, which waits for nothing but its turn, ahead.
Overtake(p) ==
    /\ \E S \in SoftCircles : p \in S
    /\ ~\E q \in Process : BarredBy(p, q)
    /\ Receive(p)

\* The process dies, or its connection breaks while it starts.
Crash(p) == (up[p] \/ txn[p] # None) /\ End(p, FALSE)

Next ==
    \E p \in Process :
        \/ Start(p) \/ Operate(p) \/ Grant(p) \/ Wait(p) \/ Commit(p)
        \/ Abort(p) \/ Overtake(p) \/ Crash(p)

\* A transaction goes on to its next lock and to its end, the server grants
\* what can be granted, and the detector runs in every transaction that has
\* waited for a second.
Fairness ==
    /\ \A p \in Process : WF_vars(Grant(p) \/ Wait(p) \/ Commit(p))
    /\ WF_vars(\E p \in Process : Abort(p) \/ Overtake(p))

Spec == Init /\ [][Next]_vars /\ Fairness

----------------------------------------------------------------------------
(* Properties.                                                             *)

\* Type correctness; a transaction is never granted more than it asks for, and
\* only a process that is up does anything but apply the schema (lifespan and
\* worker.main await apply_schema before they start any task).
TypeOK ==
    /\ up \in [Process -> BOOLEAN]
    /\ txn \in [Process -> DOMAIN AllLocks \cup {None}]
    /\ granted \in [Process -> Nat]
    /\ \A p \in Process :
          /\ granted[p] <= Len(Asked(p))
          /\ txn[p] \in Operation => up[p]
    /\ queue \in Seq(Process) /\ IsInjective(queue)
    /\ \A p \in Process : Waiting(p) => ~AllGranted(p)

\* The script takes the lock of messages and of worker_commands twice, the
\* second time stronger than the first, so two scripts side by side would
\* deadlock: the advisory lock of apply_schema prevents it.  What is left is
\* the script with heartbeats that renew leases, which lock consumers before
\* messages while the script locks messages before consumers; and the TRUNCATE
\* of the history with RESULTS_SQL, which locks experiment_runs before
\* experiments, and with the statements that write experiment_jobs before a
\* foreign key leads them to experiment_runs.  No other transactions of the
\* program deadlock on table locks, and no three kinds do together.
OnlyKnownDeadlocks ==
    \A S \in Circles :
        LET kinds == {txn[p] : p \in S}
        IN  \/ kinds = {"script", "leases"}
            \/ "clear" \in kinds /\ kinds \subseteq {"clear", "results", "jobs", "job"}

\* No transaction waits for ever, whatever starts, works and dies around it:
\* the advisory lock of the script is given back with its transaction
\* (pg_advisory_xact_lock), a deadlock is broken, a circle that only the
\* queue closes is opened, and every other wait is for somebody who gets to
\* his end.  So every process is without one again and again.
TransactionsEnd == \A p \in Process : []<>(txn[p] = None)

=============================================================================
