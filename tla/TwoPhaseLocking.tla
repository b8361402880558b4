-------------------------- MODULE TwoPhaseLocking --------------------------
(***************************************************************************)
(* The two-phase-locking TransactionManager of src/unnamed/part_020        *)
(* (lines 270-377) composed with its LockManager (module LockManager).     *)
(*                                                                         *)
(* Threads: one per transaction (the transaction1/transaction2 drivers,    *)
(* lines 380-394, generalised) and the thread that calls detectDeadlock    *)
(* (main, line 404).  Each LockManager method is atomic under its own      *)
(* mutex; each TransactionManager method holds TransactionManager::mtx,    *)
(* whose owner is tm_mutex.  releaseLocks holds mtx across its loop, so    *)
(* other threads' LockManager steps interleave with its iterations.        *)
(*                                                                         *)
(* commitTransaction and rollbackTransaction take mtx and, for an active   *)
(* transaction, call releaseLocks, which takes the same std::mutex again   *)
(* in the same thread.  That is undefined behaviour; with libstdc++ on     *)
(* glibc (a PTHREAD_MUTEX_DEFAULT mutex) the second lock blocks forever,   *)
(* and that is the outcome modelled: the thread stays in *_relock holding  *)
(* mtx, and the rest of both methods is never reached.                     *)
(***************************************************************************)
EXTENDS Naturals, Sequences, FiniteSets, WaitForGraph

CONSTANTS
    Txns, Resources, NoRequest,
    MaxAcquire,   \* bound on acquireLock calls per transaction
    NoThread      \* model value: mtx is free

VARIABLES
    lock_table, waiting,   \* the LockManager (module LockManager)
    tm_mutex,              \* owner of TransactionManager::mtx
    active_transactions,   \* set of begun, unfinished transaction ids
    txn_locks,             \* txn -> resources recorded by acquireLock
    wait_for_graph,        \* txn -> transactions it points to
    deadlock_reported,     \* last value returned by detectDeadlock
    pc,                    \* txn -> where its thread is
    target,                \* txn -> resource of its current acquireLock
    to_release,            \* txn -> resources left in the releaseLocks loop
    acquires               \* txn -> acquireLock calls made

vars == <<lock_table, waiting, tm_mutex, active_transactions, txn_locks,
          wait_for_graph, deadlock_reported, pc, target, to_release, acquires>>

LM == INSTANCE LockManager
        WITH owned <- [t \in Txns |-> {}], calls <- [t \in Txns |-> 0],
             shrinking <- [t \in Txns |-> FALSE], Ordered <- FALSE

PC == {"idle", "ready", "parked", "post", "releasing", "released",
       "commit_relock", "rollback_relock", "done"}

\* resources on which t has a request in the lock table
RequestedBy(t) == {r \in Resources : \E i \in 1..Len(lock_table[r]) : lock_table[r][i].txn_id = t}

Init ==
    /\ lock_table = [r \in Resources |-> <<>>]
    /\ waiting = [t \in Txns |-> NoRequest]
    /\ tm_mutex = NoThread
    /\ active_transactions = {}
    /\ txn_locks = [t \in Txns |-> {}]
    /\ wait_for_graph = [t \in Txns |-> {}]
    /\ deadlock_reported = "not_run"
    /\ pc = [t \in Txns |-> "idle"]
    /\ target = [t \in Txns |-> CHOOSE r \in Resources : TRUE]
    /\ to_release = [t \in Txns |-> {}]
    /\ acquires = [t \in Txns |-> 0]

-----------------------------------------------------------------------------
(* TransactionManager methods                                              *)

\* beginTransaction
BeginTransaction(t) ==
    /\ pc[t] = "idle"
    /\ tm_mutex = NoThread
    /\ active_transactions' = active_transactions \cup {t}
    /\ pc' = [pc EXCEPT ![t] = "ready"]
    /\ UNCHANGED <<lock_table, waiting, tm_mutex, txn_locks, wait_for_graph,
                   deadlock_reported, target, to_release, acquires>>

\* acquireLock, first statement: lock_manager.acquireLock, without mtx
AcquireLock(t, r, m) ==
    /\ pc[t] = "ready"
    /\ acquires[t] < MaxAcquire
    /\ LM!AcquireLock(t, r, m)
    /\ pc' = [pc EXCEPT ![t] = IF waiting'[t] = NoRequest THEN "post" ELSE "parked"]
    /\ target' = [target EXCEPT ![t] = r]
    /\ acquires' = [acquires EXCEPT ![t] = @ + 1]
    /\ UNCHANGED <<tm_mutex, active_transactions, txn_locks, wait_for_graph,
                   deadlock_reported, to_release>>

\* the parked lock_manager.acquireLock call returns
Resume(t) ==
    /\ pc[t] = "parked"
    /\ LM!WakeUp(t)
    /\ pc' = [pc EXCEPT ![t] = "post"]
    /\ UNCHANGED <<tm_mutex, active_transactions, txn_locks, wait_for_graph,
                   deadlock_reported, target, to_release, acquires>>

\* Faulty variants of the rest of acquireLock: the resource is not inserted
\* into txn_locks, or the stale parked request is recorded in its place.
RecordLockNoInsert(t) ==
    /\ pc[t] = "post"
    /\ tm_mutex = NoThread
    /\ pc' = [pc EXCEPT ![t] = "ready"]
    /\ UNCHANGED <<lock_table, waiting, tm_mutex, active_transactions, txn_locks,
                   wait_for_graph, deadlock_reported, target, to_release, acquires>>

RecordLockFromWaiting(t) ==
    /\ pc[t] = "post"
    /\ tm_mutex = NoThread
    /\ txn_locks' = [txn_locks EXCEPT ![t] = @ \cup {waiting[t]}]
    /\ pc' = [pc EXCEPT ![t] = "ready"]
    /\ UNCHANGED <<lock_table, waiting, tm_mutex, active_transactions,
                   wait_for_graph, deadlock_reported, target, to_release, acquires>>

\* acquireLock, rest: under mtx, record the resource and add an edge to
\* every other transaction with an ungranted request on it
RecordLock(t) ==
    LET r == target[t] IN
    /\ pc[t] = "post"
    /\ tm_mutex = NoThread
    /\ txn_locks' = [txn_locks EXCEPT ![t] = @ \cup {r}]
    /\ wait_for_graph' = [wait_for_graph EXCEPT ![t] = @ \cup
                            {lock_table[r][i].txn_id :
                                i \in {j \in 1..Len(lock_table[r]) :
                                         lock_table[r][j].txn_id # t /\ ~lock_table[r][j].granted}}]
    /\ pc' = [pc EXCEPT ![t] = "ready"]
    /\ UNCHANGED <<lock_table, waiting, tm_mutex, active_transactions,
                   deadlock_reported, target, to_release, acquires>>

\* releaseLocks, called by the client: take mtx and start the loop
StartReleaseLocks(t) ==
    /\ pc[t] = "ready"
    /\ tm_mutex = NoThread
    /\ tm_mutex' = t
    /\ to_release' = [to_release EXCEPT ![t] = txn_locks[t]]
    /\ pc' = [pc EXCEPT ![t] = "releasing"]
    /\ UNCHANGED <<lock_table, waiting, active_transactions, txn_locks,
                   wait_for_graph, deadlock_reported, target, acquires>>

\* one iteration: lock_manager.releaseLock, then drop t from the graph
ReleaseOne(t) ==
    /\ pc[t] = "releasing"
    /\ \E r \in to_release[t] :
          /\ LM!ReleaseLock(t, r)
          /\ to_release' = [to_release EXCEPT ![t] = @ \ {r}]
    /\ wait_for_graph' = [u \in Txns |-> IF u = t THEN {} ELSE wait_for_graph[u] \ {t}]
    /\ UNCHANGED <<tm_mutex, active_transactions, txn_locks, deadlock_reported,
                   pc, target, acquires>>

\* end of the loop: txn_locks.erase(txn_id), mtx unlocked
EndReleaseLocks(t) ==
    /\ pc[t] = "releasing"
    /\ to_release[t] = {}
    /\ txn_locks' = [txn_locks EXCEPT ![t] = {}]
    /\ tm_mutex' = NoThread
    /\ pc' = [pc EXCEPT ![t] = "released"]
    /\ UNCHANGED <<lock_table, waiting, active_transactions, wait_for_graph,
                   deadlock_reported, target, to_release, acquires>>

\* commitTransaction / rollbackTransaction: take mtx; an unknown id returns,
\* an active one reaches releaseLocks and blocks on mtx held by itself
Finish(t, relock) ==
    /\ pc[t] \in {"ready", "released"}
    /\ tm_mutex = NoThread
    /\ IF t \in active_transactions
          THEN /\ tm_mutex' = t
               /\ pc' = [pc EXCEPT ![t] = relock]
          ELSE /\ pc' = [pc EXCEPT ![t] = "done"]
               /\ UNCHANGED tm_mutex
    /\ UNCHANGED <<lock_table, waiting, active_transactions, txn_locks,
                   wait_for_graph, deadlock_reported, target, to_release, acquires>>

CommitTransaction(t) == Finish(t, "commit_relock")
RollbackTransaction(t) == Finish(t, "rollback_relock")

\* detectDeadlock, called by main's thread
RunDetector ==
    /\ tm_mutex = NoThread
    /\ deadlock_reported' = IF DetectDeadlock(wait_for_graph) THEN "deadlock" ELSE "no_deadlock"
    /\ UNCHANGED <<lock_table, waiting, tm_mutex, active_transactions, txn_locks,
                   wait_for_graph, pc, target, to_release, acquires>>

Next ==
    \/ \E t \in Txns :
          \/ BeginTransaction(t)
          \/ \E r \in Resources, m \in LM!LockType : AcquireLock(t, r, m)
          \/ Resume(t)
          \/ RecordLock(t)
          \/ StartReleaseLocks(t)
          \/ ReleaseOne(t)
          \/ EndReleaseLocks(t)
          \/ CommitTransaction(t)
          \/ RollbackTransaction(t)
    \/ RunDetector

\* Threads that can run do run; every client eventually commits.
Fairness ==
    \A t \in Txns :
        /\ WF_vars(BeginTransaction(t))
        /\ WF_vars(Resume(t))
        /\ WF_vars(RecordLock(t))
        /\ WF_vars(ReleaseOne(t))
        /\ WF_vars(EndReleaseLocks(t))
        /\ WF_vars(CommitTransaction(t))

Spec == Init /\ [][Next]_vars
FairSpec == Spec /\ Fairness

-----------------------------------------------------------------------------
(* Properties                                                              *)

TypeOK ==
    /\ LM!TypeOK
    /\ tm_mutex \in Txns \cup {NoThread}
    /\ active_transactions \subseteq Txns
    /\ txn_locks \in [Txns -> SUBSET Resources]
    /\ wait_for_graph \in [Txns -> SUBSET Txns]
    /\ deadlock_reported \in {"not_run", "deadlock", "no_deadlock"}
    /\ pc \in [Txns -> PC]
    /\ target \in [Txns -> Resources]
    /\ to_release \in [Txns -> SUBSET Resources]
    /\ acquires \in [Txns -> 0..MaxAcquire]

\* Between its calls, the resources txn_locks records for a transaction are
\* exactly those on which the lock table holds a request of it, so that
\* releaseLocks releases everything it holds and nothing more, even while
\* other threads acquire and release between the loop's iterations.
LocksAccounted ==
    \A t \in Txns : pc[t] \in {"ready", "released"} => txn_locks[t] = RequestedBy(t)

\* t is parked on a resource where u has a request whose mode conflicts
BlockedBy(t, u) ==
    /\ pc[t] = "parked"
    /\ t # u
    /\ LET r == waiting[t][1]
           m == waiting[t][2]
       IN  \E i \in 1..Len(lock_table[r]) :
              /\ lock_table[r][i].txn_id = u
              /\ (m = LM!EXCLUSIVE \/ lock_table[r][i].lock_type = LM!EXCLUSIVE)

\* transactions parked on one another in a cycle
RealDeadlock ==
    LET W == INSTANCE Graphs
    IN  W!HasCycle([node |-> Txns, edge |-> {<<t, u>> \in Txns \X Txns : BlockedBy(t, u)}])

\* Deadlock detection: a call of detectDeadlock made while transactions
\* are parked on one another in a cycle reports the deadlock.
DetectorComplete ==
    [][RunDetector /\ RealDeadlock => deadlock_reported' = "deadlock"]_vars

=============================================================================
