---------------------------- MODULE LockManager ----------------------------
(***************************************************************************)
(* The lock table of the two-phase-locking strategy: class LockManager in  *)
(* src/unnamed/part_020 (lines 175-268).                                   *)
(*                                                                         *)
(* Every method runs under LockManager::mtx, so each is one atomic step,   *)
(* except acquireLock, which may park its caller in cv.wait.  The wait     *)
(* releases mtx; the caller resumes (WakeUp) once the wait predicate       *)
(* holds: some request of the caller on that resource is granted.          *)
(*                                                                         *)
(* The callers are transactions that use the table the way                 *)
(* TransactionManager does (lines 313-340): a growing phase of             *)
(* acquireLock calls, then releaseLock on each resource they acquired.     *)
(***************************************************************************)
EXTENDS Naturals, Sequences, SequencesExt, FiniteSets

CONSTANTS
    Txns,        \* transaction ids, one client thread each
    Resources,   \* resource ids (a set of naturals, ordered)
    NoRequest,   \* model value: the caller is not parked in acquireLock
    MaxAcquire,  \* bound on acquireLock calls per transaction
    Ordered      \* TRUE: clients request resources in increasing order

ASSUME Resources \subseteq Nat /\ MaxAcquire \in Nat /\ Ordered \in BOOLEAN

SHARED == "SHARED"
EXCLUSIVE == "EXCLUSIVE"
LockType == {SHARED, EXCLUSIVE}

\* struct LockRequest, without its condition variable
LockRequest == [txn_id : Txns, lock_type : LockType, granted : BOOLEAN]

VARIABLES
    lock_table,  \* resource -> vector of LockRequest; <<>> = no entry
    waiting,     \* txn -> <<resource, mode>> it is parked on in cv.wait
    owned,       \* txn -> <<resource, mode>> pairs acquireLock returned
    calls,       \* txn -> number of acquireLock calls made
    shrinking    \* txn -> TRUE once it has released a lock

lm_vars == <<lock_table, waiting>>
client_vars == <<owned, calls, shrinking>>
vars == <<lock_table, waiting, owned, calls, shrinking>>

-----------------------------------------------------------------------------
(* Helpers                                                                 *)

\* some request of t in the vector reqs is granted (the cv.wait predicate)
HasGrant(reqs, t) == \E i \in 1..Len(reqs) : reqs[i].txn_id = t /\ reqs[i].granted

\* the loop that computes can_grant: no request of another transaction
\* conflicts, counting waiting requests as well as granted ones
CanGrant(reqs, t, m) ==
    \A i \in 1..Len(reqs) :
        reqs[i].txn_id = t \/ (reqs[i].lock_type # EXCLUSIVE /\ m # EXCLUSIVE)

Compatible(m1, m2) == m1 = SHARED /\ m2 = SHARED

ResourcesOf(pairs) == {p[1] : p \in pairs}

-----------------------------------------------------------------------------
(* LockManager methods                                                     *)

\* acquireLock up to its return or its cv.wait.  An absent entry and an
\* empty vector behave alike: the request is granted at once.  A refused
\* request is appended ungranted; the wait predicate is then checked
\* before the first sleep, so a caller that already holds a granted
\* request on the resource returns at once.
AcquireLock(t, r, m) ==
    LET reqs == lock_table[r]
        new  == Append(reqs, [txn_id |-> t, lock_type |-> m,
                              granted |-> CanGrant(reqs, t, m)])
    IN  /\ lock_table' = [lock_table EXCEPT ![r] = new]
        /\ waiting' = [waiting EXCEPT ![t] =
                          IF HasGrant(new, t) THEN NoRequest ELSE <<r, m>>]

\* return from cv.wait: mtx reacquired and the predicate holds
WakeUp(t) ==
    /\ waiting[t] # NoRequest
    /\ HasGrant(lock_table[waiting[t][1]], t)
    /\ waiting' = [waiting EXCEPT ![t] = NoRequest]
    /\ UNCHANGED lock_table

\* Faulty variants of releaseLock, each of which the properties must catch:
\* the index of the first waiter taken before the erase ...
ReleaseLockStaleIndex(t, r) ==
    LET rest == SelectSeq(lock_table[r], LAMBDA q : q.txn_id # t)
        i    == SelectInSeq(lock_table[r], LAMBDA q : ~q.granted)
    IN  /\ lock_table' = [lock_table EXCEPT ![r] =
                             IF i = 0 THEN rest ELSE [rest EXCEPT ![i].granted = TRUE]]
        /\ UNCHANGED waiting

\* releaseLock: drop every request of t on r; an emptied entry is erased,
\* otherwise the first ungranted request is granted and notified
ReleaseLock(t, r) ==
    LET rest == SelectSeq(lock_table[r], LAMBDA q : q.txn_id # t)
        i    == SelectInSeq(rest, LAMBDA q : ~q.granted)
    IN  /\ lock_table' = [lock_table EXCEPT ![r] =
                             IF i = 0 THEN rest ELSE [rest EXCEPT ![i].granted = TRUE]]
        /\ UNCHANGED waiting

-----------------------------------------------------------------------------
(* The calling transactions                                                *)

Init ==
    /\ lock_table = [r \in Resources |-> <<>>]
    /\ waiting = [t \in Txns |-> NoRequest]
    /\ owned = [t \in Txns |-> {}]
    /\ calls = [t \in Txns |-> 0]
    /\ shrinking = [t \in Txns |-> FALSE]

\* growing phase: TransactionManager::acquireLock calls acquireLock
Acquire(t, r, m) ==
    /\ waiting[t] = NoRequest
    /\ ~shrinking[t]
    /\ calls[t] < MaxAcquire
    /\ Ordered => \A q \in ResourcesOf(owned[t]) : q < r
    /\ AcquireLock(t, r, m)
    /\ calls' = [calls EXCEPT ![t] = @ + 1]
    /\ owned' = [owned EXCEPT ![t] =
                    IF waiting'[t] = NoRequest THEN @ \cup {<<r, m>>} ELSE @]
    /\ UNCHANGED shrinking

\* Faulty variant: the returned pair is read after waiting is reset.
ResumeAfterReset(t) ==
    /\ WakeUp(t)
    /\ owned' = [owned EXCEPT ![t] = @ \cup {waiting'[t]}]
    /\ UNCHANGED <<calls, shrinking>>

\* the parked acquireLock call returns to its caller
Resume(t) ==
    /\ WakeUp(t)
    /\ owned' = [owned EXCEPT ![t] = @ \cup {waiting[t]}]
    /\ UNCHANGED <<calls, shrinking>>

\* shrinking phase: one iteration of the loop in releaseLocks
Release(t, r) ==
    /\ waiting[t] = NoRequest
    /\ r \in ResourcesOf(owned[t])
    /\ ReleaseLock(t, r)
    /\ owned' = [owned EXCEPT ![t] = {p \in @ : p[1] # r}]
    /\ shrinking' = [shrinking EXCEPT ![t] = TRUE]
    /\ UNCHANGED calls

Next ==
    \E t \in Txns :
        \/ \E r \in Resources, m \in LockType : Acquire(t, r, m)
        \/ Resume(t)
        \/ \E r \in Resources : Release(t, r)

Spec == Init /\ [][Next]_vars

-----------------------------------------------------------------------------
(* Properties                                                              *)

TypeOK ==
    /\ lock_table \in [Resources -> Seq(LockRequest)]
    /\ waiting \in [Txns -> (Resources \X LockType) \cup {NoRequest}]
    /\ owned \in [Txns -> SUBSET (Resources \X LockType)]
    /\ calls \in [Txns -> 0..MaxAcquire]
    /\ shrinking \in [Txns -> BOOLEAN]

\* A transaction parked in acquireLock on r always faces a granted request
\* of another transaction on r.  Otherwise nobody would ever call
\* releaseLock(r) on its behalf, and releaseLock's wake-one policy
\* (grant only the first ungranted request) would leave it parked forever.
WaiterHasHolder ==
    \A t \in Txns :
        LET r == waiting[t][1] IN
        waiting[t] # NoRequest /\ ~HasGrant(lock_table[r], t)
            => \E u \in Txns \ {t} : HasGrant(lock_table[r], u)

\* The lock-table invariant of the spec: the granted requests on a
\* resource are all SHARED, or all belong to one transaction.
GrantedCompatible ==
    \A r \in Resources :
        \A i, j \in 1..Len(lock_table[r]) :
            LET a == lock_table[r][i]
                b == lock_table[r][j]
            IN  a.granted /\ b.granted /\ a.txn_id # b.txn_id
                    => Compatible(a.lock_type, b.lock_type)

=============================================================================
