-------------------------- MODULE IsolationLevels --------------------------
(***************************************************************************)
(* The isolation-level store of src/unnamed/part_020 (lines 8-138):        *)
(* class Transaction with its read cache local_data, and class Database,   *)
(* which forwards read, write, commit and rollback to the transaction.     *)
(*                                                                         *)
(* Each transaction is driven by its own thread.  Every call is one atomic *)
(* step: the parts that touch the shared map run under the static          *)
(* data_mutex, the rest touches only the caller's own Transaction.  The    *)
(* READ_UNCOMMITTED read takes no lock; an aligned int is read whole, so   *)
(* it sees the value before or after a concurrent write, as here.          *)
(*                                                                         *)
(* Values are abstracted to fresh numbers: each write call writes the next *)
(* one, so two writes never write the same value.  0 stands for the        *)
(* values the constructor stores.                                          *)
(***************************************************************************)
EXTENDS Naturals, FiniteSets

CONSTANTS
    Txns,     \* transaction ids, one driving thread each
    Keys,     \* the keys of Database::data, all set by its constructor
    Levels,   \* the isolation levels the driver begins transactions with
    MaxOps,   \* bound on read/write calls per transaction
    None      \* model value: no entry in local_data / nothing read yet

READ_UNCOMMITTED == "READ_UNCOMMITTED"
READ_COMMITTED == "READ_COMMITTED"
REPEATABLE_READ == "REPEATABLE_READ"
SERIALIZABLE == "SERIALIZABLE"
IsolationLevel == {READ_UNCOMMITTED, READ_COMMITTED, REPEATABLE_READ, SERIALIZABLE}

ASSUME Levels \subseteq IsolationLevel /\ MaxOps \in Nat

\* the levels whose writes go straight to the shared map
DirectWrite == {READ_UNCOMMITTED, READ_COMMITTED}

VARIABLES
    data,        \* Database::data: key -> value
    level,       \* txn -> its isolation_level
    local_data,  \* txn -> key -> cached or buffered value, or None
    pc,          \* txn -> "idle", "active", "committed", "rolledback"
    ops,         \* txn -> read/write calls made
    next_value,  \* the last value written so far
    retired,     \* key -> values that were current and were replaced
    first_read,  \* txn -> key -> value its first read returned, or None
    last_read,   \* txn -> key -> value its latest read returned, or None
    wrote        \* txn -> keys it has called write on

vars == <<data, level, local_data, pc, ops, next_value, retired,
          first_read, last_read, wrote>>

MaxValue == Cardinality(Txns) * MaxOps
Values == 0..MaxValue

Init ==
    /\ data = [k \in Keys |-> 0]
    /\ level = [t \in Txns |-> CHOOSE l \in Levels : TRUE]
    /\ local_data = [t \in Txns |-> [k \in Keys |-> None]]
    /\ pc = [t \in Txns |-> "idle"]
    /\ ops = [t \in Txns |-> 0]
    /\ next_value = 0
    /\ retired = [k \in Keys |-> {}]
    /\ first_read = [t \in Txns |-> [k \in Keys |-> None]]
    /\ last_read = [t \in Txns |-> [k \in Keys |-> None]]
    /\ wrote = [t \in Txns |-> {}]

\* data' is new; the replaced values of the keys it changes are retired
Install(new) ==
    /\ data' = new
    /\ retired' = [k \in Keys |->
                      IF new[k] # data[k] THEN retired[k] \cup {data[k]} ELSE retired[k]]

\* begin_transaction(t, level): emplace an active Transaction
BeginTransaction(t, l) ==
    /\ pc[t] = "idle"
    /\ level' = [level EXCEPT ![t] = l]
    /\ pc' = [pc EXCEPT ![t] = "active"]
    /\ UNCHANGED <<data, local_data, ops, next_value, retired,
                   first_read, last_read, wrote>>

\* Faulty Transaction::read under which the snapshot levels never cache.
ReadNoCache(t, k) ==
    /\ pc[t] = "active"
    /\ ops[t] < MaxOps
    /\ LET v == IF local_data[t][k] # None THEN local_data[t][k] ELSE data[k]
       IN  /\ first_read' = [first_read EXCEPT ![t][k] = IF @ = None THEN v ELSE @]
           /\ last_read' = [last_read EXCEPT ![t][k] = v]
    /\ ops' = [ops EXCEPT ![t] = @ + 1]
    /\ UNCHANGED <<data, level, local_data, pc, next_value, retired, wrote>>

\* Transaction::read: READ_UNCOMMITTED and READ_COMMITTED read the shared
\* map; REPEATABLE_READ and SERIALIZABLE return the local_data entry if
\* there is one, and otherwise read the shared map and cache the value.
Read(t, k) ==
    /\ pc[t] = "active"
    /\ ops[t] < MaxOps
    /\ LET cached == level[t] \notin DirectWrite /\ local_data[t][k] # None
           v == IF cached THEN local_data[t][k] ELSE data[k]
       IN  /\ local_data' = IF level[t] \in DirectWrite \/ cached THEN local_data
                            ELSE [local_data EXCEPT ![t][k] = v]
           /\ first_read' = [first_read EXCEPT ![t][k] = IF @ = None THEN v ELSE @]
           /\ last_read' = [last_read EXCEPT ![t][k] = v]
    /\ ops' = [ops EXCEPT ![t] = @ + 1]
    /\ UNCHANGED <<data, level, pc, next_value, retired, wrote>>

\* Transaction::write: READ_UNCOMMITTED and READ_COMMITTED store into the
\* shared map at once; the other levels store into local_data.
Write(t, k) ==
    /\ pc[t] = "active"
    /\ ops[t] < MaxOps
    /\ LET v == next_value + 1 IN
       /\ IF level[t] \in DirectWrite
          THEN Install([data EXCEPT ![k] = v]) /\ UNCHANGED local_data
          ELSE local_data' = [local_data EXCEPT ![t][k] = v] /\ UNCHANGED <<data, retired>>
       /\ next_value' = v
    /\ ops' = [ops EXCEPT ![t] = @ + 1]
    /\ wrote' = [wrote EXCEPT ![t] = @ \cup {k}]
    /\ UNCHANGED <<level, pc, first_read, last_read>>

\* commit_transaction: Transaction::commit copies every local_data entry,
\* read-cached or written, into the shared map; then remove_transaction
CommitTransaction(t) ==
    /\ pc[t] = "active"
    /\ Install([k \in Keys |-> IF local_data[t][k] # None THEN local_data[t][k] ELSE data[k]])
    /\ pc' = [pc EXCEPT ![t] = "committed"]
    /\ UNCHANGED <<level, local_data, ops, next_value, first_read, last_read, wrote>>

\* rollback_transaction: Transaction::rollback clears local_data; then
\* remove_transaction
RollbackTransaction(t) ==
    /\ pc[t] = "active"
    /\ local_data' = [local_data EXCEPT ![t] = [k \in Keys |-> None]]
    /\ pc' = [pc EXCEPT ![t] = "rolledback"]
    /\ UNCHANGED <<data, level, ops, next_value, retired, first_read, last_read, wrote>>

Next ==
    \E t \in Txns :
        \/ \E l \in Levels : BeginTransaction(t, l)
        \/ \E k \in Keys : Read(t, k) \/ Write(t, k)
        \/ CommitTransaction(t)
        \/ RollbackTransaction(t)

Spec == Init /\ [][Next]_vars

-----------------------------------------------------------------------------
(* Properties                                                              *)

\* Repeatable reads: under REPEATABLE_READ and SERIALIZABLE, every read of
\* a key the transaction has not written returns what its first read of
\* that key returned, whatever other transactions commit in between.
RepeatableRead ==
    \A t \in Txns, k \in Keys :
        /\ level[t] \in {REPEATABLE_READ, SERIALIZABLE}
        /\ pc[t] = "active"
        /\ k \notin wrote[t]
        => last_read[t][k] = first_read[t][k]

\* No lost update: a value that has been replaced in the shared store never
\* becomes current again, so commit cannot put back a value it only read.
NoStaleWriteBack ==
    \A k \in Keys : data[k] \notin retired[k]

=============================================================================
