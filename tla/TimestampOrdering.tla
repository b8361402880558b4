------------------------- MODULE TimestampOrdering -------------------------
(***************************************************************************)
(* The timestamp-ordering controller, class TimestampOrdering in           *)
(* src/transactions/concurrency_control/timestamp_ordering.cpp.            *)
(*                                                                         *)
(* Every public method holds TimestampOrdering::mtx for its whole body, so *)
(* each call is one atomic step.  The exception is the conflict branch of  *)
(* read and write: they call abort_transaction, whose lock_guard locks the *)
(* same non-recursive std::mutex again from the same thread.  That is      *)
(* undefined behaviour; the outcome glibc produces is a thread blocked     *)
(* forever while it holds mtx, so no later call of any thread can enter.   *)
(* The model takes that outcome: the caller becomes "hung" holding mtx.    *)
(*                                                                         *)
(* Each transaction is driven by one thread that begins it with a          *)
(* timestamp of its caller's choosing (begin_transaction takes it as an    *)
(* argument), issues reads and writes, and commits or aborts.  Item values *)
(* and commit timestamps are left out: no property tells them apart.  The  *)
(* variable history records the reads and writes that succeeded, in the    *)
(* order the mutex admitted them.                                          *)
(***************************************************************************)
EXTENDS Naturals, Sequences, FiniteSets

CONSTANTS
    Txns,        \* transaction ids, one driving thread each
    Items,       \* data item ids
    Timestamps,  \* the start timestamps callers may pass (positive naturals)
    UniqueTs,    \* TRUE: callers never pass a timestamp already in use
    MaxOps,      \* bound on read/write calls per transaction
    NoThread,    \* model value: mtx is free
    Absent       \* model value: no entry in data_items

ASSUME Timestamps \subseteq Nat \ {0} /\ UniqueTs \in BOOLEAN /\ MaxOps \in Nat

VARIABLES
    data_items,           \* item -> [read_ts, write_ts] or Absent
    active_transactions,  \* the keys of active_transactions
    start_ts,             \* txn -> start_ts it was begun with (0 before)
    mtx,                  \* thread holding mtx between calls, or NoThread
    pc,                   \* txn -> "idle", "active", "hung", "done"
    ops,                  \* txn -> read/write calls made
    history               \* successful reads and writes: <<txn, item, "r"|"w">>

vars == <<data_items, active_transactions, start_ts, mtx, pc, ops, history>>

PC == {"idle", "active", "hung", "done"}

Init ==
    /\ data_items = [i \in Items |-> Absent]
    /\ active_transactions = {}
    /\ start_ts = [t \in Txns |-> 0]
    /\ mtx = NoThread
    /\ pc = [t \in Txns |-> "idle"]
    /\ ops = [t \in Txns |-> 0]
    /\ history = <<>>

\* a call enters lock_guard(mtx) and issues another operation of t
CanCall(t) ==
    /\ mtx = NoThread
    /\ pc[t] = "active"
    /\ ops[t] < MaxOps

\* the conflict branch: abort_transaction relocks mtx and never returns
Hang(t) ==
    /\ mtx' = t
    /\ pc' = [pc EXCEPT ![t] = "hung"]
    /\ ops' = [ops EXCEPT ![t] = @ + 1]
    /\ UNCHANGED <<active_transactions, start_ts, history>>

\* A faulty begin that passes the constructor's arguments swapped:
\* new Transaction(timestamp, transaction_id).
BeginTransactionSwapped(t, ts) ==
    /\ mtx = NoThread
    /\ pc[t] = "idle"
    /\ UniqueTs => \A u \in Txns : start_ts[u] # ts
    /\ active_transactions' = active_transactions \cup {t}
    /\ start_ts' = [start_ts EXCEPT ![t] = t]
    /\ pc' = [pc EXCEPT ![t] = "active"]
    /\ UNCHANGED <<data_items, mtx, ops, history>>

\* begin_transaction(t, ts)
BeginTransaction(t, ts) ==
    /\ mtx = NoThread
    /\ pc[t] = "idle"
    /\ UniqueTs => \A u \in Txns : start_ts[u] # ts
    /\ active_transactions' = active_transactions \cup {t}
    /\ start_ts' = [start_ts EXCEPT ![t] = ts]
    /\ pc' = [pc EXCEPT ![t] = "active"]
    /\ UNCHANGED <<data_items, mtx, ops, history>>

\* A faulty read that omits the write_ts check.
ReadNoCheck(t, i) ==
    /\ CanCall(t)
    /\ data_items[i] # Absent
    /\ data_items' = [data_items EXCEPT ![i].read_ts =
                         IF @ < start_ts[t] THEN start_ts[t] ELSE @]
    /\ ops' = [ops EXCEPT ![t] = @ + 1]
    /\ history' = Append(history, <<t, i, "r">>)
    /\ UNCHANGED <<active_transactions, start_ts, mtx, pc>>

\* read(t, i): a missing item returns false; a later writer is a conflict;
\* otherwise read_ts := max(read_ts, start_ts)
Read(t, i) ==
    /\ CanCall(t)
    /\ \/ /\ data_items[i] = Absent
          /\ ops' = [ops EXCEPT ![t] = @ + 1]
          /\ UNCHANGED <<data_items, active_transactions, start_ts, mtx, pc, history>>
       \/ /\ data_items[i] # Absent
          /\ start_ts[t] < data_items[i].write_ts
          /\ Hang(t)
          /\ UNCHANGED data_items
       \/ /\ data_items[i] # Absent
          /\ start_ts[t] >= data_items[i].write_ts
          /\ data_items' = [data_items EXCEPT ![i].read_ts =
                               IF @ < start_ts[t] THEN start_ts[t] ELSE @]
          /\ ops' = [ops EXCEPT ![t] = @ + 1]
          /\ history' = Append(history, <<t, i, "r">>)
          /\ UNCHANGED <<active_transactions, start_ts, mtx, pc>>

\* new DataItem(id, value): both timestamps start at 0 (the value is not
\* modelled)
NewDataItem == [read_ts |-> 0, write_ts |-> 0]

\* write(t, i, v): a missing item is created as (0, 0) first, and stays
\* created whatever follows; a later reader or writer is a conflict;
\* otherwise the value is installed and write_ts := max(write_ts, start_ts)
Write(t, i) ==
    /\ CanCall(t)
    /\ LET item == IF data_items[i] = Absent
                   THEN NewDataItem ELSE data_items[i]
       IN  \/ /\ start_ts[t] < item.read_ts \/ start_ts[t] < item.write_ts
              /\ data_items' = [data_items EXCEPT ![i] = item]
              /\ Hang(t)
           \/ /\ start_ts[t] >= item.read_ts /\ start_ts[t] >= item.write_ts
              /\ data_items' = [data_items EXCEPT ![i] =
                                   [item EXCEPT !.write_ts = start_ts[t]]]
              /\ ops' = [ops EXCEPT ![t] = @ + 1]
              /\ history' = Append(history, <<t, i, "w">>)
              /\ UNCHANGED <<active_transactions, start_ts, mtx, pc>>

\* commit_transaction(t, ts): erase the entry; nothing is validated
CommitTransaction(t) ==
    /\ mtx = NoThread
    /\ pc[t] = "active"
    /\ active_transactions' = active_transactions \ {t}
    /\ pc' = [pc EXCEPT ![t] = "done"]
    /\ UNCHANGED <<data_items, start_ts, mtx, ops, history>>

\* abort_transaction(t) called by the driver: erase the entry; the writes
\* already installed stay in data_items
AbortTransaction(t) ==
    /\ mtx = NoThread
    /\ pc[t] = "active"
    /\ active_transactions' = active_transactions \ {t}
    /\ pc' = [pc EXCEPT ![t] = "done"]
    /\ UNCHANGED <<data_items, start_ts, mtx, ops, history>>

Step(t) ==
    \/ \E ts \in Timestamps : BeginTransaction(t, ts)
    \/ \E i \in Items : Read(t, i) \/ Write(t, i)
    \/ CommitTransaction(t)
    \/ AbortTransaction(t)

Next == \E t \in Txns : Step(t)

Spec == Init /\ [][Next]_vars

-----------------------------------------------------------------------------
(* Properties                                                              *)

TypeOK ==
    /\ data_items \in [Items -> [read_ts : {0} \cup Timestamps,
                                 write_ts : {0} \cup Timestamps] \cup {Absent}]
    /\ active_transactions \subseteq Txns
    /\ start_ts \in [Txns -> {0} \cup Timestamps]
    /\ mtx \in Txns \cup {NoThread}
    /\ pc \in [Txns -> PC]
    /\ ops \in [Txns -> 0..MaxOps]
    /\ history \in Seq(Txns \X Items \X {"r", "w"})

G == INSTANCE Graphs

\* an operation of t precedes a conflicting operation of u on the same item
ConflictEdges ==
    LET h == history
        conflicting == {<<k, l>> \in (1..Len(h)) \X (1..Len(h)) :
                            /\ k < l
                            /\ h[k][1] # h[l][1]
                            /\ h[k][2] = h[l][2]
                            /\ "w" \in {h[k][3], h[l][3]}}
    IN  {<<h[p[1]][1], h[p[2]][1]>> : p \in conflicting}

\* The guarantee timestamp ordering exists for: the reads and writes that
\* read and write accept form a conflict-serializable history (no cycle of
\* conflicts among transactions), because every conflict is admitted only
\* in start-timestamp order.  It rests on the timestamps being distinct.
ConflictSerializable ==
    ~G!HasCycle([node |-> Txns, edge |-> ConflictEdges])

=============================================================================
