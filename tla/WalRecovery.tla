---------------------------- MODULE WalRecovery ----------------------------
(***************************************************************************)
(* The write-ahead log and recovery of src/unnamed/part_019: class          *)
(* TransactionManager with its WriteAheadLog and RecoveryManager.          *)
(*                                                                         *)
(* The log is an std::ofstream opened in append mode and never flushed by  *)
(* the code: what it writes sits in the stream's buffer (wal_buffer) until *)
(* the library writes some of it out (FlushWal), which it may do at any    *)
(* point.  A crash loses the buffer and the process memory; the file       *)
(* (wal_file) survives, and the restarted process begins again with        *)
(* last_transaction_id = 0 and an empty transactions map, appending to the *)
(* same file.                                                              *)
(*                                                                         *)
(* A log line is "Transaction <id>: <op>", "Transaction <id> committed."   *)
(* or "Transaction <id> aborted.".  Operation text is abstracted to the    *)
(* one thing recovery looks at: whether it contains the word "committed",  *)
(* the word "aborted", or neither.  Each line carries the incarnation that *)
(* wrote it (epoch); the file has no such field and recovery ignores it.   *)
(*                                                                         *)
(* The program is single-threaded: each call is one step.                  *)
(***************************************************************************)
EXTENDS Naturals, Sequences, SequencesExt

CONSTANTS
    MaxTxns,     \* bound on begin_transaction calls per incarnation
    MaxOps,      \* bound on add_operation calls per transaction
    MaxLog,      \* bound on lines written to the log, over all incarnations
    MaxEpochs,   \* bound on incarnations (crashes + 1)
    Absent,      \* model value: no entry in the transactions map
    None         \* model value: neither commit nor abort has been called

ACTIVE == "ACTIVE"
COMMITTED == "COMMITTED"
ABORTED == "ABORTED"
TransactionState == {ACTIVE, COMMITTED, ABORTED}

\* what an operation's text says, as far as recover_from_log can tell
OpText == {"plain", "committed", "aborted"}

Ids == 1..MaxTxns

Line == [kind : {"op", "commit", "abort"}, id : Ids, text : OpText, epoch : 1..MaxEpochs]

VARIABLES
    transactions,         \* id -> [state, operations] or Absent
    last_transaction_id,
    wal_buffer,           \* lines written to log_file, not yet in the file
    wal_file,             \* the lines of wal.log on disk
    epoch,                \* the current incarnation of the process
    outcome               \* id -> last of commit/abort called on it, or None

vars == <<transactions, last_transaction_id, wal_buffer, wal_file, epoch, outcome>>

LogLen == Len(wal_buffer) + Len(wal_file)

OpLine(id, op) == [kind |-> "op", id |-> id, text |-> op, epoch |-> epoch]
EndLine(kind, id) == [kind |-> kind, id |-> id, text |-> "plain", epoch |-> epoch]

Init ==
    /\ transactions = [id \in Ids |-> Absent]
    /\ last_transaction_id = 0
    /\ wal_buffer = <<>>
    /\ wal_file = <<>>
    /\ epoch = 1
    /\ outcome = [id \in Ids |-> None]

\* begin_transaction: a new ACTIVE transaction under the next id
BeginTransaction ==
    /\ last_transaction_id < MaxTxns
    /\ LET tid == last_transaction_id + 1 IN
       /\ last_transaction_id' = tid
       /\ transactions' = [transactions EXCEPT ![tid] = [state |-> ACTIVE, operations |-> <<>>]]
    /\ UNCHANGED <<wal_buffer, wal_file, epoch, outcome>>

\* Transaction::add_operation through the reference begin returned
AddOperation(id, op) ==
    /\ transactions[id] # Absent
    /\ Len(transactions[id].operations) < MaxOps
    /\ transactions' = [transactions EXCEPT ![id].operations = Append(@, op)]
    /\ UNCHANGED <<last_transaction_id, wal_buffer, wal_file, epoch, outcome>>

\* commit_transaction: mark COMMITTED, then log_transaction and log_commit
\* write one line per operation and the commit line into the stream
CommitTransaction(id) ==
    /\ transactions[id] # Absent
    /\ LET ops == transactions[id].operations
           lines == [k \in 1..Len(ops) |-> OpLine(id, ops[k])] \o <<EndLine("commit", id)>>
       IN  /\ LogLen + Len(lines) <= MaxLog
           /\ wal_buffer' = wal_buffer \o lines
    /\ transactions' = [transactions EXCEPT ![id].state = COMMITTED]
    /\ outcome' = [outcome EXCEPT ![id] = COMMITTED]
    /\ UNCHANGED <<last_transaction_id, wal_file, epoch>>

\* abort_transaction: mark ABORTED, then log_abort
AbortTransaction(id) ==
    /\ transactions[id] # Absent
    /\ LogLen < MaxLog
    /\ wal_buffer' = Append(wal_buffer, EndLine("abort", id))
    /\ transactions' = [transactions EXCEPT ![id].state = ABORTED]
    /\ outcome' = [outcome EXCEPT ![id] = ABORTED]
    /\ UNCHANGED <<last_transaction_id, wal_file, epoch>>

\* the stream's buffer reaches the file, some of it, in order
FlushWal ==
    /\ \E n \in 1..Len(wal_buffer) :
          /\ wal_file' = wal_file \o SubSeq(wal_buffer, 1, n)
          /\ wal_buffer' = SubSeq(wal_buffer, n + 1, Len(wal_buffer))
    /\ UNCHANGED <<transactions, last_transaction_id, epoch, outcome>>

\* the word recover_from_log finds in a line, tested for "committed" first
Says(line) ==
    CASE line.kind = "commit" -> "committed"
      [] line.kind = "abort"  -> "aborted"
      [] OTHER                -> line.text

\* one line of recover_from_log, with the id extract_transaction_id reads
RecoverLine(txns, line) ==
    IF Says(line) \in {"committed", "aborted"} /\ txns[line.id] # Absent
    THEN [txns EXCEPT ![line.id].state =
             IF Says(line) = "committed" THEN COMMITTED ELSE ABORTED]
    ELSE txns

\* recover: RecoveryManager::recover_from_log over the file as it is on
\* disk, applied to the live transactions map
Recover ==
    /\ transactions' = FoldLeft(RecoverLine, transactions, wal_file)
    /\ UNCHANGED <<last_transaction_id, wal_buffer, wal_file, epoch, outcome>>

\* the process dies: memory and stream buffer are lost, the file is kept;
\* the new process constructs a fresh TransactionManager
CrashRestart ==
    /\ epoch < MaxEpochs
    /\ epoch' = epoch + 1
    /\ transactions' = [id \in Ids |-> Absent]
    /\ last_transaction_id' = 0
    /\ wal_buffer' = <<>>
    /\ outcome' = [id \in Ids |-> None]
    /\ UNCHANGED wal_file

Next ==
    \/ BeginTransaction
    \/ \E id \in Ids, op \in OpText : AddOperation(id, op)
    \/ \E id \in Ids : CommitTransaction(id) \/ AbortTransaction(id)
    \/ FlushWal
    \/ Recover
    \/ CrashRestart

Spec == Init /\ [][Next]_vars

-----------------------------------------------------------------------------
(* Properties                                                              *)

TypeOK ==
    /\ transactions \in [Ids -> [state : TransactionState, operations : Seq(OpText)] \cup {Absent}]
    /\ last_transaction_id \in 0..MaxTxns
    /\ wal_buffer \in Seq(Line)
    /\ wal_file \in Seq(Line)
    /\ epoch \in 1..MaxEpochs
    /\ outcome \in [Ids -> {None, COMMITTED, ABORTED}]

\* Recovery restores what the calls decided: after any sequence of calls,
\* crashes and recover(), a transaction of this process is COMMITTED or
\* ABORTED exactly when commit_transaction or abort_transaction was last
\* called on it, and ACTIVE when neither was.
RecoveredStateMatchesCalls ==
    \A id \in Ids :
        transactions[id] # Absent =>
            transactions[id].state = IF outcome[id] = None THEN ACTIVE ELSE outcome[id]

=============================================================================
