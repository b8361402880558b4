----------------------------- MODULE LogFileManager -----------------------------
(***************************************************************************)
(* LogFileManager, TransactionManager and LogFlusher of                   *)
(* src/storage/disk_storage/data_file_manager.cpp (lines 216-370).        *)
(*                                                                         *)
(* A LogRecord is a record [type, txId, data]; its timestamp only appears  *)
(* in the line toString formats, and toString keeps type, txId and data,   *)
(* so a line of the log file is its record.  A manager is a record:        *)
(*   file     the lines of logfile.log that reached the file system;      *)
(*   buf      the lines still in logFileStream_'s buffer;                 *)
(*   pending  pendingLogs_;                                                *)
(*   hung     the thread holding logMutex_ has locked it again and blocks *)
(*            for ever (std::mutex is not recursive), so every later call *)
(*            of any thread blocks on it too.                              *)
(* Every method holds logMutex_ for its whole body, so each is one step.   *)
(***************************************************************************)
EXTENDS Naturals, Integers, Sequences

\* LogRecord(type, txId, data)
Record(type, tx, data) == [type |-> type, txId |-> tx, data |-> data]

\* LogFileManager(path): the ofstream opens in ios::app, so the lines of
\* earlier runs stay
NewManager(file) == [file |-> file, buf |-> <<>>, pending |-> <<>>, hung |-> FALSE]

\* the ofstream writing out its buffer
FlushStream(lm) == [lm EXCEPT !.file = @ \o lm.buf, !.buf = <<>>]

\* A faulty logRecord that ends the line with '\n' instead of std::endl.
LogRecordNoEndl(lm, r) == [lm EXCEPT !.buf = Append(@, r), !.pending = Append(@, r)]

\* logRecord: the line, then std::endl, which flushes the stream
LogRecord(lm, r) == FlushStream([lm EXCEPT !.buf = Append(@, r), !.pending = Append(@, r)])

\* flush
Flush(lm) == FlushStream(lm)

\* recover: the lines getline reads back from the file
Recover(lm) == lm.file

\* commitTransaction, abortTransaction, checkpoint: each holds logMutex_
\* and calls logRecord, whose lock_guard locks it again; nothing is written
CommitTransaction(lm, tx) == [lm EXCEPT !.hung = TRUE]
AbortTransaction(lm, tx) == [lm EXCEPT !.hung = TRUE]
Checkpoint(lm) == [lm EXCEPT !.hung = TRUE]

\* getPendingLogs
GetPendingLogs(lm) == lm.pending

\* TransactionManager(logFileManager)
NewTxManager == [nextTxId |-> 1]

\* beginTransaction: the next id, logged as an INSERT record "Begin"; the
\* result is [tm, lm, txId]
BeginTransaction(tm, lm) ==
    [tm   |-> [tm EXCEPT !.nextTxId = @ + 1],
     lm   |-> LogRecord(lm, Record("INSERT", tm.nextTxId, "Begin")),
     txId |-> tm.nextTxId]

\* LogFlusher: the state of its thread, "idle" before start(), "running"
\* in flushLogsPeriodically, "stopping" once stop() has set stopFlushing_
\* and joins, "done" when the loop has broken out
FlusherStates == {"idle", "running", "stopping", "done"}

\* one pass of flushLogsPeriodically: after the sleep, break out if
\* stopFlushing_ is set, else logFileManager_.flush()
FlusherPass(fl, lm) ==
    IF fl = "stopping" THEN [fl |-> "done", lm |-> lm]
    ELSE [fl |-> fl, lm |-> Flush(lm)]

=============================================================================
