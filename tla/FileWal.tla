------------------------------ MODULE FileWal ------------------------------
(***************************************************************************)
(* The file write-ahead log of src/transactions/transactions.cpp (lines    *)
(* 221-377): class WriteAheadLog over wal_log.txt, SimulateTransaction,    *)
(* RecoverFromLogs, and main, which runs two transaction threads, joins    *)
(* them and then recovers.                                                 *)
(*                                                                         *)
(* WriteLog holds file_mutex while it opens the file for appending, writes *)
(* one line and closes it, so each record reaches the file whole and       *)
(* before WriteLog returns: a WriteLog call is one step, and a crash of    *)
(* the process loses no record already written.  ReadLogs and ClearLogs    *)
(* take the same mutex.                                                    *)
(*                                                                         *)
(* Fault model: the process may crash at any point and be started again.   *)
(* The file survives; the new process runs main from the top, so it        *)
(* appends transactions 1 and 2 again to the same file and only then       *)
(* recovers.                                                               *)
(*                                                                         *)
(* A record written by ToString and read back by ParseLogRecord keeps its  *)
(* type, transaction id and page; its timestamp is replaced by the time of *)
(* parsing.  The timestamp is not modelled; the field run says which       *)
(* execution of main wrote the record.  It is not in the file: recovery    *)
(* cannot see it, and only the properties use it.                          *)
(***************************************************************************)
EXTENDS Naturals, Sequences, SequencesExt

CONSTANTS
    Txns,       \* the transaction ids main starts a thread for
    NumPages,   \* updates per transaction (the loop bound, 5 in the code)
    MaxRuns     \* bound on executions of main (crashes + 1)

BEGIN_TRANSACTION == "BEGIN_TRANSACTION"
COMMIT_TRANSACTION == "COMMIT_TRANSACTION"
ABORT_TRANSACTION == "ABORT_TRANSACTION"
UPDATE == "UPDATE"
LogRecordType == {BEGIN_TRANSACTION, COMMIT_TRANSACTION, ABORT_TRANSACTION, UPDATE}

Pages == 0..(NumPages - 1)

\* page_id is -1 on BEGIN and COMMIT records
LogRecord == [type : LogRecordType, tx : Txns, page : Pages \cup {-1}, run : 1..MaxRuns]

VARIABLES
    wal_log,    \* the records in wal_log.txt, in file order
    step,       \* txn -> records its SimulateTransaction thread has written
    main_pc,    \* "threads", "recover", "clear", "done"
    logs,       \* the records ReadLogs returned to RecoverFromLogs
    replayed,   \* updates RecoverFromLogs replayed: <<tx, page, run>>
    run         \* the current execution of main

vars == <<wal_log, step, main_pc, logs, replayed, run>>

\* the records SimulateTransaction(t) writes, in order
Script(t) ==
    <<[type |-> BEGIN_TRANSACTION, tx |-> t, page |-> -1, run |-> run]>>
    \o [i \in 1..NumPages |-> [type |-> UPDATE, tx |-> t, page |-> i - 1, run |-> run]]
    \o <<[type |-> COMMIT_TRANSACTION, tx |-> t, page |-> -1, run |-> run]>>

ScriptLen == NumPages + 2

\* the WriteAheadLog constructor creates the file if it is missing; an
\* empty file and a missing one read the same
Init ==
    /\ wal_log = <<>>
    /\ step = [t \in Txns |-> 0]
    /\ main_pc = "threads"
    /\ logs = <<>>
    /\ replayed = <<>>
    /\ run = 1

\* one wal.WriteLog call of SimulateTransaction(t); the sleeps between
\* updates change nothing
WriteLog(t) ==
    /\ main_pc = "threads"
    /\ step[t] < ScriptLen
    /\ wal_log' = Append(wal_log, Script(t)[step[t] + 1])
    /\ step' = [step EXCEPT ![t] = @ + 1]
    /\ UNCHANGED <<main_pc, logs, replayed, run>>

\* t1.join(); t2.join()
JoinThreads ==
    /\ main_pc = "threads"
    /\ \A t \in Txns : step[t] = ScriptLen
    /\ main_pc' = "recover"
    /\ UNCHANGED <<wal_log, step, logs, replayed, run>>

\* what the loop of RecoverFromLogs does with one record: an UPDATE is
\* replayed ("Replaying update for page"); BEGIN and COMMIT are reported
ReplayRecord(acc, rec) ==
    IF rec.type = UPDATE THEN Append(acc, <<rec.tx, rec.page, rec.run>>) ELSE acc

\* RecoverFromLogs up to ClearLogs: ReadLogs under file_mutex, then the loop
RecoverFromLogs ==
    /\ main_pc = "recover"
    /\ logs' = wal_log
    /\ replayed' = FoldLeft(ReplayRecord, <<>>, wal_log)
    /\ main_pc' = "clear"
    /\ UNCHANGED <<wal_log, step, run>>

\* wal.ClearLogs(): remove the file
ClearLogs ==
    /\ main_pc = "clear"
    /\ wal_log' = <<>>
    /\ main_pc' = "done"
    /\ UNCHANGED <<step, logs, replayed, run>>

\* the process dies and main runs again; only the file survives
CrashRestart ==
    /\ run < MaxRuns
    /\ run' = run + 1
    /\ step' = [t \in Txns |-> 0]
    /\ main_pc' = "threads"
    /\ logs' = <<>>
    /\ replayed' = <<>>
    /\ UNCHANGED wal_log

Next ==
    \/ \E t \in Txns : WriteLog(t)
    \/ JoinThreads
    \/ RecoverFromLogs
    \/ ClearLogs
    \/ CrashRestart

Spec == Init /\ [][Next]_vars

-----------------------------------------------------------------------------
(* Properties                                                              *)

TypeOK ==
    /\ wal_log \in Seq(LogRecord)
    /\ step \in [Txns -> 0..ScriptLen]
    /\ main_pc \in {"threads", "recover", "clear", "done"}
    /\ logs \in Seq(LogRecord)
    /\ replayed \in Seq(Txns \X Pages \X (1..MaxRuns))
    /\ run \in 1..MaxRuns

\* Recovery redoes only committed work: every update RecoverFromLogs
\* replays belongs to a transaction whose COMMIT record, written by the same
\* execution of SimulateTransaction, is among the records recovery read.
RedoOnlyCommitted ==
    \A i \in 1..Len(replayed) :
        LET u == replayed[i] IN
            \E j \in 1..Len(logs) :
                logs[j] = [type |-> COMMIT_TRANSACTION, tx |-> u[1], page |-> -1, run |-> u[3]]

=============================================================================
