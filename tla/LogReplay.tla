----------------------------- MODULE LogReplay -----------------------------
(***************************************************************************)
(* Log replay of src/transactions/recovery/log_replay.cpp: LogReplay::     *)
(* replayLogs walks the records read from the log file in file order,      *)
(* creating an ACTIVE Transaction for each new txID and dispatching on the *)
(* record's type.  applyInsert, applyDelete and applyUpdate are the redo    *)
(* hooks (they only print); the model records the records they are called  *)
(* with, in order, as applied.  A type outside the enum (the file's integer *)
(* is cast unchecked) throws, which ends the replay; main catches it.       *)
(***************************************************************************)
EXTENDS Naturals, Sequences, SequencesExt

INSERT == "INSERT"
DELETE == "DELETE"
UPDATE == "UPDATE"
COMMIT == "COMMIT"
ABORT == "ABORT"
LogType == {INSERT, DELETE, UPDATE, COMMIT, ABORT}

\* the record types replayLogs redoes
DataTypes == {INSERT, DELETE, UPDATE}

ACTIVE == "ACTIVE"
COMMITTED == "COMMITTED"
ABORTED == "ABORTED"

\* LogRecord, without tableName, data and lsn, which replay does not read
LogRecord(ids, types) == [txID : ids, logType : types]

\* the state of a replay: the transactions map (a function on the txIDs
\* seen so far), the records handed to the redo hooks, and whether the
\* "Unknown log type" exception has been thrown
ReplayState(txs, applied, failed) == [transactions |-> txs, applied |-> applied, failed |-> failed]

\* A faulty lookup that makes a fresh ACTIVE Transaction on every record.
TrackReset(txs, id) == [x \in DOMAIN txs \cup {id} |-> IF x = id THEN ACTIVE ELSE txs[x]]

\* transactions[txID] = Transaction(txID) for a txID seen for the first time
Track(txs, id) == IF id \in DOMAIN txs THEN txs ELSE [x \in DOMAIN txs \cup {id} |-> IF x = id THEN ACTIVE ELSE txs[x]]

\* processCommit / processAbort: set the state of a known transaction
ProcessEnd(txs, id, state) == IF id \in DOMAIN txs THEN [txs EXCEPT ![id] = state] ELSE txs

\* one iteration of the loop in replayLogs
ReplayRecord(st, log) ==
    IF st.failed THEN st
    ELSE LET txs == Track(st.transactions, log.txID) IN
         CASE log.logType \in DataTypes ->
                  ReplayState(txs, Append(st.applied, log), FALSE)
           [] log.logType = COMMIT ->
                  ReplayState(ProcessEnd(txs, log.txID, COMMITTED), st.applied, FALSE)
           [] log.logType = ABORT ->
                  ReplayState(ProcessEnd(txs, log.txID, ABORTED), st.applied, FALSE)
           [] OTHER -> ReplayState(txs, st.applied, TRUE)

\* readLogsFromFile: `file >> txID >> logType >> tableName >> data >> lsn`
\* until an extraction fails.  A line that does not parse as five
\* whitespace-separated fields with integers where integers belong (a
\* tableName or data containing a space, say) is a Malformed entry of the
\* file; the loop stops there, and the rest of the file is never read.
ReadLogsFromFile(file, Malformed) ==
    LET bad == {k \in 1..Len(file) : file[k] = Malformed}
    IN  IF bad = {} THEN file
        ELSE SubSeq(file, 1, Min(bad) - 1)

\* replayLogs on a fresh LogReplay(logRecords)
ReplayLogs(logs) == FoldLeft(ReplayRecord, ReplayState(<<>>, <<>>, FALSE), logs)

=============================================================================
