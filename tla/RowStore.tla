-------------------------------- MODULE RowStore --------------------------------
(***************************************************************************)
(* The row store of src/storage/storage_formats/row_store.cpp.            *)
(*                                                                         *)
(* A Row is identified by a natural (the fields of its vector<string> play *)
(* no part in any method).  A Page is a record [pageSize, rows, rowCount]: *)
(* the code keeps the vector of rows and the counter rowCount apart, and   *)
(* so does the model.  A Table is [pages, pageSize, currentPageId], pages  *)
(* a function from page ids to Pages; a RowStore is a function from table  *)
(* names to Tables.  Row positions are 0-based in the code and the 1-based *)
(* sequence index is one more.  An operation that returns a bool and       *)
(* changes its object returns a record [ok, v], v the object after it.     *)
(***************************************************************************)
EXTENDS Naturals, Integers, Sequences, SequencesExt, Functions

\* the nullptr getRow returns; rows are numbered from 1
Null == 0

\* Page(size)
NewPage(size) == [pageSize |-> size, rows |-> <<>>, rowCount |-> 0]

\* Page::insertRow: refused once rowCount reaches pageSize
PageInsertRow(pg, r) ==
    IF pg.rowCount >= pg.pageSize THEN [ok |-> FALSE, v |-> pg]
    ELSE [ok |-> TRUE, v |-> [pg EXCEPT !.rows = Append(@, r), !.rowCount = @ + 1]]

\* A faulty Page::deleteRow that erases the row but keeps rowCount.
PageDeleteRowKeepCount(pg, i) ==
    IF i < 0 \/ i >= pg.rowCount THEN [ok |-> FALSE, v |-> pg]
    ELSE [ok |-> TRUE, v |-> [pg EXCEPT !.rows = RemoveAt(@, i + 1)]]

\* Page::deleteRow: erase the row at i, later rows move down one place
PageDeleteRow(pg, i) ==
    IF i < 0 \/ i >= pg.rowCount THEN [ok |-> FALSE, v |-> pg]
    ELSE [ok |-> TRUE, v |-> [pg EXCEPT !.rows = RemoveAt(@, i + 1), !.rowCount = @ - 1]]

\* Page::getRow
PageGetRow(pg, i) == IF i < 0 \/ i >= pg.rowCount THEN Null ELSE pg.rows[i + 1]

\* Table(size): page 0, empty
NewTable(size) == [pages |-> (0 :> NewPage(size)), pageSize |-> size, currentPageId |-> 0]

\* Table::insertRow: into the current page, or else into a new page made
\* current, whose own insertRow decides the result
TableInsertRow(t, r) ==
    LET first == PageInsertRow(t.pages[t.currentPageId], r)
        id    == t.currentPageId + 1
        next  == PageInsertRow(NewPage(t.pageSize), r)
    IN  IF first.ok THEN [ok |-> TRUE, v |-> [t EXCEPT !.pages[t.currentPageId] = first.v]]
        ELSE [ok |-> next.ok,
              v  |-> [t EXCEPT !.currentPageId = id, !.pages = (id :> next.v) @@ @]]

\* Table::deleteRow
TableDeleteRow(t, p, i) ==
    IF p \notin DOMAIN t.pages THEN [ok |-> FALSE, v |-> t]
    ELSE LET d == PageDeleteRow(t.pages[p], i)
         IN  [ok |-> d.ok, v |-> [t EXCEPT !.pages[p] = d.v]]

\* Table::getRow
TableGetRow(t, p, i) == IF p \notin DOMAIN t.pages THEN Null ELSE PageGetRow(t.pages[p], i)

\* Table::getRowCount: the sum of the pages' rowCount
TableGetRowCount(t) ==
    FoldFunction(+, 0, [p \in DOMAIN t.pages |-> t.pages[p].rowCount])

\* RowStore::createTable: an existing name is left as it is
CreateTable(s, n, size) == IF n \in DOMAIN s THEN s ELSE (n :> NewTable(size)) @@ s

\* RowStore::insertRow: the table's result is dropped
InsertRow(s, n, r) == IF n \notin DOMAIN s THEN s ELSE [s EXCEPT ![n] = TableInsertRow(@, r).v]

\* RowStore::deleteRow: ok is the "Row deleted successfully." branch
DeleteRow(s, n, p, i) ==
    IF n \notin DOMAIN s THEN [ok |-> FALSE, v |-> s]
    ELSE LET d == TableDeleteRow(s[n], p, i)
         IN  [ok |-> d.ok, v |-> [s EXCEPT ![n] = d.v]]

\* RowStore::getRow: the row it displays, or Null
GetRow(s, n, p, i) == IF n \notin DOMAIN s THEN Null ELSE TableGetRow(s[n], p, i)

=============================================================================
