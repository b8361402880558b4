---------------------------- MODULE DataFileManager ----------------------------
(***************************************************************************)
(* DataFileManager of src/storage/disk_storage/data_file_manager.cpp       *)
(* (lines 12-183) over the files of its base directory.                   *)
(*                                                                         *)
(* Every method holds fileMutex for its whole body, so a manager is a      *)
(* record changed by one call at a time:                                  *)
(*   dir   the directory: file name -> inode;                             *)
(*   disk  the bytes of every live inode (named, or held by a handle);    *)
(*   open  openFiles: file name -> its fstream, a record [ino, fail, pend].*)
(* The fstream behaviour the methods rely on is kept: a write stays in the *)
(* filebuf (pend, one <<offset, bytes>> pair) until the next seek or       *)
(* close flushes it, so other streams and fs::file_size do not see it; a   *)
(* read that runs past the end sets eofbit and failbit, seekg clears only  *)
(* eofbit, and a stream with failbit set ignores seekp, seekg, write and   *)
(* read; a handle keeps its inode after the name is removed or recreated.  *)
(* Bytes are one-character strings and Nul the byte '\0'.                  *)
(***************************************************************************)
EXTENDS Naturals, Sequences, TLC, Functions

Nul == "0"

\* c with the bytes d written from offset off, a gap read as '\0'
WriteAt(c, off, d) ==
    LET len == IF Len(c) > off + Len(d) THEN Len(c) ELSE off + Len(d)
    IN  [i \in 1..len |-> IF off < i /\ i <= off + Len(d) THEN d[i - off]
                          ELSE IF i <= Len(c) THEN c[i] ELSE Nul]

\* the filebuf writing out its put area
Flush(m, n) ==
    LET h == m.open[n]
    IN  IF h.pend = <<>> THEN m
        ELSE [m EXCEPT !.disk[h.ino] = WriteAt(@, h.pend[1], h.pend[2]), !.open[n].pend = <<>>]

\* inodes no name and no handle refers to are gone
Collect(m) ==
    [m EXCEPT !.disk = Restrict(@, Range(m.dir) \cup {m.open[x].ino : x \in DOMAIN m.open})]

Without(f, x) == [y \in DOMAIN f \ {x} |-> f[y]]

\* DataFileManager(baseDir) over a directory left as it is
NewManager(dir, disk) == [dir |-> dir, disk |-> disk, open |-> <<>>]

\* createFile: std::ofstream truncates an existing file or makes a new one
\* (on the free inode ino)
CreateFile(m, n, ino) ==
    IF n \in DOMAIN m.dir THEN [m EXCEPT !.disk[m.dir[n]] = <<>>]
    ELSE [m EXCEPT !.dir = (n :> ino) @@ @, !.disk = (ino :> <<>>) @@ @]

\* deleteFile: fs::remove unlinks the name
DeleteFile(m, n) ==
    IF n \in DOMAIN m.dir THEN Collect([m EXCEPT !.dir = Without(@, n)]) ELSE m

\* openFile: a name already in openFiles is kept as it is
OpenFile(m, n) ==
    IF n \in DOMAIN m.open \/ n \notin DOMAIN m.dir THEN m
    ELSE [m EXCEPT !.open = (n :> [ino |-> m.dir[n], fail |-> FALSE, pend |-> <<>>]) @@ @]

\* closeFile: close flushes, then the entry is erased
CloseFile(m, n) ==
    IF n \notin DOMAIN m.open THEN m
    ELSE Collect([Flush(m, n) EXCEPT !.open = Without(@, n)])

\* writeFile(name, data, offset): seekp flushes the pending bytes; the new
\* ones stay in the buffer.  A failed stream does neither.
WriteFile(m, n, d, off) ==
    IF n \notin DOMAIN m.open \/ m.open[n].fail THEN m
    ELSE [Flush(m, n) EXCEPT !.open[n].pend = <<off, d>>]

\* A faulty readFile whose seek does not flush the pending write.
ReadFileNoFlush(m, n, off, len) ==
    IF n \notin DOMAIN m.open THEN [m |-> m, buf |-> <<>>]
    ELSE IF m.open[n].fail THEN [m |-> m, buf |-> [i \in 1..len |-> Nul]]
    ELSE LET c   == m.disk[m.open[n].ino]
             got == IF Len(c) > off THEN IF Len(c) - off < len THEN Len(c) - off ELSE len ELSE 0
         IN  [m   |-> [m EXCEPT !.open[n].fail = got < len],
              buf |-> [i \in 1..len |-> IF i <= got THEN c[off + i] ELSE Nul]]

\* readFile(name, buffer, offset, length) into a fresh buffer: the manager
\* after the call and the buffer; seekg flushes, a short read fails the
\* stream and leaves the rest of the buffer '\0'
ReadFile(m, n, off, len) ==
    IF n \notin DOMAIN m.open THEN [m |-> m, buf |-> <<>>]
    ELSE IF m.open[n].fail THEN [m |-> m, buf |-> [i \in 1..len |-> Nul]]
    ELSE LET f   == Flush(m, n)
             c   == f.disk[f.open[n].ino]
             got == IF Len(c) > off THEN IF Len(c) - off < len THEN Len(c) - off ELSE len ELSE 0
         IN  [m   |-> [f EXCEPT !.open[n].fail = got < len],
              buf |-> [i \in 1..len |-> IF i <= got THEN c[off + i] ELSE Nul]]

\* getFileSize: fs::file_size sees the bytes on disk, or -1
GetFileSize(m, n) == IF n \in DOMAIN m.dir THEN Len(m.disk[m.dir[n]]) ELSE -1

\* allocateSpace: a second fstream writes '\0' at size-1 if the file on
\* disk is shorter, and closes
AllocateSpace(m, n, size) ==
    IF n \in DOMAIN m.dir /\ Len(m.disk[m.dir[n]]) < size
    THEN [m EXCEPT !.disk[m.dir[n]] = WriteAt(@, size - 1, <<Nul>>)]
    ELSE m

\* truncateFile: fs::resize_file if the file on disk is longer
TruncateFile(m, n, size) ==
    IF n \in DOMAIN m.dir /\ Len(m.disk[m.dir[n]]) > size
    THEN [m EXCEPT !.disk[m.dir[n]] = SubSeq(@, 1, size)]
    ELSE m

=============================================================================
