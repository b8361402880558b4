-------------------------- MODULE WriteThroughCache --------------------------
(***************************************************************************)
(* The write-through cache of src/caching/write_through_cache.cpp.         *)
(*                                                                         *)
(* Storage appends "key:value" lines to storage.txt and read returns the   *)
(* value of the FIRST line with the key, or -1.  The file is a sequence of *)
(* <<key, value>> pairs.  WriteThroughCache keeps cache_list_ (most recent *)
(* first) and cache_map_ from keys to list positions; the map always      *)
(* points into the list, so the model keeps the list of <<key, value>>     *)
(* pairs alone.  A cache is a record [list, file, hung].                   *)
(*                                                                         *)
(* get and put each take cache_mutex_ with a lock_guard.  On a miss whose  *)
(* key is in the file, get calls put while it still holds the mutex, and   *)
(* put locks the same non-recursive std::mutex again: undefined behaviour  *)
(* that blocks the thread forever.  The model takes that outcome: hung is  *)
(* set and no call returns any more.                                       *)
(***************************************************************************)
EXTENDS Naturals, Sequences, SequencesExt

\* the value Storage::read returns for a key no line holds
NotFound == -1

\* Storage::write: append a line
StorageWrite(file, k, v) == Append(file, <<k, v>>)

\* Storage::read: the value of the first line with key k
StorageRead(file, k) ==
    LET hits == {i \in 1..Len(file) : file[i][1] = k}
    IN  IF hits = {} THEN NotFound ELSE file[Min(hits)][2]

Keys(list) == {list[i][1] : i \in 1..Len(list)}

\* the list with k's entry spliced to the front, holding value v
ToFront(list, k, v) == <<<<k, v>>>> \o SelectSeq(list, LAMBDA e : e[1] # k)

\* A faulty put that moves a cached key to the front without updating it.
PutNoUpdate(c, k, v, capacity) ==
    LET file == StorageWrite(c.file, k, v)
        old  == CHOOSE e \in ToSet(c.list) : e[1] = k
    IN  IF k \in Keys(c.list)
        THEN [c EXCEPT !.file = file, !.list = ToFront(c.list, k, old[2])]
        ELSE LET l == <<<<k, v>>>> \o c.list
             IN  [c EXCEPT !.file = file, !.list = IF Len(l) > capacity THEN Front(l) ELSE l]

\* put(key, value): write through, then update and splice a cached key,
\* or push a new one to the front and drop the back beyond capacity
Put(c, k, v, capacity) ==
    LET file == StorageWrite(c.file, k, v)
    IN  IF k \in Keys(c.list)
        THEN [c EXCEPT !.file = file, !.list = ToFront(c.list, k, v)]
        ELSE LET l == <<<<k, v>>>> \o c.list
             IN  [c EXCEPT !.file = file, !.list = IF Len(l) > capacity THEN Front(l) ELSE l]

\* get(key): the cache after the call and the value returned.  A hit
\* splices the key to the front; a miss reads storage and, on a value
\* other than -1, calls put under the held mutex and never returns.
Get(c, k) ==
    IF k \in Keys(c.list)
    THEN LET e == CHOOSE e \in ToSet(c.list) : e[1] = k
         IN  [cache |-> [c EXCEPT !.list = ToFront(c.list, k, e[2])], value |-> e[2]]
    ELSE LET v == StorageRead(c.file, k)
         IN  IF v # NotFound
             THEN [cache |-> [c EXCEPT !.hung = TRUE], value |-> NotFound]
             ELSE [cache |-> c, value |-> v]

\* WriteThroughCache(capacity, storage) over storage.txt as it is found
NewCache(file) == [list |-> <<>>, file |-> file, hung |-> FALSE]

=============================================================================
