----------------------------- MODULE BufferPool -----------------------------
(***************************************************************************)
(* The buffer manager of src/storage/buffer_manager.cpp.                   *)
(*                                                                         *)
(* BufferManager keeps a page_table from page ids to shared_ptr<Page> and  *)
(* an lru_list of page ids, most recent first.  Every public method holds  *)
(* mtx for its whole body, so each call is one step.  fetch_page hands the *)
(* caller a shared_ptr to the Page object; the caller writes page->data    *)
(* through it WITHOUT the mutex and only then calls mark_dirty(page_id).   *)
(* Nothing pins a page while a caller holds it, so the object a caller     *)
(* writes may already have been evicted.                                   *)
(*                                                                         *)
(* Page objects are numbered in the order fetch_page creates them (objs).  *)
(* A page's data is abstracted to a version: the number of the client      *)
(* write that produced it, 0 for the zero-filled buffer of a new Page      *)
(* (DiskStorage::read_page fills nothing).  DiskStorage::write_page only   *)
(* prints; disk[p] is the data last handed to it for page p.               *)
(***************************************************************************)
EXTENDS Naturals, Sequences, SequencesExt, FiniteSets

CONSTANTS
    Clients,     \* threads sharing one BufferManager
    PageIds,     \* the page ids clients fetch
    Capacity,    \* the capacity the BufferManager is constructed with
    MaxLoads,    \* bound on Page objects created by fetch_page
    MaxWrites,   \* bound on client writes through a page pointer
    None         \* model value: no page object

ASSUME Capacity \in Nat \ {0}

Objs == 1..MaxLoads
Versions == 0..MaxWrites

VARIABLES
    page_table,  \* page id -> the pooled Page object, or None
    lru_list,    \* page ids, most recently fetched first
    objs,        \* object -> [page_id, dirty, data]: every Page created
    disk,        \* page id -> the data last passed to write_page
    handle,      \* client -> the object its shared_ptr points to, or None
    pc,          \* client -> "idle", "fetched", "written"
    writes,      \* client writes made so far (the next version - 1)
    marked       \* page id -> newest version mark_dirty found in the pool

vars == <<page_table, lru_list, objs, disk, handle, pc, writes, marked>>

\* Page(id): clean, data a zero-filled buffer
NewPage(p) == [page_id |-> p, dirty |-> FALSE, data |-> 0]

InPool(p) == page_table[p] # None

\* BufferManager(cap, storage)
Init ==
    /\ page_table = [p \in PageIds |-> None]
    /\ lru_list = <<>>
    /\ objs = <<>>
    /\ disk = [p \in PageIds |-> 0]
    /\ handle = [c \in Clients |-> None]
    /\ pc = [c \in Clients |-> "idle"]
    /\ writes = 0
    /\ marked = [p \in PageIds |-> 0]

\* A faulty evict_page that drops the victim without writing it out.
RECURSIVE EvictPageClean(_)
EvictPageClean(st) ==
    IF Cardinality({p \in PageIds : st.table[p] # None}) < Capacity THEN st
    ELSE EvictPageClean([table |-> [st.table EXCEPT ![Last(st.lru)] = None],
                         lru   |-> Front(st.lru),
                         disk  |-> st.disk])

\* evict_page: while the table is at capacity, drop the back of lru_list,
\* handing a dirty page's data to write_page first.  st holds the three
\* variables the loop changes.
RECURSIVE EvictPage(_)
EvictPage(st) ==
    IF Cardinality({p \in PageIds : st.table[p] # None}) < Capacity THEN st
    ELSE LET id  == Last(st.lru)
             obj == objs[st.table[id]]
         IN  EvictPage([table |-> [st.table EXCEPT ![id] = None],
                        lru   |-> Front(st.lru),
                        disk  |-> IF obj.dirty THEN [st.disk EXCEPT ![id] = obj.data]
                                  ELSE st.disk])

\* A faulty hit path that pushes p to the front without removing it.
FetchHitNoRemove(c, p) ==
    /\ pc[c] = "idle"
    /\ InPool(p)
    /\ lru_list' = <<p>> \o lru_list
    /\ handle' = [handle EXCEPT ![c] = page_table[p]]
    /\ pc' = [pc EXCEPT ![c] = "fetched"]
    /\ UNCHANGED <<page_table, objs, disk, writes, marked>>

\* fetch_page(p), hit: move p to the front and return the pooled object
FetchHit(c, p) ==
    /\ pc[c] = "idle"
    /\ InPool(p)
    /\ lru_list' = <<p>> \o SelectSeq(lru_list, LAMBDA q : q # p)
    /\ handle' = [handle EXCEPT ![c] = page_table[p]]
    /\ pc' = [pc EXCEPT ![c] = "fetched"]
    /\ UNCHANGED <<page_table, objs, disk, writes, marked>>

\* fetch_page(p), miss: evict_page, then a new Page at the front
FetchMiss(c, p) ==
    /\ pc[c] = "idle"
    /\ ~InPool(p)
    /\ Len(objs) < MaxLoads
    /\ LET st  == EvictPage([table |-> page_table, lru |-> lru_list, disk |-> disk])
           new == Len(objs) + 1
       IN  /\ page_table' = [st.table EXCEPT ![p] = new]
           /\ lru_list' = <<p>> \o st.lru
           /\ disk' = st.disk
           /\ objs' = Append(objs, NewPage(p))
           /\ handle' = [handle EXCEPT ![c] = new]
    /\ pc' = [pc EXCEPT ![c] = "fetched"]
    /\ UNCHANGED <<writes, marked>>

\* page->data[0] = ...: a write through the shared_ptr, without mtx
WriteData(c) ==
    /\ pc[c] = "fetched"
    /\ writes < MaxWrites
    /\ writes' = writes + 1
    /\ objs' = [objs EXCEPT ![handle[c]].data = writes + 1]
    /\ pc' = [pc EXCEPT ![c] = "written"]
    /\ UNCHANGED <<page_table, lru_list, disk, handle, marked>>

\* mark_dirty(page_id) for the page the client wrote; the client then
\* drops its shared_ptr.  A page no longer in the table is ignored.
MarkDirty(c) ==
    /\ pc[c] = "written"
    /\ LET p == objs[handle[c]].page_id IN
       IF InPool(p)
       THEN /\ objs' = [objs EXCEPT ![page_table[p]].dirty = TRUE]
            /\ marked' = [marked EXCEPT ![p] = objs[page_table[p]].data]
       ELSE UNCHANGED <<objs, marked>>
    /\ handle' = [handle EXCEPT ![c] = None]
    /\ pc' = [pc EXCEPT ![c] = "idle"]
    /\ UNCHANGED <<page_table, lru_list, disk, writes>>

\* flush_page(p): write a pooled dirty page and clear its flag
FlushPage(c, p) ==
    /\ pc[c] = "idle"
    /\ InPool(p)
    /\ objs[page_table[p]].dirty
    /\ disk' = [disk EXCEPT ![p] = objs[page_table[p]].data]
    /\ objs' = [objs EXCEPT ![page_table[p]].dirty = FALSE]
    /\ UNCHANGED <<page_table, lru_list, handle, pc, writes, marked>>

\* flush_all_pages(): flush_page for every dirty page of the table
FlushAllPages(c) ==
    /\ pc[c] = "idle"
    /\ LET dirty == {p \in PageIds : InPool(p) /\ objs[page_table[p]].dirty}
       IN  /\ disk' = [p \in PageIds |-> IF p \in dirty THEN objs[page_table[p]].data
                                         ELSE disk[p]]
           /\ objs' = [o \in DOMAIN objs |->
                         IF \E p \in dirty : page_table[p] = o
                         THEN [objs[o] EXCEPT !.dirty = FALSE] ELSE objs[o]]
    /\ UNCHANGED <<page_table, lru_list, handle, pc, writes, marked>>

Next ==
    \E c \in Clients :
        \/ \E p \in PageIds : FetchHit(c, p) \/ FetchMiss(c, p) \/ FlushPage(c, p)
        \/ WriteData(c)
        \/ MarkDirty(c)
        \/ FlushAllPages(c)

Spec == Init /\ [][Next]_vars

-----------------------------------------------------------------------------
(* Properties                                                              *)

\* The replacement bookkeeping stays exact: lru_list holds each pooled page
\* once and nothing else, the pool never exceeds its capacity, and each
\* pooled object is the page it is filed under.
PoolMatchesLru ==
    /\ IsInjective(lru_list)
    /\ ToSet(lru_list) = {p \in PageIds : InPool(p)}
    /\ Len(lru_list) <= Capacity
    /\ \A p \in PageIds : InPool(p) => objs[page_table[p]].page_id = p

\* A write that mark_dirty registered is never lost: its version (or a
\* newer one) has been handed to write_page, or the pooled object still
\* holds it and is dirty, so eviction or a flush will hand it over.
MarkedWriteDurable ==
    \A p \in PageIds :
        \/ marked[p] <= disk[p]
        \/ /\ InPool(p)
           /\ objs[page_table[p]].dirty
           /\ marked[p] <= objs[page_table[p]].data

=============================================================================
