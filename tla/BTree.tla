------------------------------- MODULE BTree -------------------------------
(***************************************************************************)
(* The B-tree nodes of src/indexing/trie_index/trie_index.cpp (lines       *)
(* 148-418): BTreeNode with MIN_DEGREE 3 and its search, insertNonFull,    *)
(* splitChild and remove family.  The file declares a friend class BTree   *)
(* but never defines it, so there is no root split and no root shrink:    *)
(* callers hold the root node and call its methods directly.              *)
(*                                                                         *)
(* A node is a record whose keys and children are the C++ arrays, indexed  *)
(* from 0 and of their allocated size (2t-1 keys, 2t children), so that    *)
(* the slots beyond n keep what was last written there: the code never     *)
(* clears them.  A slot never written holds Undef (new int[] is not        *)
(* initialised).  A node value contains its children's values; a method    *)
(* that changes a child returns the changed parent.                        *)
(***************************************************************************)
EXTENDS Integers, Sequences, FiniteSets, TLC

CONSTANTS
    Undef,      \* model value: an array slot never written
    NoChild     \* model value: an empty shared_ptr

\* MIN_DEGREE
T == 3

KeySlots == 0..(2 * T - 2)
ChildSlots == 0..(2 * T - 1)

\* BTreeNode(leaf)
NewNode(leaf) ==
    [leaf |-> leaf, n |-> 0,
     keys |-> [i \in KeySlots |-> Undef], children |-> [i \in ChildSlots |-> NoChild]]

\* keys[i] = v for every (i, v) of the assignments, in one go
SetKeys(x, f) == [x EXCEPT !.keys = [i \in KeySlots |-> IF i \in DOMAIN f THEN f[i] ELSE @[i]]]
SetChildren(x, f) ==
    [x EXCEPT !.children = [i \in ChildSlots |-> IF i \in DOMAIN f THEN f[i] ELSE @[i]]]

\* findKey: the first index whose key is not below key
FindKey(x, key) ==
    CHOOSE idx \in 0..x.n : (idx = x.n \/ x.keys[idx] >= key)
                            /\ \A j \in 0..(idx - 1) : x.keys[j] < key

-----------------------------------------------------------------------------
(* search                                                                  *)

\* search(key) compares keys[i] with key also when i = n: the slot holds a
\* stale key, an unwritten value, or (n = 2t-1) lies past the array.  The
\* last two are undefined, and either answer may come out; the operator
\* returns the set of possible results (TRUE: a node is returned).
\* A faulty search that compares keys[i] with key only in a leaf.
RECURSIVE SearchLeafOnly(_, _)
SearchLeafOnly(x, key) ==
    LET i == FindKey(x, key)
    IN  IF x.leaf THEN {i < x.n /\ x.keys[i] = key} ELSE SearchLeafOnly(x.children[i], key)

RECURSIVE Search(_, _)
Search(x, key) ==
    LET i    == FindKey(x, key)
        slot == IF i \in KeySlots THEN x.keys[i] ELSE Undef
        hit  == IF slot = Undef THEN {TRUE, FALSE} ELSE {slot = key}
    IN  UNION {IF h THEN {TRUE}
               ELSE IF x.leaf THEN {FALSE} ELSE Search(x.children[i], key) : h \in hit}

-----------------------------------------------------------------------------
(* insertNonFull and splitChild                                            *)

\* splitChild(i, y): the upper t-1 keys (and t children) of the full child
\* y move to a new node z, y's middle key moves up into slot i
SplitChild(x, i, y) ==
    LET z  == [NewNode(y.leaf) EXCEPT
                 !.n = T - 1,
                 !.keys = [j \in KeySlots |-> IF j < T - 1 THEN y.keys[j + T] ELSE Undef],
                 !.children = [j \in ChildSlots |->
                                 IF ~y.leaf /\ j < T THEN y.children[j + T] ELSE NoChild]]
        y2 == [y EXCEPT !.n = T - 1]
        x2 == SetChildren(x, [j \in (i + 2)..(x.n + 1) |-> x.children[j - 1]]
                             @@ (i + 1 :> z) @@ (i :> y2))
        x3 == SetKeys(x2, [j \in (i + 1)..x.n |-> x.keys[j - 1]] @@ (i :> y.keys[T - 1]))
    IN  [x3 EXCEPT !.n = x.n + 1]

\* insertNonFull(key)
RECURSIVE InsertNonFull(_, _)
InsertNonFull(x, key) ==
    LET pos == CHOOSE p \in 0..x.n : (p = 0 \/ x.keys[p - 1] <= key)
                                     /\ \A j \in p..(x.n - 1) : x.keys[j] > key
    IN  IF x.leaf
        THEN [SetKeys(x, [j \in (pos + 1)..x.n |-> x.keys[j - 1]] @@ (pos :> key))
                 EXCEPT !.n = x.n + 1]
        ELSE IF x.children[pos].n = 2 * T - 1
             THEN LET x2 == SplitChild(x, pos, x.children[pos])
                      i  == IF x2.keys[pos] < key THEN pos + 1 ELSE pos
                  IN  [x2 EXCEPT !.children[i] = InsertNonFull(x2.children[i], key)]
             ELSE [x EXCEPT !.children[pos] = InsertNonFull(x.children[pos], key)]

-----------------------------------------------------------------------------
(* remove and its helpers                                                  *)

\* removeFromLeaf(idx): shift the keys after idx left; the old last key
\* stays in slot n
RemoveFromLeaf(x, idx) ==
    [SetKeys(x, [i \in idx..(x.n - 2) |-> x.keys[i + 1]]) EXCEPT !.n = x.n - 1]

\* getPred(idx): from children[idx], follow children[cur->n - 1] down to a
\* leaf and take its last key
GetPred(x, idx) ==
    LET RECURSIVE Down(_)
        Down(cur) == IF cur.leaf THEN cur.keys[cur.n - 1] ELSE Down(cur.children[cur.n - 1])
    IN  Down(x.children[idx])

\* getSucc(idx): from children[idx + 1], follow children[0] down to a leaf
GetSucc(x, idx) ==
    LET RECURSIVE Down(_)
        Down(cur) == IF cur.leaf THEN cur.keys[0] ELSE Down(cur.children[0])
    IN  Down(x.children[idx + 1])

\* borrowFromPrev(idx): the separator moves down into children[idx], the
\* left sibling's last key moves up.  The child-pointer copy tests the
\* parent's leaf flag, as the code does.
BorrowFromPrev(x, idx) ==
    LET child   == x.children[idx]
        sibling == x.children[idx - 1]
        c1 == SetKeys(child, [i \in 1..child.n |-> child.keys[i - 1]])
        c2 == IF ~child.leaf
              THEN SetChildren(c1, [i \in 1..(child.n + 1) |-> child.children[i - 1]])
              ELSE c1
        c3 == [c2 EXCEPT !.keys[0] = x.keys[idx - 1]]
        c4 == IF ~x.leaf THEN [c3 EXCEPT !.children[0] = sibling.children[sibling.n]] ELSE c3
        x1 == [x EXCEPT !.keys[idx - 1] = sibling.keys[sibling.n - 1]]
    IN  [x1 EXCEPT !.children[idx] = [c4 EXCEPT !.n = child.n + 1],
                   !.children[idx - 1] = [sibling EXCEPT !.n = sibling.n - 1]]

\* A faulty borrowFromNext that does not shift the sibling's keys left.
BorrowFromNextNoShift(x, idx) ==
    LET child   == x.children[idx]
        sibling == x.children[idx + 1]
        c1 == [child EXCEPT !.keys[child.n] = x.keys[idx]]
        c2 == IF ~child.leaf THEN [c1 EXCEPT !.children[child.n + 1] = sibling.children[0]] ELSE c1
        s2 == IF ~sibling.leaf
              THEN SetChildren(sibling, [i \in 0..(sibling.n - 1) |-> sibling.children[i + 1]])
              ELSE sibling
        x1 == [x EXCEPT !.keys[idx] = sibling.keys[0]]
    IN  [x1 EXCEPT !.children[idx] = [c2 EXCEPT !.n = child.n + 1],
                   !.children[idx + 1] = [s2 EXCEPT !.n = sibling.n - 1]]

\* borrowFromNext(idx): the separator moves down to the end of
\* children[idx], the right sibling's first key moves up
BorrowFromNext(x, idx) ==
    LET child   == x.children[idx]
        sibling == x.children[idx + 1]
        c1 == [child EXCEPT !.keys[child.n] = x.keys[idx]]
        c2 == IF ~child.leaf THEN [c1 EXCEPT !.children[child.n + 1] = sibling.children[0]] ELSE c1
        s1 == SetKeys(sibling, [i \in 0..(sibling.n - 2) |-> sibling.keys[i + 1]])
        s2 == IF ~sibling.leaf
              THEN SetChildren(s1, [i \in 0..(sibling.n - 1) |-> sibling.children[i + 1]])
              ELSE s1
        x1 == [x EXCEPT !.keys[idx] = sibling.keys[0]]
    IN  [x1 EXCEPT !.children[idx] = [c2 EXCEPT !.n = child.n + 1],
                   !.children[idx + 1] = [s2 EXCEPT !.n = sibling.n - 1]]

\* merge(idx): children[idx], the separator and children[idx + 1] become
\* one node in children[idx]; the keys and children after idx shift left
Merge(x, idx) ==
    LET child   == x.children[idx]
        sibling == x.children[idx + 1]
        c1 == SetKeys(child, (T - 1 :> x.keys[idx])
                             @@ [i \in T..(T + sibling.n - 1) |-> sibling.keys[i - T]])
        c2 == IF ~child.leaf
              THEN SetChildren(c1, [i \in T..(T + sibling.n) |-> sibling.children[i - T]])
              ELSE c1
        x1 == SetKeys(x, [i \in idx..(x.n - 2) |-> x.keys[i + 1]])
        x2 == SetChildren(x1, [i \in (idx + 1)..(x.n - 1) |-> x.children[i + 1]])
    IN  [x2 EXCEPT !.children[idx] = [c2 EXCEPT !.n = child.n + sibling.n + 1],
                   !.n = x.n - 1]

\* fill(idx): give children[idx] a t-th key by borrowing or merging
Fill(x, idx) ==
    IF idx # 0 /\ x.children[idx - 1].n >= T THEN BorrowFromPrev(x, idx)
    ELSE IF idx # x.n /\ x.children[idx + 1].n >= T THEN BorrowFromNext(x, idx)
    ELSE IF idx # x.n THEN Merge(x, idx)
    ELSE Merge(x, idx - 1)

RECURSIVE Remove(_, _), RemoveFromNonLeaf(_, _)

\* A faulty remove that descends into a child without filling it first.
RemoveNoFill(x, key) ==
    LET idx == FindKey(x, key) IN
    IF idx < x.n /\ x.keys[idx] = key
    THEN IF x.leaf THEN RemoveFromLeaf(x, idx) ELSE RemoveFromNonLeaf(x, idx)
    ELSE IF x.leaf THEN x
    ELSE [x EXCEPT !.children[idx] = Remove(x.children[idx], key)]

\* removeFromNonLeaf(idx): replace keys[idx] by its predecessor or
\* successor and remove that from the child, or merge around it
RemoveFromNonLeaf(x, idx) ==
    LET key == x.keys[idx] IN
    IF x.children[idx].n >= T
    THEN LET pred == GetPred(x, idx)
             x1   == [x EXCEPT !.keys[idx] = pred]
         IN  [x1 EXCEPT !.children[idx] = Remove(x1.children[idx], pred)]
    ELSE IF x.children[idx + 1].n >= T
    THEN LET succ == GetSucc(x, idx)
             x1   == [x EXCEPT !.keys[idx] = succ]
         IN  [x1 EXCEPT !.children[idx + 1] = Remove(x1.children[idx + 1], succ)]
    ELSE LET x1 == Merge(x, idx)
         IN  [x1 EXCEPT !.children[idx] = Remove(x1.children[idx], key)]

\* remove(key); a key missing from a leaf leaves it unchanged
Remove(x, key) ==
    LET idx == FindKey(x, key) IN
    IF idx < x.n /\ x.keys[idx] = key
    THEN IF x.leaf THEN RemoveFromLeaf(x, idx) ELSE RemoveFromNonLeaf(x, idx)
    ELSE IF x.leaf THEN x
    ELSE LET flag == idx = x.n
             x1   == IF x.children[idx].n < T THEN Fill(x, idx) ELSE x
             c    == IF flag /\ idx > x1.n THEN idx - 1 ELSE idx
         IN  [x1 EXCEPT !.children[c] = Remove(x1.children[c], key)]

=============================================================================
