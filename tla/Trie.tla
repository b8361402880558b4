-------------------------------- MODULE Trie --------------------------------
(***************************************************************************)
(* The trie of src/indexing/trie_index/trie_index.cpp (lines 6-112).       *)
(*                                                                         *)
(* A TrieNode is named by the string of characters on the path from the   *)
(* root to it, so a trie is a record [nodes, ends]: the set of those       *)
(* strings (the root is <<>>) and the set of nodes whose is_end_of_word is *)
(* set.  The children of a node are the nodes one character longer that   *)
(* extend it.  Words are sequences over a small alphabet.  The single-     *)
(* threaded Trie class has no mutex; each public method is an operator.    *)
(* The order of get_words_with_prefix follows an unordered_map and is      *)
(* unspecified, so its result is a set.                                    *)
(***************************************************************************)
EXTENDS Naturals, Sequences, FiniteSets

\* the nullptr search_prefix returns
Null == "nullptr"

\* Trie(): a root with no children, not the end of a word
EmptyTrie == [nodes |-> {<<>>}, ends |-> {}]

Children(t, node) == {n \in t.nodes : Len(n) = Len(node) + 1 /\ SubSeq(n, 1, Len(node)) = node}

\* search_prefix: follow the characters of prefix from the root; a missing
\* child ends the walk with nullptr
SearchPrefix(t, prefix) ==
    LET RECURSIVE Walk(_, _)
        Walk(node, rest) ==
            IF rest = <<>> THEN node
            ELSE LET child == Append(node, Head(rest))
                 IN  IF child \notin t.nodes THEN Null ELSE Walk(child, Tail(rest))
    IN  Walk(<<>>, prefix)

\* insert(word): create the missing nodes along the path, mark the last
Insert(t, word) ==
    [nodes |-> t.nodes \cup {SubSeq(word, 1, k) : k \in 1..Len(word)},
     ends  |-> t.ends \cup {word}]

\* search(word)
Search(t, word) == LET node == SearchPrefix(t, word) IN node # Null /\ node \in t.ends

\* starts_with(prefix)
StartsWith(t, prefix) == SearchPrefix(t, prefix) # Null

\* collect_words(node, current_prefix, words): the node's word, then each
\* child's subtree
\* A faulty collect_words that takes a node's word only at a leaf.
RECURSIVE CollectWordsLeavesOnly(_, _)
CollectWordsLeavesOnly(t, node) ==
    (IF node \in t.ends /\ Children(t, node) = {} THEN {node} ELSE {})
    \cup UNION {CollectWordsLeavesOnly(t, child) : child \in Children(t, node)}

RECURSIVE CollectWords(_, _)
CollectWords(t, node) ==
    (IF node \in t.ends THEN {node} ELSE {})
    \cup UNION {CollectWords(t, child) : child \in Children(t, node)}

\* get_words_with_prefix(prefix)
GetWordsWithPrefix(t, prefix) ==
    LET node == SearchPrefix(t, prefix)
    IN  IF node = Null THEN {} ELSE CollectWords(t, node)

\* A faulty remove_helper that unmarks the word but never prunes a node.
RemoveHelperNoPrune(t, word, depth) ==
    IF word \in t.nodes /\ word \in t.ends
    THEN [trie |-> [t EXCEPT !.ends = @ \ {word}], result |-> FALSE]
    ELSE [trie |-> t, result |-> FALSE]

\* remove_helper(node, word, depth), where node is the first depth
\* characters of word; returns the trie and whether the caller should
\* delete node
RECURSIVE RemoveHelper(_, _, _)
RemoveHelper(t, word, depth) ==
    LET node == SubSeq(word, 1, depth) IN
    IF depth = Len(word)
    THEN IF node \notin t.ends THEN [trie |-> t, result |-> FALSE]
         ELSE LET t2 == [t EXCEPT !.ends = @ \ {node}]
              IN  [trie |-> t2, result |-> Children(t2, node) = {}]
    ELSE LET child == SubSeq(word, 1, depth + 1) IN
         IF child \notin t.nodes THEN [trie |-> t, result |-> FALSE]
         ELSE LET sub == RemoveHelper(t, word, depth + 1) IN
              IF sub.result
              THEN LET t2 == [sub.trie EXCEPT !.nodes = @ \ {child}]
                   IN  [trie |-> t2, result |-> Children(t2, node) = {} /\ node \notin t2.ends]
              ELSE [trie |-> sub.trie, result |-> FALSE]

\* remove(word): the trie after the call and the bool it returns
Remove(t, word) == RemoveHelper(t, word, 0)

=============================================================================
