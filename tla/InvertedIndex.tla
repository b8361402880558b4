----------------------------- MODULE InvertedIndex -----------------------------
(***************************************************************************)
(* The inverted index of src/indexing/full_text_search/inverted_index.cpp. *)
(*                                                                         *)
(* Text is a sequence of characters from a small alphabet: a letter in     *)
(* lower and upper case, a punctuation mark and a space.  An index is a    *)
(* record [index, docIdToFile, currentDocId]: index maps each token to the *)
(* set of document ids it occurs in, docIdToFile maps ids to file names.   *)
(***************************************************************************)
EXTENDS Naturals, Sequences, SequencesExt, TLC

\* the characters the model's texts are made of
Upper == "A"
Lower == "a"
Punct == "!"
Space == " "

\* to_lowercase: tolower on every character
ToLowercase(s) == [i \in 1..Len(s) |-> IF s[i] = Upper THEN Lower ELSE s[i]]

\* A faulty split that drops the token the content ends with.
RECURSIVE SplitNoLast(_, _)
SplitNoLast(s, tok) ==
    IF s = <<>> THEN <<>>
    ELSE IF Head(s) = Space
         THEN (IF tok = <<>> THEN <<>> ELSE <<tok>>) \o SplitNoLast(Tail(s), <<>>)
         ELSE SplitNoLast(Tail(s), Append(tok, Head(s)))

\* the words `ss >> token` extracts from s: maximal runs of non-space
\* characters, tok being the run read so far
RECURSIVE Split(_, _)
Split(s, tok) ==
    IF s = <<>> THEN (IF tok = <<>> THEN <<>> ELSE <<tok>>)
    ELSE IF Head(s) = Space
         THEN (IF tok = <<>> THEN <<>> ELSE <<tok>>) \o Split(Tail(s), <<>>)
         ELSE Split(Tail(s), Append(tok, Head(s)))

\* tokenize: each word with its punctuation erased, lowercased; a word of
\* punctuation alone becomes the empty token
Tokenize(content) ==
    LET words == Split(content, <<>>)
    IN  [i \in 1..Len(words) |-> ToLowercase(SelectSeq(words[i], LAMBDA c : c # Punct))]

\* InvertedIndex()
EmptyIndex == [index |-> <<>>, docIdToFile |-> <<>>, currentDocId |-> 0]

\* addDocument(filename, content)
AddDocument(ix, file, content) ==
    LET toks == ToSet(Tokenize(content))
        id   == ix.currentDocId
    IN  [index        |-> [w \in DOMAIN ix.index \cup toks |->
                              (IF w \in DOMAIN ix.index THEN ix.index[w] ELSE {})
                              \cup (IF w \in toks THEN {id} ELSE {})],
         docIdToFile  |-> (id :> file) @@ ix.docIdToFile,
         currentDocId |-> id + 1]

\* search(query): the file names of the ids under the lowercased query,
\* in increasing id order (std::set<int>)
Search(ix, query) ==
    LET q == ToLowercase(query)
    IN  IF q \in DOMAIN ix.index
        THEN LET ids == SetToSortSeq(ix.index[q], <)
             IN  [i \in 1..Len(ids) |-> ix.docIdToFile[ids[i]]]
        ELSE <<>>

=============================================================================
