---------------------------- MODULE MCStructures ----------------------------
(***************************************************************************)
(* The single-threaded algorithms of the repository, each checked against  *)
(* a reference definition on every bounded input.  The one variable, input,*)
(* is a tagged record:                                                     *)
(*   graph   a wait-for graph over Nodes, fixed (detectDeadlock);          *)
(*   replay  a log file of up to MaxLen entries, fixed (readLogsFromFile,  *)
(*           replayLogs);                                                  *)
(*   trie    a Trie and the set of words it should hold, changed by every  *)
(*           insert and remove of a word over Alphabet of up to MaxWordLen *)
(*           characters;                                                   *)
(*   btree   a B-tree root and the set of keys it should hold, changed by  *)
(*           every insert of a new key and remove of a key in Keys;       *)
(*   cache   a WriteThroughCache over a storage.txt left by an earlier run, *)
(*           changed by every put and get over CacheKeys and CacheValues, *)
(*           with the last value put for each key and the last value a get *)
(*           returned.                                                     *)
(* The file declares the B-tree's owner, friend class BTree, but does not  *)
(* define it; BTreeInsert and BTreeRemove are the root handling such an    *)
(* owner must do (split a full root before insertNonFull, replace an empty *)
(* internal root by its only child after remove), as in CLRS, and the only *)
(* way a tree of height two can come about: BTreeNode's arrays are private.*)
(***************************************************************************)
EXTENDS Naturals, Sequences, SequencesExt, FiniteSets

CONSTANTS
    Nodes,        \* transaction ids of the wait-for graphs
    TxIDs,        \* transaction ids of the log records
    BadType,      \* model value: a logType integer outside the enum
    Malformed,    \* model value: a log line that does not parse
    MaxLen,       \* bound on the entries of a log file
    Alphabet,     \* characters of the trie's words
    MaxWordLen,   \* bound on the length of a word
    Keys,         \* the integer keys of the B-tree
    Undef,        \* model value: an unwritten array slot
    NoChild,      \* model value: an empty shared_ptr
    CacheKeys,    \* keys of the write-through cache
    CacheValues,  \* values put into it
    CacheCapacity,\* the capacity it is constructed with
    MaxLines,     \* bound on the lines of storage.txt
    ShardKeys,    \* keys of the sharding manager
    ShardValues,  \* values put under them
    ShardIds,     \* node ids addNode and removeNode are called with
    MaxShards,    \* bound on the nodes of the vector
    FileNames,    \* file names given to the DataFileManager
    Inodes,       \* inodes the file system can hand out
    FileData,     \* byte vectors written with writeFile
    MaxOffset,    \* bound on offsets, lengths and sizes of file calls
    MaxFileLen,   \* bound on the bytes of a file
    DocFiles,     \* the file name the i-th indexed document is added under
    MaxDocs,      \* bound on the documents added to the inverted index
    MaxTextLen,   \* bound on the characters of a document
    TableNames,   \* table names given to the row store
    MaxPageSize,  \* page sizes createTable is called with are 0..MaxPageSize
    MaxRows,      \* bound on the rows inserted into the row store
    MaxLogLines,  \* bound on the records logged to logfile.log
    FwIPs,        \* source addresses of simulated connections
    FwPorts,      \* their ports
    MaxFwCalls,   \* bound on the firewall calls and restarts
    OAuthStates,  \* the CSRF states GenerateState can return
    OAuthReqs,    \* concurrent requests to OAuth2TokenHandler
    OAuthTokens,  \* token strings a client can present
    JwtNames,     \* user names sent to the JWT server
    JwtPasswords, \* passwords sent with them
    JwtReqs,      \* concurrent requests to registerHandler
    MaxClock      \* bound on the clock, in ticks of 30 seconds

VARIABLE input

G  == INSTANCE Graphs
W  == INSTANCE WaitForGraph
LR == INSTANCE LogReplay
TR == INSTANCE Trie
BT == INSTANCE BTree
WC == INSTANCE WriteThroughCache
HS == INSTANCE HashSharding
DF == INSTANCE DataFileManager
TX == INSTANCE InvertedIndex
RS == INSTANCE RowStore
LF == INSTANCE LogFileManager
FW == INSTANCE Firewall
OA == INSTANCE OAuth2Server
JA == INSTANCE JwtAuthServer

-----------------------------------------------------------------------------
(* Inputs                                                                  *)

AsGraph(g) == [node |-> DOMAIN g, edge |-> {<<t, u>> \in (DOMAIN g) \X (DOMAIN g) : u \in g[t]}]

Records == LR!LogRecord(TxIDs, LR!LogType \cup {BadType}) \cup {Malformed}

Words == UNION {[1..n -> Alphabet] : n \in 0..MaxWordLen}

\* the value storage.txt holds for k: its last line with k, or -1
LatestIn(file, k) ==
    LET hits == {i \in 1..Len(file) : file[i][1] = k}
    IN  IF hits = {} THEN WC!NotFound ELSE file[Max(hits)][2]

\* the nodes testShardingSystem constructs the manager with
ShardStart == <<"Node1", "Node2", "Node3">>

\* the residues of std::hash that matter: 12 is a multiple of every
\* vector size up to 4
HashRange == 0..11

\* the byte vectors main writes are of this kind ("Hello")
MCFileData == {<<"H">>, <<"e", "l">>}

\* the file names main adds its two documents under
MCDocFiles == <<"document1.txt", "document2.txt">>

\* the whitelists main builds its firewall with
FwWhitelistedIPs == {"192.168.1.100", "10.0.0.5", "172.16.0.1"}
FwWhitelistedPorts == {80, 443, 22}

Texts == UNION {[1..n -> {TX!Upper, TX!Lower, TX!Punct, TX!Space}] : n \in 0..MaxTextLen}

Init ==
    input \in {[kind |-> "graph", g |-> g] : g \in [Nodes -> SUBSET Nodes]}
              \cup {[kind |-> "replay", file |-> f] : f \in UNION {[1..n -> Records] : n \in 0..MaxLen}}
              \cup {[kind |-> "trie", trie |-> TR!EmptyTrie, words |-> {}],
                    [kind |-> "btree", root |-> BT!NewNode(TRUE), keys |-> {}]}
              \cup {[kind |-> "cache", cache |-> WC!NewCache(f), ret |-> <<>>,
                     latest |-> [k \in CacheKeys |-> LatestIn(f, k)]] :
                      f \in {<<>>} \cup {<<<<k, v>>>> : k \in CacheKeys, v \in CacheValues}}
              \cup {[kind |-> "shard", hash |-> h, nodes |-> HS!NewManager(ShardStart),
                     ret |-> <<>>, crashed |-> FALSE] : h \in [ShardKeys -> HashRange]}
              \cup {[kind |-> "text", docs |-> d] :
                      d \in UNION {{[i \in 1..n |-> [file |-> DocFiles[i], content |-> c[i]]] :
                                       c \in [1..n -> Texts]} : n \in 0..MaxDocs}}
              \cup {[kind |-> "rows", store |-> <<>>, next |-> 1,
                     live |-> [n \in TableNames |-> <<>>], ret |-> RS!Null]}
              \cup {[kind |-> "log", lm |-> LF!NewManager(<<>>), tm |-> LF!NewTxManager,
                     fl |-> "idle", txs |-> {}, logged |-> <<>>, ret |-> <<>>, pend |-> <<>>]}
              \cup {[kind |-> "fw", fw |-> FW!NewFirewall(FwWhitelistedIPs, FwWhitelistedPorts, <<>>, o),
                     file |-> <<>>, evs |-> <<>>] : o \in BOOLEAN}
              \cup {[kind |-> "oauth", store |-> {}, generated |-> {}, accepted |-> <<>>, ret |-> 0,
                     req |-> [r \in OAuthReqs |-> "idle"]]}
              \cup {[kind |-> "jwt", db |-> <<>>, now |-> 0, jar |-> JA!NoToken, ret |-> 0,
                     reg |-> [r \in JwtReqs |-> [pc |-> "idle", name |-> "", pw |-> ""]]]}
              \cup {[kind |-> "files", fs |-> fs, lastw |-> [n \in FileNames |-> <<>>], ret |-> <<>>] :
                      fs \in {DF!NewManager(<<>>, <<>>)} \cup
                            {DF!NewManager(n :> i, i :> d) : n \in FileNames, i \in Inodes, d \in FileData}}

\* trie.insert(word)
TrieInsert(w) ==
    /\ input.kind = "trie"
    /\ input' = [input EXCEPT !.trie = TR!Insert(@, w), !.words = @ \cup {w}]

\* trie.remove(word)
TrieRemove(w) ==
    /\ input.kind = "trie"
    /\ input' = [input EXCEPT !.trie = TR!Remove(@, w).trie, !.words = @ \ {w}]

\* BTree::insert(k) for a key not yet in the index
BTreeInsert(k) ==
    /\ input.kind = "btree"
    /\ k \notin input.keys
    /\ LET r == input.root
           s == [BT!NewNode(FALSE) EXCEPT !.children[0] = r]
       IN  input' = [input EXCEPT !.root = IF r.n = 2 * BT!T - 1
                                           THEN BT!InsertNonFull(BT!SplitChild(s, 0, r), k)
                                           ELSE BT!InsertNonFull(r, k),
                                  !.keys = @ \cup {k}]

\* BTree::remove(k)
BTreeRemove(k) ==
    /\ input.kind = "btree"
    /\ LET r == BT!Remove(input.root, k)
       IN  input' = [input EXCEPT !.root = IF r.n = 0 /\ ~r.leaf THEN r.children[0] ELSE r,
                                  !.keys = @ \ {k}]

\* cache.put(k, v)
CachePut(k, v) ==
    /\ input.kind = "cache"
    /\ ~input.cache.hung
    /\ Len(input.cache.file) < MaxLines
    /\ input' = [input EXCEPT !.cache = WC!Put(@, k, v, CacheCapacity), !.ret = <<>>,
                              !.latest[k] = v]

\* cache.get(k); ret records a call that returned
CacheGet(k) ==
    /\ input.kind = "cache"
    /\ ~input.cache.hung
    /\ LET r == WC!Get(input.cache, k)
       IN  input' = [input EXCEPT !.cache = r.cache,
                                  !.ret = IF r.cache.hung THEN <<>> ELSE <<k, r.value>>]

\* shardManager.putData(k, v)
ShardPut(k, v) ==
    /\ input.kind = "shard"
    /\ ~input.crashed
    /\ input' = IF input.nodes = <<>>
                THEN [input EXCEPT !.crashed = TRUE]
                ELSE [input EXCEPT !.nodes = HS!PutData(@, input.hash, k, v),
                                   !.ret = <<>>]

\* shardManager.getData(k)
ShardGet(k) ==
    /\ input.kind = "shard"
    /\ ~input.crashed
    /\ input' = IF input.nodes = <<>>
                THEN [input EXCEPT !.crashed = TRUE]
                ELSE [input EXCEPT !.ret = <<k, HS!GetData(input.nodes, input.hash, k)>>]

\* shardManager.addNode(id)
ShardAdd(id) ==
    /\ input.kind = "shard"
    /\ ~input.crashed
    /\ Len(input.nodes) < MaxShards
    /\ input' = [input EXCEPT !.nodes = HS!AddNode(@, id), !.ret = <<>>]

\* shardManager.removeNode(id)
ShardRemove(id) ==
    /\ input.kind = "shard"
    /\ ~input.crashed
    /\ LET n == HS!RemoveNode(input.nodes, id)
       IN  input' = [input EXCEPT !.nodes = n, !.ret = <<>>]

\* the data file manager's calls; lastw holds the last write through each
\* open, not failed handle since no truncate or create of its name
FilesCall(fs, lastw, ret) ==
    /\ input.kind = "files"
    /\ \A x \in DOMAIN fs.disk : Len(fs.disk[x]) <= MaxFileLen
    /\ input' = [input EXCEPT !.fs = fs, !.lastw = lastw, !.ret = ret]

FreeInodes == Inodes \ DOMAIN input.fs.disk

\* dfm.createFile(n)
FilesCreate(n) ==
    /\ n \in DOMAIN input.fs.dir \/ FreeInodes # {}
    /\ FilesCall(DF!CreateFile(input.fs, n, IF FreeInodes = {} THEN 0 ELSE Min(FreeInodes)),
                 [input.lastw EXCEPT ![n] = <<>>], <<>>)

\* dfm.deleteFile(n), dfm.openFile(n), dfm.closeFile(n)
FilesDelete(n) == FilesCall(DF!DeleteFile(input.fs, n), input.lastw, <<>>)
FilesOpen(n) ==
    FilesCall(DF!OpenFile(input.fs, n),
              IF n \in DOMAIN input.fs.open THEN input.lastw ELSE [input.lastw EXCEPT ![n] = <<>>], <<>>)
FilesClose(n) == FilesCall(DF!CloseFile(input.fs, n), [input.lastw EXCEPT ![n] = <<>>], <<>>)

\* dfm.writeFile(n, d, off)
FilesWrite(n, d, off) ==
    FilesCall(DF!WriteFile(input.fs, n, d, off),
              IF n \in DOMAIN input.fs.open /\ ~input.fs.open[n].fail
              THEN [input.lastw EXCEPT ![n] = <<off, d>>] ELSE input.lastw, <<>>)

\* dfm.readFile(n, buffer, off, len) and dfm.getFileSize(n)
FilesRead(n, off, len) ==
    LET r == DF!ReadFile(input.fs, n, off, len) IN FilesCall(r.m, input.lastw, r.buf)
FilesSize(n) == FilesCall(input.fs, input.lastw, <<DF!GetFileSize(input.fs, n)>>)

\* dfm.allocateSpace(n, size), dfm.truncateFile(n, size)
FilesAllocate(n, size) == FilesCall(DF!AllocateSpace(input.fs, n, size), input.lastw, <<>>)
FilesTruncate(n, size) ==
    FilesCall(DF!TruncateFile(input.fs, n, size), [input.lastw EXCEPT ![n] = <<>>], <<>>)

\* the addresses deleteRow and getRow are called with, the invalid ones
\* included
RowPages == -1..MaxRows
RowIndexes == -1..MaxPageSize

\* rowStore.createTable(n, size)
RowsCreate(n, size) ==
    /\ input.kind = "rows"
    /\ input' = [input EXCEPT !.store = RS!CreateTable(@, n, size)]

\* rowStore.insertRow(n, row); live holds, per table, the rows the caller
\* has inserted and not deleted (RowStore prints nothing when the table
\* refuses the row)
RowsInsert(n) ==
    /\ input.kind = "rows"
    /\ input.next <= MaxRows
    /\ input' = [input EXCEPT !.store = RS!InsertRow(@, n, input.next), !.next = @ + 1,
                              !.live[n] = IF n \in DOMAIN input.store THEN Append(@, input.next) ELSE @]

\* rowStore.deleteRow(n, p, i): the row getRow shows at (p, i) leaves live
RowsDelete(n, p, i) ==
    /\ input.kind = "rows"
    /\ LET shown == RS!GetRow(input.store, n, p, i)
           d     == RS!DeleteRow(input.store, n, p, i)
       IN  input' = [input EXCEPT !.store = d.v, !.ret = d.ok,
                                  !.live[n] = IF shown = RS!Null THEN @ ELSE Remove(@, shown)]

\* rowStore.getRow(n, p, i)
RowsGet(n, p, i) ==
    /\ input.kind = "rows"
    /\ input' = [input EXCEPT !.ret = RS!GetRow(input.store, n, p, i)]

\* main's calls on the log manager; logged holds every record whose
\* logRecord call has returned, in this run or an earlier one on the same
\* file, and txs the ids beginTransaction has handed out in this run.
\* While stop() joins the flusher, main makes no call.
LogMain ==
    /\ input.kind = "log"
    /\ ~input.lm.hung
    /\ input.fl # "stopping"

\* txManager.beginTransaction()
LogBegin ==
    /\ LogMain
    /\ Len(input.logged) < MaxLogLines
    /\ LET r == LF!BeginTransaction(input.tm, input.lm)
       IN  input' = [input EXCEPT !.tm = r.tm, !.lm = r.lm, !.txs = @ \cup {r.txId},
                                  !.logged = Append(@, LF!Record("INSERT", r.txId, "Begin"))]

\* logManager.logRecord(LogRecord(type, tx, data))
LogWrite(type, tx) ==
    /\ LogMain
    /\ Len(input.logged) < MaxLogLines
    /\ tx \in input.txs
    /\ input' = [input EXCEPT !.lm = LF!LogRecord(@, LF!Record(type, tx, "Op")),
                              !.logged = Append(@, LF!Record(type, tx, "Op"))]

\* txManager.commit(tx), txManager.abort(tx), logManager.checkpoint()
LogCommit(tx) == LogMain /\ tx \in input.txs /\ input' = [input EXCEPT !.lm = LF!CommitTransaction(@, tx)]
LogAbort(tx) == LogMain /\ tx \in input.txs /\ input' = [input EXCEPT !.lm = LF!AbortTransaction(@, tx)]
LogCheckpoint == LogMain /\ input' = [input EXCEPT !.lm = LF!Checkpoint(@)]

\* logManager.flush(), recover(), getPendingLogs()
LogFlush == LogMain /\ input' = [input EXCEPT !.lm = LF!Flush(@)]
LogRecover == LogMain /\ input' = [input EXCEPT !.ret = LF!Recover(input.lm)]
LogPending == LogMain /\ input' = [input EXCEPT !.pend = LF!GetPendingLogs(input.lm)]

\* logFlusher.start(), logFlusher.stop() (which then joins)
LogFlusherStart == LogMain /\ input.fl = "idle" /\ input' = [input EXCEPT !.fl = "running"]
LogFlusherStop == LogMain /\ input.fl = "running" /\ input' = [input EXCEPT !.fl = "stopping"]

\* a pass of the flusher thread; its flush blocks on a hung logMutex_,
\* its check of stopFlushing_ does not
LogFlusherPass ==
    /\ input.kind = "log"
    /\ input.fl = "stopping" \/ (input.fl = "running" /\ ~input.lm.hung)
    /\ LET r == LF!FlusherPass(input.fl, input.lm)
       IN  input' = [input EXCEPT !.fl = r.fl, !.lm = r.lm]

\* the process dies (a hung one is killed) and main runs again on the
\* same logfile.log
LogCrash ==
    /\ input.kind = "log"
    /\ input' = [input EXCEPT !.lm = LF!NewManager(input.lm.file), !.tm = LF!NewTxManager,
                              !.fl = "idle", !.txs = {}, !.pend = <<>>]

\* main's firewall calls; evs records the calls that returned and the
\* restarts, file the log file as the current run found it.  A call on a
\* nil firewall panics and ends the run, as FwRestart does.
FwCall(ev, ip, port, fw) ==
    /\ input.kind = "fw"
    /\ input.fw # FW!Nil
    /\ Len(input.evs) < MaxFwCalls
    /\ input' = [input EXCEPT !.fw = fw, !.evs = Append(@, [ev |-> ev, ip |-> ip, port |-> port])]

\* firewall.SimulateConnection(ip, port), BlockIP(ip), UnblockIP(ip)
FwConnect(ip, port) == FwCall("conn", ip, port, FW!SimulateConnection(input.fw, ip, port))
FwBlock(ip) == FwCall("block", ip, 0, FW!BlockIP(input.fw, ip))
FwUnblock(ip) == FwCall("unblock", ip, 0, FW!UnblockIP(input.fw, ip))

\* the run ends (main returns, or a call on nil panics) and main starts
\* again: NewFirewall reopens the log file, which may fail
FwRestart ==
    /\ input.kind = "fw"
    /\ Len(input.evs) < MaxFwCalls
    /\ LET lines == IF input.fw = FW!Nil THEN input.file ELSE input.fw.log
       IN  \E o \in BOOLEAN :
              input' = [input EXCEPT !.fw = FW!NewFirewall(FwWhitelistedIPs, FwWhitelistedPorts, lines, o),
                                     !.file = lines,
                                     !.evs = Append(@, [ev |-> "restart", ip |-> "", port |-> 0])]

\* a request to OAuth2AuthorizeHandler: GenerateState, then the redirect;
\* generated holds every state handed out
OAuthAuthorize ==
    /\ input.kind = "oauth"
    /\ \E st \in OAuthStates \ input.generated :
          input' = [input EXCEPT !.store = OA!GenerateState(@, st),
                                 !.generated = @ \cup {st}, !.ret = 302]

\* the goroutine serving request r to OAuth2TokenHandler with query state
\* st (empty when missing) takes sessionStore's lock; accepted lists the
\* states it let through, in order
OAuthTokenCheck(r, st) ==
    /\ input.kind = "oauth"
    /\ input.req[r] = "idle"
    /\ LET v == OA!ValidateState(input.store, st)
       IN  input' = [input EXCEPT !.store = v.store,
                                  !.req[r] = IF v.ok THEN "exchange" ELSE "done",
                                  !.accepted = IF v.ok THEN Append(@, st) ELSE @,
                                  !.ret = IF v.ok THEN @ ELSE 400]

\* then exchangeCodeForToken, whose call to the provider may fail
OAuthTokenExchange(r, exchanged) ==
    /\ input.kind = "oauth"
    /\ input.req[r] = "exchange"
    /\ input' = [input EXCEPT !.req[r] = "done", !.ret = OA!TokenAnswer(exchanged)]

\* requests to the validation, revocation and refresh handlers
OAuthValidate(h) == input.kind = "oauth" /\ input' = [input EXCEPT !.ret = OA!TokenValidationAnswer(h)]
OAuthRevoke(h) == input.kind = "oauth" /\ input' = [input EXCEPT !.ret = OA!TokenRevocationAnswer(h)]
OAuthRefresh(rt, exchanged) ==
    input.kind = "oauth" /\ input' = [input EXCEPT !.ret = OA!RefreshAnswer(rt, exchanged)]

\* The goroutine of register request r decodes it (an invalid payload
\* answers 400) and checks userDB; a new name then goes on to bcrypt,
\* which takes about a second.
JwtRegisterCheck(r, name, pw, decoded) ==
    /\ input.kind = "jwt"
    /\ input.reg[r].pc = "idle"
    /\ input' = [input EXCEPT !.reg[r] =
                    [pc |-> CASE ~decoded -> "400"
                              [] JA!UserExists(input.db, name) -> "409"
                              [] OTHER -> "hashing",
                     name |-> name, pw |-> pw]]

\* then the hash (which can fail, 500) and the write to userDB, 201
JwtRegisterFinish(r, hashed) ==
    /\ input.kind = "jwt"
    /\ input.reg[r].pc = "hashing"
    /\ LET q == input.reg[r]
       IN  input' = IF hashed
                    THEN [input EXCEPT !.db = JA!StoreUser(@, q.name, JA!HashPassword(q.pw)),
                                       !.reg[r].pc = "201"]
                    ELSE [input EXCEPT !.reg[r].pc = "500"]

\* the browser's requests: /login, and /protected, /refresh and /logout
\* behind authMiddleware with the cookie it still holds
JwtLogin(name, pw) ==
    /\ input.kind = "jwt"
    /\ LET l == JA!Login(input.db, name, pw, input.now)
       IN  input' = [input EXCEPT !.ret = l.code, !.jar = IF l.code = 200 THEN l.token ELSE @]
JwtProtected ==
    /\ input.kind = "jwt"
    /\ LET m == JA!AuthMiddleware(JA!CookieSent(input.jar, input.now), input.now)
       IN  input' = [input EXCEPT !.ret = IF m = 0 THEN 200 ELSE m]
JwtRefresh ==
    /\ input.kind = "jwt"
    /\ LET c == JA!CookieSent(input.jar, input.now)
           f == JA!Refresh(c, input.now)
       IN  input' = [input EXCEPT !.ret = f.code, !.jar = IF f.code = 200 THEN f.token ELSE @]
JwtLogout ==
    /\ input.kind = "jwt"
    /\ LET m == JA!AuthMiddleware(JA!CookieSent(input.jar, input.now), input.now)
       IN  input' = [input EXCEPT !.ret = IF m = 0 THEN JA!Logout.code ELSE m,
                                  !.jar = IF m = 0 THEN JA!Logout.token ELSE @]

\* 30 seconds pass
JwtTick == input.kind = "jwt" /\ input.now < MaxClock /\ input' = [input EXCEPT !.now = @ + 1]

Next ==
    \/ \E w \in Words : TrieInsert(w) \/ TrieRemove(w)
    \/ \E k \in Keys : BTreeInsert(k) \/ BTreeRemove(k)
    \/ \E k \in CacheKeys : CacheGet(k) \/ \E v \in CacheValues : CachePut(k, v)
    \/ \E k \in ShardKeys : ShardGet(k) \/ \E v \in ShardValues : ShardPut(k, v)
    \/ \E id \in ShardIds : ShardAdd(id) \/ ShardRemove(id)
    \/ \E n \in TableNames :
          \/ RowsInsert(n)
          \/ \E size \in 0..MaxPageSize : RowsCreate(n, size)
          \/ \E p \in RowPages, i \in RowIndexes : RowsDelete(n, p, i) \/ RowsGet(n, p, i)
    \/ FwRestart
    \/ JwtProtected \/ JwtRefresh \/ JwtLogout \/ JwtTick
    \/ \E n \in JwtNames, pw \in JwtPasswords :
          \/ JwtLogin(n, pw)
          \/ \E r \in JwtReqs, d \in BOOLEAN : JwtRegisterCheck(r, n, pw, d)
    \/ \E r \in JwtReqs, h \in BOOLEAN : JwtRegisterFinish(r, h)
    \/ OAuthAuthorize
    \/ \E r \in OAuthReqs :
          \/ \E st \in OAuthStates \cup {""} : OAuthTokenCheck(r, st)
          \/ \E x \in BOOLEAN : OAuthTokenExchange(r, x)
    \/ \E h \in [bearer : BOOLEAN, token : OAuthTokens \cup {""}] : OAuthValidate(h) \/ OAuthRevoke(h)
    \/ \E rt \in {"", "refresh"}, x \in BOOLEAN : OAuthRefresh(rt, x)
    \/ \E ip \in FwIPs : FwBlock(ip) \/ FwUnblock(ip) \/ \E port \in FwPorts : FwConnect(ip, port)
    \/ LogBegin \/ LogCheckpoint \/ LogFlush \/ LogRecover \/ LogPending
    \/ LogFlusherStart \/ LogFlusherStop \/ LogFlusherPass \/ LogCrash
    \/ input.kind = "log" /\ \E tx \in input.txs :
          LogCommit(tx) \/ LogAbort(tx) \/ \E type \in {"INSERT", "UPDATE"} : LogWrite(type, tx)
    \/ input.kind = "files" /\ \E n \in FileNames :
          \/ FilesCreate(n) \/ FilesDelete(n) \/ FilesOpen(n) \/ FilesClose(n) \/ FilesSize(n)
          \/ \E off \in 0..MaxOffset :
                \/ \E d \in FileData : FilesWrite(n, d, off)
                \/ \E len \in 1..MaxOffset : FilesRead(n, off, len)
          \/ \E size \in 0..MaxOffset : FilesAllocate(n, size) \/ FilesTruncate(n, size)

Spec == Init /\ [][Next]_input

-----------------------------------------------------------------------------
(* Wait-for graphs                                                         *)

\* detectDeadlock reports a deadlock exactly when the wait-for graph has a
\* cycle, whichever entry the search starts from and whatever it has
\* already visited from earlier roots.
DetectsExactlyCycles ==
    input.kind = "graph" => (W!DetectDeadlock(input.g) = G!HasCycle(AsGraph(input.g)))

-----------------------------------------------------------------------------
(* Log replay                                                              *)

\* the transaction state the spec gives a txID after the records l: the
\* outcome of its last COMMIT or ABORT record, ACTIVE if it has none
LastOutcome(l, id) ==
    LET ends == {k \in 1..Len(l) : l[k].txID = id /\ l[k].logType \in {LR!COMMIT, LR!ABORT}}
    IN  IF ends = {} THEN LR!ACTIVE
        ELSE IF l[Max(ends)].logType = LR!COMMIT THEN LR!COMMITTED ELSE LR!ABORTED

\* replayLogs over what readLogsFromFile returns knows exactly the
\* transactions of the records it reached (the one whose unknown type
\* threw included), and leaves each in the state of its last COMMIT or
\* ABORT among the records before the throw: a later record of the same
\* transaction never resets it, and nothing after the first malformed
\* line or the throw counts.
ReplayEndStates ==
    input.kind = "replay" =>
        LET logs    == LR!ReadLogsFromFile(input.file, Malformed)
            bad     == {k \in 1..Len(logs) : logs[k].logType = BadType}
            reached == IF bad = {} THEN logs ELSE SubSeq(logs, 1, Min(bad))
            done    == IF bad = {} THEN logs ELSE SubSeq(logs, 1, Min(bad) - 1)
            st      == LR!ReplayLogs(logs)
        IN  /\ st.failed = (bad # {})
            /\ DOMAIN st.transactions = {reached[k].txID : k \in 1..Len(reached)}
            /\ \A id \in DOMAIN st.transactions : st.transactions[id] = LastOutcome(done, id)

-----------------------------------------------------------------------------
(* Trie                                                                    *)

\* After any sequence of insert and remove calls, search, starts_with and
\* get_words_with_prefix answer every query exactly as the set of words
\* inserted and not removed since does (the root always exists, so the
\* empty prefix is always a prefix).
TrieAnswersMatchWords ==
    input.kind = "trie" =>
        \A q \in Words :
            /\ TR!Search(input.trie, q) = (q \in input.words)
            /\ TR!StartsWith(input.trie, q) = (q = <<>> \/ \E w \in input.words : IsPrefix(q, w))
            /\ TR!GetWordsWithPrefix(input.trie, q) = {w \in input.words : IsPrefix(q, w)}

\* remove_helper prunes exactly the nodes no remaining word passes
\* through: the trie holds the root and the prefixes of its words, no
\* more, and is_end_of_word marks exactly the words.
TrieNoDeadNodes ==
    input.kind = "trie" =>
        /\ input.trie.nodes = UNION {Prefixes(w) : w \in input.words} \cup {<<>>}
        /\ input.trie.ends = input.words

-----------------------------------------------------------------------------
(* B-tree                                                                  *)

RECURSIVE InOrder(_), InOrderFrom(_, _)
\* the keys of the subtree rooted at x, in traversal order
InOrder(x) ==
    IF x.leaf THEN [i \in 1..x.n |-> x.keys[i - 1]] ELSE InOrderFrom(x, 0)
InOrderFrom(x, i) ==
    IF i > x.n THEN <<>>
    ELSE InOrder(x.children[i]) \o (IF i < x.n THEN <<x.keys[i]>> ELSE <<>>) \o InOrderFrom(x, i + 1)

RECURSIVE SubtreeNodes(_)
SubtreeNodes(x) == {x} \cup IF x.leaf THEN {} ELSE UNION {SubtreeNodes(x.children[i]) : i \in 0..x.n}

RECURSIVE LeafDepths(_)
LeafDepths(x) == IF x.leaf THEN {0} ELSE UNION {{d + 1 : d \in LeafDepths(x.children[i])} : i \in 0..x.n}

\* After any sequence of inserts and removes, a traversal of the tree
\* lists exactly the keys inserted and not removed since, in increasing
\* order.
BTreeKeysMatch ==
    input.kind = "btree" =>
        LET s == InOrder(input.root)
        IN  /\ ToSet(s) = input.keys
            /\ \A i \in 1..(Len(s) - 1) : s[i] < s[i + 1]

\* The tree stays a B-tree of minimum degree t: every node but the root
\* holds t-1 to 2t-1 keys, every internal node has its n+1 children, and
\* all leaves lie at the same depth, whichever borrow or merge remove took.
BTreeBalanced ==
    input.kind = "btree" =>
        /\ input.root.n <= 2 * BT!T - 1
        /\ \A x \in SubtreeNodes(input.root) \ {input.root} : x.n \in (BT!T - 1)..(2 * BT!T - 1)
        /\ \A x \in SubtreeNodes(input.root) :
              ~x.leaf => \A i \in 0..x.n : x.children[i] # NoChild
        /\ Cardinality(LeafDepths(input.root)) = 1

\* search finds every key the tree holds, on every path the undefined
\* reads of the array allow.
BTreeSearchFindsKeys ==
    input.kind = "btree" => \A k \in input.keys : BT!Search(input.root, k) = {TRUE}

-----------------------------------------------------------------------------
(* Write-through cache                                                     *)

\* The cache stays coherent with the store it writes through: each
\* cached key appears once, within capacity, holding the value last put
\* for it, and every get that returns gives that value (-1 for a key
\* never put), whatever sequence of puts, hits and misses led there,
\* over a file an earlier run left behind.
CacheCoherent ==
    input.kind = "cache" =>
        LET l == input.cache.list IN
        /\ Len(l) <= CacheCapacity
        /\ IsInjective([i \in 1..Len(l) |-> l[i][1]])
        /\ \A i \in 1..Len(l) : l[i][2] = input.latest[l[i][1]]
        /\ input.ret # <<>> => input.ret[2] = input.latest[input.ret[1]]

-----------------------------------------------------------------------------
(* Hash sharding                                                           *)

-----------------------------------------------------------------------------
(* Data file manager                                                       *)

\* A handle that has not failed reads back, at its offset, what it last
\* wrote, whatever deleteFile, allocateSpace, getFileSize and reads came
\* between: the bytes may still sit in the filebuf while the file on disk
\* is grown or its name removed, and the seek of readFile must write them
\* out first.
ReadOwnWrite ==
    input.kind = "files" =>
        \A n \in DOMAIN input.fs.open :
            LET w == input.lastw[n]
            IN  ~input.fs.open[n].fail /\ w # <<>> =>
                    DF!ReadFile(input.fs, n, w[1], Len(w[2])).buf = w[2]

-----------------------------------------------------------------------------
(* Inverted index                                                          *)

\* content has, between spaces or its ends, a word that reads q once its
\* punctuation is dropped and case ignored
HasWord(content, q) ==
    \E i, j \in 1..Len(content) :
        /\ i <= j
        /\ i = 1 \/ content[i - 1] = TX!Space
        /\ j = Len(content) \/ content[j + 1] = TX!Space
        /\ \A k \in i..j : content[k] # TX!Space
        /\ TX!ToLowercase(SelectSeq(SubSeq(content, i, j), LAMBDA c : c # TX!Punct)) = TX!ToLowercase(q)

\* After addDocument on each document in turn, search of a word of
\* letters in any case returns the file of every document holding that
\* word (ignoring case and punctuation), once per document and in the
\* order they were added.
TextSearchFindsDocs ==
    input.kind = "text" =>
        LET ix == FoldLeft(LAMBDA acc, d : TX!AddDocument(acc, d.file, d.content), TX!EmptyIndex, input.docs)
            hits(q) == SelectSeq(input.docs, LAMBDA d : HasWord(d.content, q))
        IN  \A q \in UNION {[1..n -> {TX!Upper, TX!Lower}] : n \in 1..2} :
                TX!Search(ix, q) = [i \in 1..Len(hits(q)) |-> hits(q)[i].file]

\* For every table created with a positive page size, the rows of its pages
\* 0..currentPageId, read in page order, are exactly the rows the caller
\* inserted into it and has not deleted, in insertion order (a deleteRow
\* removes the row getRow shows at that address and nothing else);
\* Table::getRowCount counts them, and no page holds more than pageSize.
\* It is about Table::insertRow's move to a fresh page and the row shifts
\* and rowCount bookkeeping of Page::insertRow and Page::deleteRow.
RowStoreHoldsLiveRows ==
    input.kind = "rows" =>
        \A n \in DOMAIN input.store :
            LET t == input.store[n]
                stored == FoldLeft(LAMBDA acc, p : acc \o t.pages[p].rows, <<>>,
                                   [j \in 1..t.currentPageId + 1 |-> j - 1])
            IN  t.pageSize > 0 =>
                    /\ stored = input.live[n]
                    /\ RS!TableGetRowCount(t) = Len(input.live[n])
                    /\ \A p \in DOMAIN t.pages : t.pages[p].rowCount <= t.pageSize

\* Every record whose logRecord call has returned, in this run or in an
\* earlier run on the same log file, is in logfile.log, in the order the
\* calls returned, and nothing else is; so a crash at any point loses no
\* returned record, and a recover lists a prefix of them.  It is about
\* the std::endl of logRecord, the ios::app open of a restarted
\* LogFileManager, and the commit, abort and checkpoint paths, which must
\* not write a record they never return from.
LogDurable ==
    input.kind = "log" =>
        /\ input.lm.file = input.logged
        /\ IsPrefix(input.ret, input.logged)

\* The firewall's log file lists, in order and across every run, exactly
\* the connections that were refused, each with the first reason that
\* applies: its address was blocked by a BlockIP of this run with no
\* UnblockIP after it, else the address, else the port is not whitelisted.
\* It is about SimulateConnection's order of checks, UnblockIP's delete,
\* blocks living only in memory, and the O_APPEND open of each run.
FirewallLogsRefusals ==
    input.kind = "fw" =>
        LET evs == input.evs
            lines == IF input.fw = FW!Nil THEN input.file ELSE input.fw.log
            blocked(i) ==
                \E j \in 1..(i - 1) :
                    /\ evs[j] = [ev |-> "block", ip |-> evs[i].ip, port |-> 0]
                    /\ \A k \in (j + 1)..(i - 1) :
                          /\ evs[k].ev # "restart"
                          /\ evs[k] # [ev |-> "unblock", ip |-> evs[i].ip, port |-> 0]
            reason(i) ==
                CASE blocked(i) -> "Blocked IP"
                  [] evs[i].ip \notin FwWhitelistedIPs -> "IP not whitelisted"
                  [] evs[i].port \notin FwWhitelistedPorts -> "Port not whitelisted"
                  [] OTHER -> "allowed"
            refused == SetToSortSeq({i \in 1..Len(evs) : evs[i].ev = "conn" /\ reason(i) # "allowed"}, <)
        IN  lines = [n \in 1..Len(refused) |->
                        [ip |-> evs[refused[n]].ip, port |-> evs[refused[n]].port,
                         reason |-> reason(refused[n])]]

\* However the token requests interleave, and whatever state each one
\* presents (replayed, guessed or missing), OAuth2TokenHandler lets each
\* state through at most once and only after GenerateState handed it out,
\* and sessionStore keeps exactly the states handed out and not yet let
\* through.  It is about the check and the delete sharing one critical
\* section of sessionStore's mutex.
StateSingleUse ==
    input.kind = "oauth" =>
        /\ \A i, j \in DOMAIN input.accepted : i # j => input.accepted[i] # input.accepted[j]
        /\ ToSet(input.accepted) \subseteq input.generated
        /\ input.store = input.generated \ ToSet(input.accepted)

=============================================================================
