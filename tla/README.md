# TLA+ models of the transactional core

These modules model the transactional core that `spec.md` describes, and check it with TLC. The core covers:

- the lock manager and its deadlock detector (two-phase locking);
- the timestamp-ordering controller;
- the isolation-level store;
- the write-ahead logs and recovery;
- master/slave replication, which the spec does not cover but which runs concurrent threads over a shared queue;
- the buffer manager, whose page table is shared by concurrent callers;
- the trie and B-tree of the index code, as recursive operators checked against reference sets;
- the write-through cache;
- the data file manager, with the fstream buffering it depends on, and the log file manager of the same file, across crashes and restarts;
- the hash-sharding manager;
- the inverted index of the full-text search;
- the row store;
- the Go firewall, JWT authentication server and OAuth 2.0 handlers appended to `transactions.cpp`.

Every definition is written from the C++ under `src/`. `PROJECT.json` maps each definition to the lines it models, and it lists the runs, the mutants, the findings and the hazards.

Run a check from this directory:

```
tlc -workers 2 -config <run>.cfg <MC module>
```

## The system and its parts

The repository holds several independent C++ programs, each a self-contained take on one part of the core. They do not call each other. The models follow the code, so each program gets its own module.

| Part (spec section) | Code | Module |
|---|---|---|
| Lock Manager (4.2) | `src/unnamed/part_020` lines 175-268, class `LockManager` | `LockManager` |
| Deadlock detection (4.2) | part_020 lines 280-302 and 360-376, `dfs` and `detectDeadlock` | `WaitForGraph` |
| Transaction Manager, locking (4.4) | part_020 lines 270-410, class `TransactionManager` and its drivers | `TwoPhaseLocking`, which composes the two above |
| Timestamp Ordering (4.3) | `src/transactions/concurrency_control/timestamp_ordering.cpp` | `TimestampOrdering` |
| Isolation levels (4.4) | part_020 lines 8-166, classes `Transaction` and `Database` | `IsolationLevels` |
| Durable log and recovery (4.1, 4.5) | `src/unnamed/part_019`: WAL, recovery and its `TransactionManager` | `WalRecovery` |
| Log replay (4.5) | `src/transactions/recovery/log_replay.cpp` | `LogReplay` |
| File write-ahead log (4.1, 4.5) | `src/transactions/transactions.cpp` lines 221-377: `WriteAheadLog`, `SimulateTransaction`, `RecoverFromLogs` | `FileWal` |
| Replication | `src/distributed_systems/replication/master_slave.cpp` | `Replication` |
| Buffer manager (storage) | `src/storage/buffer_manager.cpp` | `BufferPool` |
| Trie index | `src/indexing/trie_index/trie_index.cpp` lines 6-112 | `Trie` |
| B-tree nodes | `src/indexing/trie_index/trie_index.cpp` lines 148-418 | `BTree` |
| Write-through cache | `src/caching/write_through_cache.cpp` | `WriteThroughCache` |
| Data file manager (storage) | `src/storage/disk_storage/data_file_manager.cpp` lines 12-183 | `DataFileManager` |
| Log file manager, transaction manager, log flusher | `src/storage/disk_storage/data_file_manager.cpp` lines 216-370 | `LogFileManager` |
| Hash sharding | `src/distributed_systems/sharding/hash_sharding.cpp` | `HashSharding` |
| Full-text search | `src/indexing/full_text_search/inverted_index.cpp` | `InvertedIndex` |
| Row store | `src/storage/storage_formats/row_store.cpp` | `RowStore` |
| Firewall (Go) | `src/transactions/transactions.cpp` lines 385-501 | `Firewall` |
| JWT authentication server (Go) | `src/transactions/transactions.cpp` lines 503-700 | `JwtAuthServer` |
| OAuth 2.0 handlers (Go) | `src/transactions/transactions.cpp` lines 703-944 | `OAuth2Server` |

Each module `X` of a concurrent component has an `MCX` module that fixes its constants for TLC, and one `.cfg` per run. The single-threaded algorithms (`WaitForGraph`, `LogReplay`, `Trie`, `BTree`, `WriteThroughCache`, `DataFileManager`, `HashSharding`, `InvertedIndex`, `RowStore`, `LogFileManager`, `Firewall`, `OAuth2Server`, `JwtAuthServer`) are checked together by `MCStructures` in one run.

### How the parts interact, and how the modules follow

**LockManager.** There is one `std::mutex` per lock manager, so every call is one atomic step. The exception is `acquireLock`. When it cannot grant a request, it appends an ungranted request and sleeps in `cv.wait`, which releases the mutex. The model splits the call there:

- `AcquireLock(t, r, m)` runs up to the return or the wait. The variable `waiting[t]` records the parked request.
- `WakeUp(t)` is the return from the wait. It is enabled once the wait predicate holds: some request of `t` on `r` is granted.
- `ReleaseLock(t, r)` is `releaseLock`. It erases `t`'s requests, then grants and notifies the first ungranted request that is left.

The clients of `LockManager` are transactions in a growing phase (`Acquire`) and then a shrinking phase (`Release`), the way `TransactionManager` uses it. `releaseLocks` is public, so any client may release; the drivers of part_020 reach it only through `commitTransaction`, whose relock hangs (see `TwoPhaseLocking`), so the releases the model allows are those of other clients of the class.

**TwoPhaseLocking.** This module instantiates `LockManager` (`LM == INSTANCE LockManager WITH ...`), adds `TransactionManager::mtx` (`tm_mutex`), and gives each thread a program counter. `TransactionManager::acquireLock` makes two steps:

1. The lock-manager call, made without `mtx` (`AcquireLock`, plus `Resume` if it parks).
2. The block under `mtx` (`RecordLock`). It records the resource in `txn_locks` and adds wait-for edges to the other transactions' ungranted requests.

`releaseLocks` holds `mtx` across its loop: `StartReleaseLocks`, then one `ReleaseOne` per resource, then `EndReleaseLocks`. Other threads' lock-manager calls interleave with the loop's iterations. `RunDetector` is `detectDeadlock`, called from `main`'s thread. It uses `DetectDeadlock` from `WaitForGraph`.

`commitTransaction` and `rollbackTransaction` lock `mtx` and then call `releaseLocks`, which locks the same non-recursive mutex again. That is undefined behaviour. With libstdc++ on glibc the thread blocks forever while it holds `mtx`. The model takes that outcome: `Finish` leaves the thread in `commit_relock` or `rollback_relock` with `mtx` held.

**WaitForGraph.** This module is the recursive search, written as RECURSIVE operators:

- `Dfs` is `dfs`, carrying `visited` and `rec_stack`.
- `DfsEach` is its loop over successors.
- `DetectFrom` and `DetectDeadlock` are `detectDeadlock`.

The iteration order of an `unordered_set` is unspecified, and CHOOSE fixes one order. The result does not depend on the order.

**TimestampOrdering.** Each public method holds `mtx` for its whole body, so each call is one step. The conflict branches of `read` and `write` call `abort_transaction`, which locks `mtx` again. The model's `Hang` leaves the caller `hung` with `mtx` held, so no other call can enter. The variable `history` records the reads and writes that succeeded, in the order `mtx` admitted them. Item values and commit timestamps are left out, because no property depends on them.

**IsolationLevels.** Each call is atomic. The shared-map parts run under the static `data_mutex`, and the rest touches only the caller's own `Transaction`. Values are abstracted to fresh numbers, one per `write` call, so a value that comes back after being replaced can be recognised. `Install` updates `data` and the history variable `retired`, which holds the values that were current once and were replaced.

**WalRecovery.** The log is an `std::ofstream` that the code never flushes. `wal_buffer` is what the stream holds, and `wal_file` is what is on disk. `FlushWal` lets the library write out any prefix of the buffer at any time. `CrashRestart` loses the memory and the buffer, keeps the file, and starts a fresh `TransactionManager`. The fresh manager counts ids from 0 again and appends to the same file. `Recover` is `recover_from_log` over the file as a left fold (`FoldLeft` from SequencesExt), applied to the live transactions map. Operation text is abstracted to what the substring tests see: plain, mentions "committed", or mentions "aborted".

**LogReplay.** `replayLogs` is written as a fold over the records (`ReplayLogs`). The print-only redo hooks (`applyInsert`, `applyDelete`, `applyUpdate`) are recorded as the sequence `applied`. `ProcessEnd` is `processCommit` and `processAbort`. A type value outside the enum throws, which ends the replay. `ReadLogsFromFile` is `readLogsFromFile`. Its `>>` loop stops at the first line that does not parse as five fields, so the model's file may hold `Malformed` entries, and everything from the first one on is never read.

**FileWal.** `WriteLog` holds `file_mutex`, opens the file, writes one line and closes it, so one call is one step that puts a whole record in the file. Two `SimulateTransaction` threads each write BEGIN, `NumPages` UPDATEs and COMMIT (`Script`). `main` joins them and calls `RecoverFromLogs` (`ReadLogs` and its loop), then `ClearLogs`. `CrashRestart` kills the process at any point: the file survives, and `main` runs again from the top, appending transactions 1 and 2 again before it recovers. Each record carries a ghost field `run`, the execution of `main` that wrote it. Recovery cannot see it; only the property uses it.

**Replication.** The master owns one `DataStore` and one `ReplicationQueue`, and all slaves pop from that same queue. `MasterNode::write` is two critical sections, so it is two steps: `MasterStore` (under `data_mutex`) and `Push` (under `queue_mutex`). A slave's `replicate` loop is three steps:

- `Poll` tests `running` and `empty()`;
- `Pop` takes the front under a second lock, and is disabled while the queue is empty, which is the `cv.wait`;
- `SlaveStore` writes into the slave's own store.

`main` joins the clients (`JoinClients`), stops the slaves one by one (`StopSlave`), and returns (`MainReturn`). Each client makes one write to a key of its choice, so clients can collide on a key. `main` uses three distinct keys; the model generalises the driver. `StopSlave` may stop the slaves in any order, where the code goes in vector order; this adds interleavings and removes none. The reads in `main` change no state and are left out.

**BufferPool.** Every public method of `BufferManager` holds `mtx` for its whole body, so each call is one step: `FetchHit` and `FetchMiss` (`fetch_page`, with `evict_page` as the recursive operator `EvictPage` inside the miss), `MarkDirty`, `FlushPage` and `FlushAllPages`. `fetch_page` returns a `shared_ptr` to the `Page`, and the caller writes `page->data` through it without the mutex before it calls `mark_dirty` (`WriteData`, as `test_buffer_manager` does). Nothing pins the page meanwhile. Page objects are numbered as they are created (`objs`), so a client can still point at an evicted object. Data is abstracted to a version: the number of the write that produced it, with 0 for the zero-filled buffer of a new page. `DiskStorage` only prints, so `disk[p]` is the data last handed to `write_page`. The history variable `marked[p]` holds the version `mark_dirty` found in the pool.

**Trie.** A `TrieNode` is named by the string on its path from the root. A trie is then the set of those strings (`nodes`) and the set whose `is_end_of_word` is set (`ends`). `Insert`, `Search`, `StartsWith`, `SearchPrefix` and `GetWordsWithPrefix` follow the methods. `CollectWords` and `RemoveHelper` are RECURSIVE, like the code. `RemoveHelper` returns the trie together with the bool the code returns ("delete this node"). The order of `get_words_with_prefix` follows an `unordered_map`, so its result is a set.

**BTree.** A node is a record whose `keys` and `children` are the C++ arrays at their allocated size: 2t-1 keys and 2t children, indexed from 0. Slots beyond `n` keep whatever was last written there, because the code never clears them, and a slot never written holds the model value `Undef` (`new int[]` is not initialised). A node value contains its children's values, and a method that changes a child returns the changed parent. `Search` returns the set of possible results: `search` reads `keys[n]` too, which is stale, unwritten, or (on a full node) past the array. The file declares `friend class BTree` but never defines it. So nothing splits a full root or shrinks an empty one, and `BTreeNode`'s arrays are private. `MCStructures` therefore drives the root the way such an owner must (`BTreeInsert` and `BTreeRemove`, as in CLRS). Without that, no tree of height two can exist.

**WriteThroughCache.** `storage.txt` is a sequence of `<<key, value>>` lines. `StorageWrite` appends one, and `StorageRead` returns the value of the first line with the key, as `Storage::read` does, or -1. The cache is `cache_list_` alone, as `<<key, value>>` pairs with the most recent first. `cache_map_` only indexes into it. `Put` writes through, then updates and splices a cached key, or pushes a new one and drops the back beyond capacity. `Get` splices a hit to the front. On a miss it reads storage. If the value is not -1, `get` calls `put` while its `lock_guard` still holds `cache_mutex_`. That locks the same non-recursive mutex again and blocks the thread, so the model sets `hung` and no further call returns.

**DataFileManager.** Every method holds `fileMutex` for its whole body, so the manager changes one call at a time. Its state is a record of three functions:

- `dir`, from file names to inodes;
- `disk`, the bytes of every live inode;
- `open`, the `openFiles` map from names to streams.

A stream is `[ino, fail, pend]`. `pend` is the one write its filebuf holds; `writeFile`'s `seekp` flushes the previous one first, so at most one is ever pending. The model keeps the libstdc++ behaviour the methods depend on:

- `readFile`'s `seekg` also flushes the pending write;
- a read past the end sets `failbit`, and `seekg` clears only `eofbit`. A stream with `failbit` set then ignores every seek, write and read, while `writeFile` and `readFile` still return true;
- `fs::file_size`, `allocateSpace` and `truncateFile` use the file on disk, or a second stream, and do not see the pending bytes;
- a handle keeps its inode after `deleteFile` removes the name or `createFile` makes a new file under it. An inode no name or handle refers to is freed (`Collect`).

`defragment` rewrites each file with its own bytes and is not an action.

**LogFileManager.** A log record is `[type, txId, data]`. Its timestamp appears only in the line `toString` formats, and that line keeps the other three fields, so the model treats a line as its record. The manager has four parts:

- `file`: the lines that reached `logfile.log`;
- `buf`: the lines still in the ofstream's buffer;
- `pending`: `pendingLogs_`;
- `hung`: set once the thread holding `logMutex_` has locked it again.

`logRecord` writes its line and ends it with `std::endl`, which flushes. `commitTransaction`, `abortTransaction` and `checkpoint` hold `logMutex_` and call `logRecord`, whose `lock_guard` locks the non-recursive mutex again. The model takes that as the outcome: nothing is written, the thread blocks, and every later call blocks on the mutex. That is the same relock the other modules model. `beginTransaction` hands out `nextTxId_` and logs a "Begin" record. `LogFlusher`'s thread is a state: idle, running, stopping (`stop()` has set the flag and joins) or done. Each pass either breaks out or flushes, and a flush blocks on a hung mutex. A new `LogFileManager` opens the file in `ios::app`, so a restart keeps the earlier lines.

`defragment` rewrites each file with its own bytes, so it leaves every file as it was; it is not an action. `listFiles` and `printDirectoryInfo` only read.

**HashSharding.** A node is `[nodeId, data]`, and the manager's vector is a sequence of nodes. `std::hash` is a function `hash` from keys to residues, chosen in the initial state. Only `hash % size` matters, for sizes up to 4, so residues 0..11 give every case. `PutData` and `GetData` route to `hash[k] % Len(nodes)`. `AddNode` appends an empty node. `RemoveNode` erases the first node with the id, and its data goes with it. With an empty vector the route is `hash % 0`, and the model records that as a crash.

**InvertedIndex.** Text is a sequence of characters: `a`, `A`, the punctuation mark `!` and a space. That is enough to tell apart what `tokenize` does with case, punctuation and whitespace. `Split` is the loop of `ss >> token`, written RECURSIVE. `Tokenize` erases punctuation from each word and lowercases it, so a word of punctuation alone becomes the empty token, as in the code. `AddDocument` files the document's id under each token. `Search` lowercases the query and lists the file names of its ids in increasing order, as `std::set<int>` iterates them.

**RowStore.** A row is a number: no method looks at its fields. A `Page` keeps its vector of rows and its `rowCount` apart, as the code does. A `Table` maps page ids to pages and remembers `currentPageId`, and a `RowStore` maps table names to tables. Each method is one operator, with the same guards and early returns. A method that returns a bool and changes its object returns a record `[ok, v]`. `TableInsertRow` tries the current page and otherwise makes a new page current; the new page's own `insertRow` decides the result, which `RowStore::insertRow` drops. `PageDeleteRow` erases the row, so the later rows of the page move down one place.

**Firewall.** A firewall is a record of its three Go maps, taken as sets (an absent key reads false), and the lines of its log file. A line is `[ip, port, reason]`; the timestamp and wording play no part. `SimulateConnection` tests blocked, then IP whitelist, then port whitelist, and logs the first that fails. `BlockIP` and `UnblockIP` add and delete a map key. `NewFirewall` opens the file with `O_APPEND`, so earlier lines stay; when `OpenFile` fails it returns nil (`Nil`), and `main` calls methods on it unchecked, which panics.

**OAuth2Server.** The only state shared between the concurrent handlers is `sessionStore.state`, the CSRF states handed out and not yet redeemed, under the store's mutex. A state is a model value. `GenerateState` adds one. `ValidateState` is the critical section of `OAuth2TokenHandler`: a stored state is deleted before the lock is released, and any other is refused with 400. The call to the provider behind `TokenURL` is outside the program, so it either fails (500) or gives a token (200). `validateToken` accepts any non-empty string, and `revokeToken` only logs, so the validation and revocation handlers depend only on the `Bearer ` prefix and the token being non-empty. The refresh handler answers 400 without a refresh token, else 200 or 500.

**JwtAuthServer.** `userDB` maps names to bcrypt hashes, modelled as a record of the password (the salt only makes two hashes of one password differ). A JWT is `[user, exp]`; it is signed with `jwtKey`, so a client holds only tokens the server made. Time counts in ticks of 30 seconds: a token lives 10 ticks (5 minutes), and `/refresh` renews only a token with at most 1 tick left, else 400. `authMiddleware` answers 401 without a valid cookie. `logoutHandler` sets an empty cookie that expires now, and the browser drops it. `CookieSent` is the browser's side: a cookie past its `Expires` is not sent.

**MCStructures.** Its one variable `input` is a tagged record:

- a wait-for graph;
- a log file;
- a trie together with the set of words it should hold;
- a B-tree root together with the set of keys it should hold;
- a write-through cache, together with the value last put for each key and the last value a `get` returned. It starts over an empty `storage.txt` or over one line left by an earlier run.
- a sharding manager built with `Node1`..`Node3` as `testShardingSystem` builds it, a hash function and the last `getData` answer. It is explored for every sequence of puts, gets, adds and removes, and no invariant is stated over it (see Findings);
- a sequence of up to 2 documents, fixed, for the inverted index;
- a log manager, transaction manager and idle flusher over an empty `logfile.log`. It also holds `logged`, every record whose `logRecord` call has returned in any run; the ids begun in this run; and the last result of `recover`. `LogCrash` kills the process at any point and starts `main` again on the same file.
- a row store with no tables. It also holds `live`: for each table name, the rows the caller inserted into an existing table and has not deleted. A `deleteRow` takes out the row `getRow` shows at the same address.
- a data file manager over an empty directory or one file left by an earlier run. It also holds `lastw`: the last write through each open handle that has not failed, made since the last truncate or create of its name.

- a firewall (`fw`) over the whitelists of `main`, opened or not, with its log file and the sequence of calls made (`evs`). `FwConnect`, `FwBlock` and `FwUnblock` are the methods, each ending the run if the firewall is nil; `FwRestart` starts a new process over the log file;
- the OAuth `sessionStore` with the states generated, the states accepted in order, and a program counter per token request. `OAuthTokenCheck` is the critical section and `OAuthTokenExchange` the provider call after it, so three requests interleave between the two steps;
- the JWT server's `userDB`, a clock, the browser's cookie jar and a program counter per register request. `JwtRegisterCheck` decodes and tests `userDB`; `JwtRegisterFinish` hashes and writes it, so two registrations interleave between the test and the write. Login, the protected page, refresh and logout are single steps, and `JwtTick` advances the clock.

Graphs and files are fixed in the initial state. Tries and trees change by every insert and remove, so TLC explores every sequence of calls. Each invariant compares the code's operators with a reference definition.

## Runs

| Run | Module | Expect | Checks |
|---|---|---|---|
| `lm_safety` | MCLockManager | pass | `TypeOK`; `WaiterHasHolder` (a parked caller always faces a granted request of another transaction, so a release could wake it) |
| `lm_compat` | MCLockManager | violation | `GrantedCompatible`: the granted requests on a resource are all SHARED or belong to one transaction |
| `tpl_safety` | MCTwoPhaseLocking | pass | `TypeOK`; `LocksAccounted`: between calls, `txn_locks` names exactly the resources the transaction has requests on |
| `tpl_detector` | MCTwoPhaseLocking | violation | `DetectorComplete`: a detector run during a real deadlock reports it |
| `to_serial` | MCTimestampOrdering | pass | `TypeOK`; `ConflictSerializable`: the accepted operations have no cycle of conflicts |
| `iso_repeatable` | MCIsolationLevels | pass | `RepeatableRead`: under REPEATABLE_READ and SERIALIZABLE, a key read twice (and not written) reads the same |
| `iso_lost_update` | MCIsolationLevels | violation | `NoStaleWriteBack`: a replaced value never becomes current again |
| `wal_recover` | MCWalRecovery | violation | `RecoveredStateMatchesCalls`: after calls, crashes and `recover()`, each transaction's state is what commit or abort last decided |
| `repl_safety` | MCReplication | pass | `TypeOK`; `ExactlyOnce` (the bag of messages the slaves took plus the queue equals the bag pushed); `AppliesInPushOrder` (each slave's history is a subsequence of the push order); `PushedReplicated` (every pushed message is eventually stored by some slave, unless a slave has been stopped) |
| `filewal_redo` | MCFileWal | violation | `RedoOnlyCommitted`: every update `RecoverFromLogs` replays has a COMMIT record of the same run among the records it read |
| `structures` | MCStructures | pass | `DetectsExactlyCycles`: `detectDeadlock` agrees with `Graphs!HasCycle` on every graph over 4 transactions. `ReplayEndStates`: after `readLogsFromFile` and `replayLogs`, the transactions map holds exactly the ids of the records reached, each in the state of its last COMMIT or ABORT before a throw. `TrieAnswersMatchWords`: `search`, `starts_with` and `get_words_with_prefix` answer as the set of words inserted and not removed. `TrieNoDeadNodes`: `remove_helper` prunes exactly the nodes no remaining word passes through. `BTreeKeysMatch`: the traversal lists exactly the keys held, in increasing order. `BTreeBalanced`: non-root nodes hold t-1 to 2t-1 keys, internal nodes have all their children, and the leaves share one depth. `BTreeSearchFindsKeys`: `search` finds every key held, on every outcome of its undefined reads. `CacheCoherent`: each cached key appears once, within capacity, with the value last put, and every `get` that returns gives that value. `ReadOwnWrite`: a handle that has not failed reads back its last write, whatever `deleteFile`, `allocateSpace`, `getFileSize` and reads came between. `TextSearchFindsDocs`: after the documents are added in turn, `search` of a word of letters in any case lists exactly the documents holding that word, ignoring case and punctuation, in the order they were added. `RowStoreHoldsLiveRows`: for a table with a positive page size, its pages read in order hold exactly the caller's live rows in insertion order. `getRowCount` counts them, and no page is over its size. `LogDurable`: every record whose `logRecord` returned, in this run or an earlier one, is in `logfile.log` in order, and nothing else is. So a crash loses no returned record, and `recover` lists a prefix of them. `FirewallLogsRefusals`: the log file lists, in order and across restarts, exactly the connections a reference refuses, with the reason of the first failing check; a connection is refused as blocked when a block of its IP came earlier in the same run with no unblock since. `StateSingleUse`: every state accepted by the token handler was generated, none is accepted twice, and the store holds exactly the generated states not yet accepted. |
| `bufpool_safety` | MCBufferPool | pass | `PoolMatchesLru`: `lru_list` holds each pooled page once and nothing else, within capacity; `MarkedWriteDurable`: a version `mark_dirty` registered has reached `write_page`, or is held by a dirty pooled copy |

`structures` and `bufpool_safety` set `CHECK_DEADLOCK FALSE`. In `structures` the graphs and log files are fixed inputs, so their states have no successor by design. In `bufpool_safety` the bounds on page loads and writes end every behaviour. Each is a bound of the model, not a stop of the program.
Every property of a passing run has a mutant in `PROJECT.json`. A mutant is a plausible bug in the mapped code, and TLC finds the property violated once the mutant is substituted. Examples:

- a release that takes the waiter's index before the erase;
- a `dfs` that never pops `rec_stack`;
- an `acquireLock` that forgets `txn_locks.insert`;
- a `read` without the `write_ts` check;
- snapshot reads that do not cache;
- a `pop` that leaves the front in the queue, or takes the back;
- a replicate loop that tests `empty()` the wrong way round;
- an `evict_page` that drops a dirty page without writing it;
- a `remove_helper` that never prunes;
- a `collect_words` that takes words only at leaves;
- a `remove` that descends without `fill`;
- a `borrowFromNext` that does not shift the sibling's keys;
- a replay that resets a known transaction to ACTIVE on every record;
- a cache `put` that splices a cached key without updating its value;
- a `readFile` whose seek does not flush the pending write;
- a `tokenize` that drops the word the text ends with;
- a `Page::deleteRow` that does not decrement `rowCount`;
- a `logRecord` that ends its line with `'\n'` instead of `std::endl`;
- an `UnblockIP` that leaves the IP blocked;
- a token handler that does not delete the state it accepts.

## Findings

Each violation run reproduces a disagreement between the code and the spec.

- **Incompatible grant (`lm_compat`).** `releaseLock` grants the first ungranted request without checking it against the requests still granted. If t1 and t2 hold SHARED and t3 waits for EXCLUSIVE, t1's release grants t3 EXCLUSIVE beside t2's SHARED.
- **Detector misses deadlocks (`tpl_detector`).** Wait-for edges are added only after `lock_manager.acquireLock` returns, and they point to other transactions' ungranted requests. A thread parked in `acquireLock` therefore never contributes an edge. Take t1 holding X(1) parked on 2 and t2 holding X(2) parked on 1: the graph is empty and `detectDeadlock` returns false.
- **Lost update (`iso_lost_update`).** `Transaction::commit` writes back read-cached values. A REPEATABLE_READ transaction that only read `k` puts the old value back over a newer commit.
- **Committed transaction aborted by recovery (`wal_recover`).** Recovery matches substrings. Suppose an operation line that mentions "aborted" has reached the file and the commit line has not. Then `recover()` turns a committed transaction ABORTED. After a restart, ids start again at 1, so `recover()` can also apply an earlier incarnation's lines to new transactions.
- **Crashed run's updates replayed (`filewal_redo`).** `RecoverFromLogs` replays every UPDATE it reads. Suppose the process crashes after transaction 2 wrote BEGIN and one UPDATE. The next run appends transactions 1 and 2 again, with the same ids, and recovers; the crashed run's update is replayed as if committed. TLC finds it in a trace of 14 states.

Further problems were found while modelling and are listed as hazards with notes:

- A lock upgrade returns with its request ungranted. After t1 S and t2 S, a request of t1 for X returns at once.
- `commitTransaction` and `rollbackTransaction` relock `mtx` through `releaseLocks` and never finish. The model takes that outcome in `Finish`, but no run states termination.
- Timestamp ordering hangs instead of aborting on a conflict, by the same relock pattern.
- `commit_transaction` of part_019 writes into an unflushed stream, so a crash after it returns can lose the commit line. `WalRecovery` models the buffer; no run states durability.
- The replicas diverge. All slaves share one queue, so each message reaches one slave only, and with writes to the same key the slaves end with different values. A replica-agreement invariant fails in a few steps.
- A slave blocked in `pop()` is never woken by `stop()`.
- Caller-chosen timestamps can collide. With `UniqueTs = FALSE`, TLC finds a conflict cycle.
- Writes under READ_COMMITTED survive a rollback.
- The checkpoint labels aborted transactions "active".
- `replayLogs` (log_replay.cpp) redoes every data record as it reads it, so a transaction that never committed is redone. This is the same rule `filewal_redo` shows for the file WAL. A run on a one-record file showed it; that run was later replaced by the buffer-manager run.
- The buffer manager does not pin a fetched page. While c1 writes page 1 through its pointer, before `mark_dirty`, c2's fetches can evict the still-clean page, and the write is lost. TLC reaches this in a short trace with capacity 2.
- B-tree `search` reads `keys[n]`. After insert 1 and remove 1 on a leaf root, the slot still holds 1, and `search(1)` returns the node.
- `getPred` follows `children[n-1]` instead of `children[n]`. At height 3 the replacement is not the predecessor: insert 1..30 in the order i·7 mod 31, remove 14, and the traversal lists 10 after 13. This needs 17 or more keys, beyond the `structures` bound, so it was checked separately.
- With no `BTree` owner, an internal root left with n = 0 makes the next `remove` call `merge(-1)`.
- The write-through cache's `get` calls `put` under the mutex it holds. `main` blocks for ever at `get(3)`, whose comment says it "should miss and read from storage". Behind that block, `Storage::read` returns a key's oldest line. On a variant of the model in which the call does not block, `CacheCoherent` fails: with 1:7 left by an earlier run, put(1,8), put(2,7) and put(3,7) evict 1, and `get(1)` returns 7.
- The inverted index files a word made only of punctuation, such as `!`, under the empty token. `search` lowercases its query but does not strip punctuation from it, so a query of `a!` finds nothing even when a document holds `a!`. `TextSearchFindsDocs` asks only for words of letters, so it holds, and neither point is stated as a property.
- `createTable` accepts a page size of 0 or less. Then every `insertRow` makes a new empty page current and fails, and `RowStore::insertRow` drops the result without a message, so the rows are lost. `RowStoreHoldsLiveRows` is stated for positive sizes. The model reaches size 0, but nothing in the code says what it should do. A `deleteRow` also moves the later rows of its page down one place, so an address a caller holds may name another row afterwards.
- `main` of the log file manager never gets past `txManager.commit(tx1)`, by the relock above, so the flusher, `checkpoint` and `recover` it goes on to call never run. A restarted `TransactionManager` also hands out ids from 1 again into the append-only log, so after a restart two "Begin" records carry the same id. `recover` only prints the lines, so nothing the model holds depends on that.
- Hash sharding moves no data when the vector changes. Put x under a key, `addNode`, put y (now routed to the new node), `removeNode` it, and `getData` returns x. The invariant "`getData` returns the latest value or nothing" fails in five steps. Between membership changes routing is stable, but that only restates `storeData`'s overwrite, so no invariant is stated for sharding. `removeNode` can also empty the vector, and the next call computes `hash % 0`.
- `DataFileManager::readFile` past the end of a file leaves the handle with `failbit` set. Every later `writeFile` through it writes nothing and still returns true, until `closeFile`.
- A write still in a handle's filebuf survives `truncateFile` and `createFile` on the same name. Take a file holding one byte: open it, write 2 bytes at 0, truncate to 0, and close. The file then holds the 2 bytes.
- `registerHandler` tests `userDB` and writes it after a bcrypt hash of cost 14, with no lock. Two overlapping registrations of one name both answer 201 Created, and the password written first no longer logs in. An invariant saying that no two requests of one name both answer 201 is violated on the `structures` model in a few steps No run states it: a registration that does not overlap another is refused by the existence check itself, so the part that holds says nothing beyond that line.
- The JWT server keeps no record of tokens. `logoutHandler` only asks the browser to drop its cookie, and `refreshHandler` leaves the old token valid, so a copy of a token works until it expires. The OAuth `validateToken` accepts any non-empty string, and `revokeToken` only logs.
- `OAuth2TokenHandler` deletes the state before the provider call. When that call fails, the client gets 500 and a retry of the same callback is refused as a CSRF attempt.
- `NewFirewall` returns nil when the log file cannot be opened, and `main` uses the result unchecked, so its first call panics.
- `Trie::remove` returns "the root could be deleted", not "the word was removed", so `main` prints 0 for `remove("apple")`.

## Bounds, and why they are enough

- **LockManager.** 3 transactions, 2 resources, 2 `acquireLock` calls each, with resources requested in increasing order. This is enough for two holders plus a waiter, for upgrades, and for a waiter queued behind another waiter. The compatibility bug needs 3 transactions, and a smaller bound would hide it.
- **WaitForGraph** (in `structures`). All 65536 graphs over 4 nodes. This covers cycles of every length, self-loops, and cross edges into finished subtrees, which is the case a missing `rec_stack` pop gets wrong.
- **TwoPhaseLocking.** 3 transactions and 2 resources, 2 acquires each. These runs use transaction symmetry: 642,638 distinct states.
- **TimestampOrdering.** 3 transactions, 2 items, timestamps 1..3, 2 operations each. These runs use transaction and item symmetry. A conflict cycle needs two transactions each touching two items.
- **IsolationLevels.** 2 transactions, 2 keys, 3 operations each, all four levels. That is enough for read, concurrent commit, and re-read.
- **WalRecovery.** 2 transactions per incarnation, 1 operation each, at most 4 log lines, 2 incarnations.
- **LogReplay** (in `structures`). Every log file of up to 3 entries over 2 transaction ids and 6 type values, plus a malformed line.
- **FileWal.** 2 transactions, as in `main`; 2 updates each instead of 5, and at most 2 runs of `main` (one crash). One crash is the least that shows the replay of a crashed run, and the number of updates changes only the length of the script.
- **Replication.** 3 clients, as in `main`, 2 slaves and 2 keys. Two slaves are enough for the race on the shared queue, and 2 keys for 3 clients force a collision on a key. 91,915 distinct states.
- **Trie** (in `structures`). All 15 words of up to 3 letters over {a, b}, the empty word included, and every sequence of inserts and removes: all 32,768 word sets. Three letters give chains of nodes to prune, words that are prefixes of other words, and sibling branches.
- **BTree** (in `structures`). t = 3, as `MIN_DEGREE`, and keys 1..8 in every sequence of inserts and removes. That reaches trees of height 2 and every branch of `remove`: a found key in a leaf and in an internal node (predecessor, successor and merge), `fill` by borrowing from either side, and merging with the right and with the left sibling. Nine keys do not finish in 5 minutes, because stale array slots multiply the states. So a merge at a separator that has another separator after it, and heights of 3 or more, are not reached.
- **WriteThroughCache** (in `structures`). 3 keys, 2 values, capacity 2, and at most 4 lines in `storage.txt`, with an empty file or any one line at the start. Three keys over capacity 2 force an eviction, and a miss then reads storage. Two values let a key be overwritten.
- **HashSharding** (in `structures`). One key, every residue 0..11 of its hash, 2 values, and node ids `Node2` and `Node4` for `addNode` and `removeNode`, with at most 4 nodes. Keys never interact in the code, since each node's map holds them independently, so one key covers the routing. Residues 0..11 give every value of `hash % n` for n up to 4. Going from 3 to 4 nodes and back again is the shortest way to route a key away from its node and back.
- **DataFileManager** (in `structures`). One file name, two inodes (a recreated name gets a new one while a handle keeps the old), writes of one or two bytes at offsets 0..2, reads and sizes up to 2, and files of at most 3 bytes. Those bounds reach a write past the end (a gap of `'\0'`), a short read, and a truncation below a pending write.
- **InvertedIndex** (in `structures`). Every sequence of up to 2 documents. Document i is added under the i-th file name of `main` and holds any text of up to 3 characters, which gives 7,225 pairs. The queries are every word of 1 or 2 letters, in either case. Three characters give a word between two separators, punctuation inside or around a word, and repeated spaces. Two documents give a word in both, in one, or in neither.
- **RowStore** (in `structures`). Two table names, page sizes 0 to 2, and up to 4 rows inserted in all. Every `deleteRow` and `getRow` address is tried, with pages -1 to 4 and positions -1 to 2, so every guard is hit. Four rows fill two pages of size 2 and four pages of size 1, and they can be deleted from a page that is no longer current. About 10,000 states.
- **Firewall** (in `structures`). One whitelisted and one other IP, one whitelisted and one other port, and 4 calls or restarts in all. That reaches every reason, a block then an unblock before a connection, and a restart between a block and a connection, over an opened or a nil firewall.
- **OAuth2Server** (in `structures`). 2 states and 3 token requests, each presenting a generated state, an unknown one, or none. Three requests let two present one state while a third waits, and the provider call fails or succeeds.
- **JwtAuthServer** (in `structures`). 1 name, 2 passwords, 2 concurrent registrations and a clock of 12 ticks (6 minutes). One name is all the race needs, two passwords tell the two registrations apart, and 12 ticks pass a token's expiry of 10 ticks and its refresh window.
- **LogFileManager** (in `structures`). Up to 3 records logged in all, of types INSERT and UPDATE, with any number of crashes between them. That covers a record in each of two runs, a crash with the flusher running, and a commit hang after a record. About 2,600 states.
- **BufferPool.** 2 clients, 3 pages, capacity 2 (`test_buffer_manager` fetches 4 pages into a pool of 3; the model likewise has one page more than fits), 5 page loads and 3 writes. A third page forces evictions, and two clients let one evict the other's page between its write and its `mark_dirty`. Client symmetry applies: 16,174 distinct states.

Symmetry is used only with model values and never with liveness.

## Fairness

`lm_safety` states no liveness property. Whether a parked `acquireLock` ever returns depends on a later `releaseLock`, and in this program none comes: the drivers release only through `commitTransaction`, which holds `mtx` and hangs when `releaseLocks` locks it again. A fairness condition saying that every transaction eventually releases would be an assumption the code never meets, so the run checks only that a parked caller always faces a holder (`WaiterHasHolder`), the precondition for a release to wake it.

`repl_safety` checks `PushedReplicated` under weak fairness of each client's `MasterStore` and `Push`, and of each slave's `Poll`, `Pop` and `SlaveStore`. Each is a step of a runnable thread, and the OS scheduler runs a runnable thread eventually. The sleeps in `replicate` only delay the loop. `Pop` is enabled only while the queue is non-empty, which matches a thread in `cv.wait` being woken by `notify_all`. `main`'s steps get no fairness: the property exempts the states after a stop, and `main` may stop at any time after the joins.

## Not modelled, and why

- **The rest of storage.** The LZ4 and Snappy programs hand whole files to the library's compressor and write the result back. The column store keeps containers in one thread. Nothing in them interleaves, and compression is the library's byte-level transformation, which the model could only treat as an opaque function.
- **The rest of the Go code in `transactions.cpp`.** `homeHandler` and `protectedHandler` only write a greeting. `HashClientSecret` is a SHA-256 encoding that nothing calls, and the OAuth `main` is commented out. Signing a JWT with a fixed HMAC key cannot fail, so that error path is not an action. `Firewall.Close` only closes the file at the end of `main`.
- **The query processor** (`sql_parser.cpp`, `plan_generator.cpp`). This is tokenising and string building in one thread.
- **`encryption_at_rest.cpp`.** It calls OpenSSL. The model would have to treat the cipher as an opaque function, so it would show nothing about the code.

- **Unguarded reads of shared containers.** `Database::get_transaction` scans a vector without `db_mutex`, and `TransactionManager` reads `getLockTable()` without the lock manager's mutex. These are data races on containers that may reallocate. The outcome is memory corruption, which the model cannot express, so both are listed as hazards.
- **`create_checkpoint`** (part_019). Nothing reads its file back.
- **Torn log lines in `FileWal`.** A crash inside `WriteLog`'s close could leave half a line, and `ParseLogRecord` would then throw or index out of range. The model writes whole records; this is a hazard with a note.
- **The replication destructor.** `~MasterNode` deletes slaves whose detached threads may still run, which is a use after free. The plain `bool running` is a data race. The model ends at `main`'s return and takes the write to `running` as eventually visible.
- **The stub `TransactionManager` at the top of that file.** It does not compile (`Transaction` has no `write_set`), and its collaborators are print stubs.
- **Out of the spec's scope (section 1):** storage, indexing, caching, the query processor, the other distributed systems, networking, security, management tools, configuration, scripts and docs. They are listed in `PROJECT.json` with status `not_modelled`.

## Plan for the next modules

1. Paxos (`src/distributed_systems/consensus/paxos.go`): its proposers compare proposal numbers only, two proposers can both start at number 1, and a proposer never adopts a value already accepted. The agreement property of consensus is the question to ask.
2. An abstract transaction specification (ACTIVE to COMMITTED or ABORTED, and atomic visibility of commits), with `IsolationLevels` and `WalRecovery` shown to refine it through INSTANCE ... WITH a refinement mapping where the code allows.
3. Rules the code breaks that no run states yet: the lock upgrade, and operations on terminal transactions.
