# SetrixDB in TLA+

TLA+ models, TLC runs and TLAPS proofs for SetrixDB, an engine for sets of
`uint64` ids (Go). All paths below are relative to the repository; definitions
are translated from the code, `PROJECT.json` ("map") names the lines of each.

## 1. The system

| Part | State | Operations | Interacts with |
|---|---|---|---|
| `Set` (`setrixdb.go`) | `ids` slice, `sorted` flag | Add, Len, Has, IDs (all but Add finalize lazily), Intersect, Union, Filter | shared by pointer between server handlers and C ABI callers |
| Set algorithms (`internal/addb/setops.go`) | none | binary search, merge intersection, batch search | used by `Set`, server, CLI |
| `.sxset` file (`persist.go`) | one file per set | WriteFile (truncate, buffered writes), ReadFile (magic, count, order) | server, CLI |
| HTTP server (`cmd/setrixdb-server`) | map of sets under an RWMutex, data directory | PUT, DELETE, GET, has, list, intersect, union; load at boot | goroutine per request; file written outside the lock |
| Static cluster (`internal/cluster/cluster.go`) | per node: named word slices under an RWMutex; per coordinator: one TCP connection per node, word ranges | LoadSet, IntersectStored, IntersectQuery | messages with a reply per request |
| Sharded cluster (`internal/cluster/sharded.go`) | shard owners from the ring, connections | the same three, over owned shards | ring, nodes |
| Hash ring (`internal/addb/ring.go`) | points, nodes, lazily sorted cache | AddNode, RemoveNode, Route, Nodes | sharded cluster |
| MPHF (`internal/mphf`) | displacements, occupied slots, rank directory | Build (bucket placement with retries), Lookup | `Index`, `Keyer` |
| Keyer (`keyer.go`) | small map or probed MPHF with terms | BuildKeyer, Lookup, Term, IDSet | MPHF, `Set` |
| `ShardedBitset` (`shard.go`), `ParallelSearchEngine` (`search.go`) | bit words, shards | Set/Has, parallel counts and searches | worker goroutines |
| `SparseSet`, `Synonyms`, `Bitset`, `ExtractSet` (`internal/addb`), SIMD kernels (`internal/simd`) | slices, words, offset table | element operations, vector and scalar loops | benchmarks |
| C ABI (`cmd/setrixdb-capi`) | handle registry under a mutex | new, add, len, has, intersect, free | `Set`, used outside the registry's lock |
| CLI (`cmd/setrixdb`) | one process per command; the sets it read | build, info, has, intersect | `.sxset` files, without a lock, also those of a running server |
| Demos, benchmarks (`cmd/*demo`, `cmd/*bench`) | none of their own | | |

### What is hard

* **HTTP server.** Handlers interleave; a query looks its operands up in a loop
  and computes after `RUnlock`; `persist` and `forget` run after `Unlock`, so map
  and file may be changed in opposite orders; `WriteFile` truncates and writes in
  chunks without a rename, so kills, failed writes and concurrent writers leave
  partial or mixed files; the reload has to tell those from good ones.
* **Set.** The first query of any goroutine sorts and compacts the shared slice in
  place without a lock.
* **C ABI.** A handle is looked up under a mutex and its set used after the mutex is
  released: frees and other calls come in between.
* **CLI.** A command reads a file in several system calls while the server truncates,
  rewrites or unlinks it; `build` may be killed or fail half way, and ignores an error
  of reading its own file back.
* **Cluster.** A load is sequential and stops at the first error, so nodes can hold
  different versions; a node that restarts has lost its sets and counts zero;
  `ShardedCluster.gather` returns at the first error and leaves goroutines on the
  other connections; two coordinators may load one name at once; a client that dials
  again leaves requests on its old connections, which the nodes still serve, also after
  those of the new ones.
* **Ring.** A virtual point that collides with another node's point is overwritten
  by AddNode and deleted by RemoveNode of either node; the sorted cache must never be
  stale.
* **MPHF, Keyer.** Placement retries must leave no trace of the failed attempt; the
  probe sequence must be the same in Build and Lookup.
* **ShardedBitset, ParallelSearchEngine, kernels.** Chunk bounds, merging of the
  workers' partial results, the words after the last whole vector, 32-bit offsets.

### What makes each part correct

* Server: requests are linearizable and answered exactly; whenever no write of a
  name is in flight, disk and memory agree on it; nothing is served that nobody
  PUT; every request is answered.
* Set: every answer is exact for the ids added; finalization keeps the elements.
* C ABI: a handle stands for one set until it is freed and for none afterwards.
* CLI: half a file is never taken for a set; a build that succeeds left its set.
* Cluster: a count that is returned without error is put together of versions that
  were loaded, and of the last one alone when that load was alone, succeeded, and no
  failed load left a request on its way;
  ranges partition the words; every call ends.
* Ring: every point names a node that is present, the cache always equals the
  points; without common points routing depends only on the nodes present, and
  adding or removing a node moves only that node's ids.
* MPHF/Keyer: distinct keys get distinct dense ids; a term that is not in the index is refused.

## 2. Modules

| Module | Models | How state and actions correspond |
|---|---|---|
| `SetOps` | `setops.go`, the algebra of `setrixdb.go` | one operator per function; loops are recursive functions |
| `SxsetFile` | `persist.go` | a file is a sequence of cells (magic with type, count, one per id); `Encode`, `ReadFile` with all its checks, `WriteAt` for a write at a descriptor's offset |
| `SetServer` | `cmd/setrixdb-server` | `sets` = `store.sets`, `writer`/`readers` = `store.mu`, `files` = the data directory; a worker is a request in service; each step is a lock operation, one map access, or one system call |
| `SetStore` | what the server promises | one atomic map; a request takes effect in one step and its answer is set theory over the map at that step |
| `Cli` | `cmd/setrixdb` | extends `SetServer`: `at`, `cmd`, `operands` are the process; it creates, writes and reads the server's `files` in system calls, any of which may fail, and an unlinked file stays readable for who opened it. A `build` that cannot read its file back prints 0 unique ids and exits with success (`main.go:181`), and so it does in the model |
| `SetServerAcked` | `SetServer` plus a history of acknowledged PUTs | used only for one finding |
| `ClusterNode` | node process, TCP connections | `alive`, `sets`; `Handle` is a request's lookup, count or replacement under the lock. To a node a connection is a queue of requests, to a client a queue of bytes, each of a reply of 12: `Byte` is its value. `late` holds the requests of connections that their client has closed, which `HandleLate` serves in any order with those of its next connection and `HangUp` gives up |
| `ClusterClient` | what both clients share | per client: a call as a set of nodes still to load, goroutines (`tasks`) and their `results`. A goroutine reads as `io.ReadFull` does, what has arrived of four bytes and then of as many as these four say (`Length`), and refuses more than `MaxMsg`. `Dial` closes the old connections and moves what they carry to `late`. Any number of clients use the nodes at once; `value` is what a name may be at a node after loads that overlapped, failed or were lost, and a load that follows counts with the requests still `Underway`, on closed connections too |
| `Coordinator`, `ShardedCluster` | the two clients | extend `ClusterClient` with their slices, load order and way to collect results |
| `LazySet` | `Add` and `finalize` of one shared `Set` | a step is one access to shared memory: cells, length, flag |
| `CApi` | `cmd/setrixdb-capi` | extends `LazySet`: `reg` and `next` are the registry; a call is its lookup under the mutex, then the steps of the set, then its result |
| `Ring` | `ring.go` | `points`, `nodes`, `sorted` are the fields; `hash` is chosen once, with or without common points |
| `Mphf` | `internal/mphf` | `Seed`, `Place`, `PackAndRank` are one attempt; words are sets of bits; h1 and h2 are arbitrary functions |
| `Keyer` | `keyer.go`, `Index` | extends `Mphf`: one `Probe` per term, then the build, then `FillTerms`; `Lookup` is an operator over the finished state |
| `Engines` | `search.go`, `shard.go`, `bitset.go`, `sparseset.go` | one call at a time; a worker's step is one id or shard, or one access to `total` |
| `Kernels` | `internal/simd`, `extract.go`, `synonyms.go` | operators: extraction and population count by vector and by word, the flat synonym table; used by `Engines` |
| `MC*` | | values of the constants for TLC |
| `SetServerProofs` (with the CLI), `SetOpsProofs`, `LazySetProofs` (with the C ABI), `CoordinatorProofs`, `ShardedClusterProofs`, `RingProofs`, `EnginesProofs`, `KeyerProofs` | | the theorems of section 5 |

`Coordinator` and `ShardedCluster` are compositions: client and node modules
joined by the queues of each connection. `SetServer` refines `SetStore`
(`Linearizable == Store!Spec` with the map and the answered requests as the
mapping). The operators whose names say a bug (`ReadLockDropped`,
`AfterUnlockNoForget`, ...) are variants of the definition they precede; each is
put in its place to see that a property notices.

## 3. Runs

| Run | Question | Bounds |
|---|---|---|
| `server_linearizable` | Is every request atomic and answered exactly, whatever happens to the files? | 2 names with one body each, 2 requests in service, every operation, overlapping writes, failing creates, writes and removes, kills and restarts from the files; 813k states |
| `server_faults` | What do kills, failed and partial writes leave behind? May a command run beside the server? Is every request answered? | 2 names, 2 requests in service; 6 commands, beside which one write of a second value or a removal is served (`Beside`); every read, write and create may fail; writes of one name serial; 100k states |
| `server_stale_restart` | README: sets are reloaded on boot. Refuted for overlapping writes of one name | finding 1 |
| `server_torn_overwrite` | The same, for an acknowledged set and a kill during its overwrite | finding 2 |
| `coordinator_exact` | Are counts exact when nodes die, restart empty, loads fail half way, or two clients load at once? Does every call return? | 2 nodes, 3 words, 2 names; one client with 3 calls and deaths, or two with 2 and 1; 179k states |
| `sharded_exact` | The same for slices by shard owner, with gathers that return early | 2 nodes, 3 shards of 5 words, 1 client, deaths; 3 calls in any order, or a query, two loads of one name and a query; 816k states |
| `sharded_retry` | Two gathers on one connection: refuted | finding 3 |
| `lazy_careful` | Are all answers exact if the set is finalized or in order before it is shared? Do handles keep their sets when freed in the middle of a call? | 2 threads over 2 handles, up to 4 ids over 3 values, every sequence of Adds; 96k states |
| `lazy_shared` | ... and if it is not? Refuted | finding 4 |
| `ring` | Are routes exact and changes minimal? | 3 nodes, 1 or 2 points each, all placements on 5 positions with common points, ids at, between and after the points; 82k states, nodes symmetric |
| `keyer` | Is an index that is built perfect, and every lookup exact? | up to 4 keys, every bucket and slot function, 2 attempts, colliding hash chains; 79k states |
| `engines` | Do goroutines of every schedule, and vectors of words, give the sequential answer? Are synonyms found? | batches up to 4 ids (one of 5), 1-4 shards of 3-bit ids with wrap-around, 1-3 goroutines; pairs of bitsets of up to 6 words in vectors of 2; tables of up to 3 entries with 2-bit offsets; 20k states |

Why the bounds are enough, where it is not plain:

* Server. Two requests suffice for every conflict of a lock or a file; three
  operands with a repeated one make a query's loop visible. In `server_faults` a file
  is written in two flushes, so every write has a moment when its file is torn, and
  `<<1,3>>` and `<<2,4>>` are chosen so that a mixture of two files can pass all checks
  of `ReadFile`. `server_linearizable` asks about the map and the answers: there a
  body fits one flush and files are torn only when it fails.
* CLI. One command at a time: two commands share nothing but files, which the
  server changes in every way they could. A build and a server write of the same
  name do not overlap, as two server writes do not (finding 1 holds for them too).
* Cluster. With 3 words on 2 nodes the ranges differ in length; with 5 words in
  3 shards both lengths of a shard occur and one node owns two shards that do not
  adjoin. Three calls allow two loads and a query, or a load and two queries,
  in every order; with two clients a query runs beside two loads, and a load beside
  another one. The fourth call of `sharded_exact` is for late loads: a failed query
  leaves a reply, a load takes it for its acknowledgement and fails elsewhere, the
  client dials again and loads another value, and the first load arrives after it. In
  `coordinator_exact` `late` stays empty, for a gather of a `Coordinator` waits for every
  reply (proved, in `Views`). A break loses the last six bytes, half a reply (`Piece`), or
  all, so headers and bodies are cut apart; the eight bytes of two replies decode to a
  count no slice has (`Misread`), and a length made of them may be 0, within `MaxMsg`
  or beyond. `sharded_exact` has one client, whose goroutines of failed gathers
  are its concurrency: two sharded clients that may lose nodes are beyond five minutes
  of TLC, and are covered by the theorem alone.
* C ABI. The second handle is of a finalized set, so that an intersection has an
  operand that needs no finalize and one that may need it.
* Perfect hash. Four keys are the fewest for which an attempt can fail after it
  placed a bucket. A word of 3 bits makes displacements straddle two words and
  slots fall in different blocks of the rank directory.
* Keyer. Hash chains over five hashes contain a pair and a full collision, a
  candidate that is another term's hash, and a chain that runs out.
* Engines. Ids of 3 bits make the round-up of a shard's size wrap; two offset bits
  give tables with fewer synonyms than, as many as, and more than offsets can count;
  `SynonymsExact` speaks of every entry that ends below that limit, in each of them.

Deadlock is checked in every run but `coordinator_exact` (the clients' calls are
used up), `keyer` (a build ends) and `engines` (a panic of `Set` ends the process).

**Fairness.** `SetServer`: each handler goes on (`WF Proceed`) and a waiter gets
the lock if it is free again and again (`SF Acquire`): `sync.RWMutex` queues
writers and hands over to the readers that waited. Nobody has to send requests,
and nothing has to fail or restart. `Coordinator`: goroutines of the client and
of living nodes go on (`WF Step`, `WF Serve`), and TCP reports the end of a dead
peer's connection. `LazySet` and `Engines`: goroutines are scheduled, each taking
the mutex once; in `CApi` every thread that is in a call goes on. `Cli` has the
fairness of `SetServer`; a command need not go on. `Keyer`: a sequential computation
goes on.

## 4. Findings

1. `persist` and `forget` run after the unlock (`main.go:151`, `:191`). Two
   overlapping writes of one name can reach map and file in opposite orders: a
   restart serves an overwritten value or a deleted set.
2. `os.Create` truncates the only copy (`persist.go:24`). A kill during an
   overwrite loses a set whose earlier PUT was acknowledged as persisted.
3. `ShardedCluster.gather` returns at the first error (`sharded.go:108`). Its
   goroutines go on reading; with the next call's they split one reply, and a
   body read as header of length 0 makes the client panic.
4. `finalize` writes the shared slice without a lock (`setrixdb.go:78`). Two first
   queries of a set whose ids were not in order index out of range or return
   unsorted ids.

Under the condition that excludes each of them (serial writes per name, a single
call after a failed one, a finalized set) the passing runs show the rest correct.
The condition on serial writes is needed for more than finding 1: two overlapping
`WriteFile`s of `<<1,3>>` and `<<2,4>>` can mix into a file that passes every check
of `ReadFile` and holds a set nobody PUT, which breaks `ServedWasPut` once
`Overlap = TRUE`. A command that reads a file while it is created anew may likewise
join old cells to new ones; `QueriesReadWholeSets` excepts that case by name.

## 5. Proofs

| Theorem | For all | Argument |
|---|---|---|
| `TypeCorrect` | names, bodies, requests, workers, chunk sizes | `TypeOK` is not inductive: that a flush is within the file and a lock holder is at a step under the lock is `Control`; both together are |
| `ServedSetsWerePut` | as above, serial writes | `FileInv`: every file is a prefix of `Encode` of a value once PUT; a write in service is the only one of its name and has written as much as its offset says. `ReadPrefix` gives that a load yields a value PUT, or nothing |
| `RestartKeepsSettledSets` | as above, persistent server | `DiskInv` adds to `FileInv`: a name without a write in service and not adrift after a failed call has exactly the file of its set |
| `ReadPrefix` | all values | `ReadFile` inverts `Encode` and refuses each proper prefix |
| `CommandsReadWholeSets`, `BuildsLeaveTheirSets` | names, commands and inputs, requests, workers, chunk sizes; a build and requests that write its name apart | `CliInv`, see below. A read may fail for other reasons than its file: then a query fails, and a build prints 0, which is what the theorem says of it |
| `ServedSetsWereWritten`, `BuildsLeaveOtherNames` | the same | `FileInv` and `DiskInv` are kept by commands as well: a build is the only one that writes its file, which is a prefix of its set like any other |
| `ServerStaysLinearizable` | the same | a step of a process is a stutter of `SetStore`, whose restart may load anything |
| `EveryWordHasOneNode` | nodes, words | `Lo` and `Hi` of adjoining nodes meet, and the word `k` is in the range of node `((k+1) * Nodes - 1) / Words` and no other |
| `CoordinatorProofs!TypeCorrect` | clients, nodes, words, bits of a word, names, calls, budgets; sets that fit one message, see below | `Control` adds to `TypeOK` what it needs of queues, goroutines, results and histories: messages are of calls, counts are naturals (the bits two finite slices share), what a goroutine has read is no more than it asked for, which is never more than `MaxMsg` |
| `OneReaderPerConnection` | the same | `Readers`: while a gather runs, its tasks are on different nodes and tasks and results add up to the nodes; a load has at most one task; a call that returned has none. `gather` waits for all replies, which is what `ShardedCluster` does not do (finding 3) |
| `LazySetProofs!TypeCorrect`, `QueriesAreExact`, `FlagIsNeverEarly` | goroutines, batches of ids, lengths; under `Careful` | `Inv`: before publication the owner is alone and `Alone` is the loop invariant of insertion sort, sweep and cut, store by store; afterwards the slice is sorted, without duplicates and complete (`Good`), and `Shared` says that goroutines which still run finalize write what is there |
| `CallersShareASet`, `CallersGetExactAnswers` | the same, through the C ABI | every step of `CApi` is a step of `LazySet` or leaves its variables alone, so `CSpec => Spec` |
| `RingTyped` | nodes, positions, any hash | the cache is empty or an order of the points' positions, and changes empty it |
| `NoPointOutlivesItsNode` | the same, common points included | a point's owner is active and has it; a leave removes all points of the node, also those another node took from it |
| `RingIsItsNodes` | the same; it speaks of hashes without a common point | `points` is the union of the active nodes' points: disjointness makes Remove the inverse of Add |
| `RoutesAreExact` | nodes, positions, any hash, ids | the cache is empty or the order of `points`' domain (`RingInv`); the search's first point at or after the id is unique |
| `MovesStayMinimal` | nodes, positions, hashes as for `RingIsItsNodes`, ids | a step's old and new successor differ only through the points it added or removed |
| `ServerIsLinearizable` | names, bodies, requests, workers, chunk sizes, overlapping writes and failing files included | `Spec => Linearizable`: every step of `SetServer` is the one step of `SetStore` that answers its request, or changes nothing the store can see; see below |
| `ContainsIsMembership`, `IntersectIsIntersection`, `FinalizeFinalizes`, `UnionIsUnion` | slices of any length | each loop of `SetOps` keeps an invariant from which set theory follows at its end; see below |
| `HandlesAreKept` | C callers, batches, what the two sets hold | `Handled`: the registry never holds a freed handle and handles are given once (`Registry`); a call that is under way was looked up whole, or some handle of it was freed (`Caller`) |
| `CoordinatorProofs!AnswersAreExact` | clients, nodes, words, names, calls, deaths | `AInv`, see below |
| `NoClientPanics` | the same | the same `AInv`: what a gather decodes is the body of the reply to its own request, so never fewer than eight bytes |
| `EveryWordHasOneShard` | shards, words | as `EveryWordHasOneNode`; with an owner per shard the nodes' slices are a partition of the words (`Home`) |
| `ShardedClusterProofs!TypeCorrect` | clients, nodes, shards and owners, words, names, calls, deaths | `Control` again; it says nothing of who reads a connection, since two goroutines may read one here |
| `ShardedClusterProofs!AnswersAreExact` | the same | each client is `Clean` or `Doomed`, see below |
| `SearchIsExact` | batches, shards, goroutines, schedules | `Searched`: what a goroutine has is the part of its chunk below its cursor that the shard has (`Hits`), in order; chunks in order are the batch, so the results joined are the filtered batch, and `SearchSortedBatch` filters the same one |
| `CountIsExact` | universe, shards, ids, goroutines, schedules | `Counted`: what a goroutine counted is the common ids in the shards it passed; with `NoAdditionIsLost` the total is what the goroutines in `Added` counted; shards are disjoint and cover the ids below the capacity, which is no less than a universe whose round-up does not wrap. Only a capacity of 0 panics, and that is an empty universe or one that wraps |
| `KernelsAreExact`, `SynonymsAreExact` | bitsets, word sizes and vector widths; entries that end before the last synonym an offset can count, in any table | `CallerInv`: the answer is what the kernel computes; `Lists` says that a part of the words gives its positions in order and parts join; `Placed` that every entry's offset is where its synonyms start, modulo what wraps |
| `EnginesProofs!TypesAreKept` | calls, goroutines | `AnswerInv` with `TypeInv`: results have types because they are exact |
| `EveryElementHasOneWorker` | elements, goroutines | element `e` is in the chunk `e \div c` of size `c`; chunks before it end by `e`, chunks after it start beyond; `k` chunks reach the end because the division rounds up |
| `NoAdditionIsLost` | goroutines, shards, ids | `MutexInv`: the holder of the mutex is the one goroutine between its lock and its store, so nobody else changes the total it read |
| `TablesAreExact` | keys, hash functions, word width, attempts | `Shape` bounds slots and words; a position is its word and bit (`OneBit`), so `SetBits` sets the slots of one bucket and no other |
| `IndexIsPerfect` | keys, buckets, slots, displacements, word and block width | `HashInv`, see below |
| `LookupsAreExact`, `NoTermIsLost`, `KeyerProofs!TypeCorrect` | vocabularies, hashes, candidates, slots of foreign keys | `KeyerInv`, see below |

**Induction over data.** The library's induction theorems take an operator as their
parameter, which the provers cannot instantiate. `SetOpsProofs` states induction for
a *set* of naturals instead (`Induction`, from `NatLessThanWellFounded` and `WFMin`),
and reads a recursive function as a solution of its equation (`Fixpoint`,
`LoopSolution`, `LoopType`), whose first `i` rounds keep an invariant
(`LoopInvariant`). The loops of `setops.go`, of the kernels, of the packing and of the
rank directory are proved so, for slices and words of every length.

**`ServerIsLinearizable`.** The mapping is the identity on `sets` and on the answered
requests. `StoreInv` is what the proof needs of the server: a worker in the read
section is registered as a reader (`ReadersRegistered`), so the map stands still
and what its loop collected is what the map has (`LoopsCopyTheMap`); a new request is
not yet answered (`Fresh`); sets in the map ascend (`SetsAscend`), which is what the
algorithms of `SetOps` ask of their operands; a file, whole or torn, is loaded as an
ascending set or not at all (`FilesKnown`, for the map after a restart). The step in
which a query finishes its loop, and the step in which a write stores its set, are
the steps of the store; parsing, locks, file calls, failures and answers are stutters.

**Commands beside the server.** `CliInv` adds to `FileInv` what a process knows.
`FilesMove` says that a step of the server leaves a file as it is, extends it by more
cells of the same set, removes it, or creates it anew. So what a process has read is the
beginning of what it reads, whether that file is still linked or not (`Reading`), until
the file is created anew, which `torn` records; when nothing more comes it has all, and
by `ReadPrefix` a whole set or an error (`Collected`). A build's file is `Prefix` of
`Built` up to its offset, and stays whole while the build reads it back (`Building`),
since `Apart` keeps the requests that write that name away. What is printed is then set
theory by the theorems of `SetOpsProofs` (`PrintedIsExact`).

**Sets that fit one message.** The theorems about the two clusters assume
`8 * Words + 128 * 1024 <= MaxMsg`: an operation, two names and the words of a whole set
are a message of at most `maxMsg`, 1 GB. That is every set of fewer than about 2^27
words, or 8.6 * 10^9 ids. Nodes refuse longer requests (`cluster.go:49`) and close the
connection, which no action models. Words may have any number of bits. What a client
reads is not bounded by this: the length that it takes from four bytes of two
replies may be anything, and is refused beyond `MaxMsg`. In a `Coordinator` it is
always 8, which is part of `Exchange`.

**`CoordinatorProofs!AnswersAreExact`.** A count is a sum over nodes of common bits. What makes it exact
is `Good`, per client: a connection without a goroutine is silent, the others carry one exchange
of the present call, and every reply and result is the count over that node's slice of
versions that the history `seen` has (`Talks`); the nodes a load has passed hold a
version that came up since it began (`Loads`); a gather has for each node a goroutine or
one result, or a broken connection that will give none (`Gathers`); what was returned is
a count of versions seen (`Exact`). `Views` adds that no closed connection carries a request.
`Stores` says that what a node holds is its slice of a version the name may have
there. Versions of different nodes are put together to one set, and its bits are
counted slice by slice; `EveryWordHasOneNode` makes the slices a partition.

**`ShardedClusterProofs!AnswersAreExact`.** Its gathers return at the first error, and
their goroutines go on reading while the client makes its next call. So `Good` does not
hold of every client, and two goroutines can split a reply (finding 3). What saves the
answers is that the first error of a client comes only from a connection that broke (a
length that is refused needs a goroutine which reads what another began), and that nothing
dials it again but `Dial`, which renews all of them. A client is therefore `Clean`, with
no goroutine of an earlier call and connections that carry its present call alone
(`Talks`, `Loads`, `Gathers`, `Exact`, as above), or `Doomed`: some connection is
broken and drained, and the call under way has not got a good result from it and still
needs one, so it cannot end without an error, whatever other goroutines read. A step
that breaks a connection may leave it with a reply that arrived before; then the client
stays `Clean` until a read finds the end. `History` holds of all clients, doomed ones
included, because they still write: every request on its way to a node carries a
version that its name may have (`Flying`, `Calls`), also those that closed connections
still bring (`Stale`), and every node holds its slice of one (`Stores`).

The proof corrected the model in three places. A load that failed may leave its request
on its way to a node that lives; it can overwrite what was loaded after, by another
client or by the same one over a new connection, so `BeginLoad` counts what is `Underway`
among the versions that can come up. So `AnswersExact` does not promise that a load
which ended well is the last word: a load that failed before it may still arrive. A panic ends all goroutines of its process, not
only the one that read the empty reply. And a message of a load names the set it was cut
from, a history that no step of the code reads.

**Perfect hash and Keyer.** `HashInv` is `TableInv` (which `TablesAreExact` states) and
`Packed`: a built index has no bucket left, and its words are `Pack` and `BuildRank` of
what was placed. `PackedIsRead` shows that `GVal` reads every displacement back,
whether or not it straddles two words, because numbers below `Pow2[w]` are their bits
(`BitsTell`); `RankCounts` that `Rank` counts the occupied slots before a slot, through
any block size; `PlacesAreAll` that ranks in a set of `n` slots are all of `0..n-1`.
`KeyerInv` adds that every key taken is a candidate of its term within the longest
probe kept (`Chosen`), that the perfect hash is of the keys of all terms (`Hashed`),
and that each term stands at its id (`Filled`). A term's own candidate is then among
those `Lookup` tries, no other term's table entry is equal to it, and a foreign key
can only lead to an entry that the comparison refuses.

The assumptions are the named ASSUMEs of the modules, which TLC evaluates in the
runs above. The theorems of `SetServerProofs` are about the server's own `Spec`
first, and its last part has them again for a server with commands beside it. By `CallersShareASet`
the theorems of `LazySetProofs` about `Spec` hold for the C ABI as `QueriesAreExact`
does.

Only model-checked: liveness (`EveryRequestAnswered`, `EveryCallReturns`,
`EveryQueryReturns`, `BuildEnds`, `CallsReturn`), which the prover does not do under
fairness. Every invariant and every action property that a passing run checks is
also a theorem. The findings are counterexamples of TLC: a violation needs no proof.

## 6. Abstractions and what is left out

* Names are model values without path separators; ids are small naturals.
* PUT bodies in `SetServer` are strictly increasing: for such bodies finalization
  changes nothing, which is what `lazy_careful` shows. For others see finding 4.
* A flush of `bufio.Writer` ends at a cell; a torn id would be rejected by the
  length check in the same way.
* A crash is a kill of the process; what an operating system loses from its cache
  is not modelled (the code never syncs).
* Responses of GET /sets are sets; the order of a Go map iteration is free.
* `sort.Slice` is modelled as the insertion sort it is up to 12 elements.
* The ring's hash functions are arbitrary; two points of one node never coincide,
  since a node's points are a set.
* A cluster client makes one call at a time. Two clients with node deaths are
  beyond TLC's reach: a behaviour has one or the other. In the runs words carry one bit,
  in the theorems any number.
* Sets in the cluster fit one message, see section 5.
* Names in the cluster are as long as the protocol allows: a name of 65536 bytes or
  more, whose length wraps (`cluster.go:76`), is left out, as are malformed messages.
* The load of a starting server is one step: it serves nobody before; a command that
  writes a file while that load reads it is left out. So are errors of the disk at
  that moment: a server that cannot read the directory, or a file, starts without the
  sets in it (`cmd/setrixdb-server/main.go:66`, `:76`), though `DiskFollowsMemory` would
  have it serve them.
* Ids are parsed outside the models: the 400 of `has` for an id that is no number
  (`cmd/setrixdb-server/main.go:163`), and the `has` of the CLI that stops at such an id
  after it printed answers (`cmd/setrixdb/main.go:219`). Both only read.
* A command's file is one of the server's; a build to another one, or to a device, shares
  nothing with it.
* `LazySet` reads the flag and the slice header in one step (`setrixdb.go:75`); they are
  separate words, which matters only where a finalize runs at the same time (finding 4).
* The two operands of a count in `Engines` have one geometry, so the cut to the shorter
  bitset (`bitset.go:26`) is left out of `AndPopcount`; `Kernels` has operands of
  different lengths.
* The perfect hash's h1 and h2 are arbitrary functions: mixing, seeds and
  remainders are abstracted. What a foreign key's slot may be is every slot.
* A goroutine of `Engines` starts when its loop iteration forks it; the model starts
  them together, which no shared state can tell apart.
* Vector instructions are modelled by what they compute, over sets of bits; which
  form runs on a processor is an argument (`tier`).
* Not modelled: of the CLI `id`, `keyer`, `bench` and `version`, which write no set;
  `sx_version` and `sx_free`; the positional hash (`hash.go`), which is deprecated and
  which `Keyer` abstracts to any function; demos, benchmarks and deployment, which
  only drive the parts above.

## 7. Plan

What is left: names that wrap, as a codec of messages over bytes beside the abstract
messages of `ClusterClient`, and the positional hash, should it come back into use.
