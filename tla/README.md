# Verification of the lock-free durable sets

TLA+ models of the link-free and SOFT sets of this repository, and of the
memory manager under them, with the configurations that check them in TLC and
the proofs that TLAPS checks.

The sets live in non-volatile memory (NVM) behind volatile caches. After a
crash only what was written back is left, and recovery rebuilds the set from
the nodes it finds, not from their links, which are never persisted. Every
operation may race with every other, and no operation takes a lock.

## 1. Inventory

| Component | Source | State | Operations | Modelled in |
|---|---|---|---|---|
| link-free list | `LinkFree/LinkFreeList.h` | nodes: validity byte, insert and delete flag, key, link with mark bit | `insert`, `remove`, `contains`, `find`, `trim`, `FLUSH_INSERT`, `FLUSH_DELETE`, `recover`, `quickInsert` | `LinkFreeList` |
| validity byte | `LinkFree/utilities.h` | two bits, `v1` and `v2`: valid when equal | `isValid`, `makeValid`, `flipV1`, mark bit helpers | `MetaData`, `LinkFreeList` |
| SOFT list | `SOFT/SOFTList.h`, `SOFT/VolatileNode.h`, `SOFT/utilities.h` | volatile nodes whose link carries one of four states | `insert`, `remove`, `contains`, `find`, `trim`, `stateCAS`, `recovery`, `quickInsert` | `SOFTList` |
| PNode | `SOFT/PNode.h` | persistent node: `validStart`, `validEnd`, `deleted`, key | `alloc`, `create`, `destroy`, `isValid`, `isDeleted`, `recoveryValidity` | `SOFTList` |
| reclamation | `include/ssmem.c`, `ssmem.h` | timestamps of the threads; free, collected and available sets and released blocks of an allocator | registration, `ssmem_alloc`, `ssmem_free`, `ssmem_release`, `ssmem_ts_set_collect`, `ssmem_mem_reclaim` | `Ssmem` |
| chunks | `include/ssmem.c` | `mem`, `mem_curr`, the persistent list `mem_chunks` | allocation of a chunk, `ssmem_zero_memory`, linking | `SsmemChunks` |
| barrier | `include/barrier.h` | `crossing`, the waiting threads | `barrier_init`, `barrier_cross` | `Barrier`, in `Ssmem` |
| flush primitives | `include/common.h` | none | `FLUSH`, `BARRIER`, `SFENCE` | actions of the above |
| link-free skip list | `LinkFree/LinkFreeSkipList.h` | as the list, with a link for each level of a node | `insert`, `remove`, `contains`, `find`, `findNoCleanup`, `findSuccsNoCleanup`, `markNode` | `LinkFreeSkipList` |
| SOFT skip list | `SOFT/SOFTSkipList.h` | PNode and tower in one node, the state in its level 0 link | as the link-free one, `markNodes`, `help`, `destroy`, `stateCAS` | `SOFTSkipList` |
| hash tables | `LinkFreeHashTable.h`, `SOFTHashTable.h` | an array of lists | each call is one call of one list, `getBucket` | `HashTable` |
| benchmark | `BenchUtils.h`, `*Bench.cpp` | threads, `bench_stop` | registers with ssmem, crosses barriers, calls a set | its use of ssmem only |

How they interact. An operation of a set works on nodes it got from ssmem.
It gives a node back with `ssmem_free`, which is also how ssmem learns that the
caller has moved on: the version of its timestamp grows. ssmem hands a node out
again once, by the timestamps, every thread has moved on. A node keeps its old
content meanwhile, for the set's invariants in NVM rest on it. New memory comes
in zeroed chunks, reached after a crash through `mem_chunks`. In the benchmark
the barriers make every thread register before any of them allocates.

What is hard here:

- *Interleaving.* Searches, insertions, marks, helping and trims of several
  threads meet on neighbouring nodes. References go stale between a read and
  the compare-and-swap that relies on it. `makeValid` is a load and a store.
- *Order of persistence.* A line may be written back at any moment, between
  any two stores. Flags let threads skip flushes others have done.
- *Crashes*, also during recovery, with operations of all threads under way.
- *Reuse.* A late helper may write a node in its next life. Stamps of ssmem are
  read one by one.
- *Towers.* A node of a skip list is inserted and removed level by level, while
  searches use the levels as short cuts and other threads do the same. In the
  SOFT skip list the link of level 0 carries the state as well, and a
  compare-and-swap that is late may write an old one back.
- *Progress.* Retry loops, and the state loops of SOFT.

What makes the components correct: the sets are durably linearizable (and, as
parts of that, sorted, complete, without a key twice, and in NVM never
ambiguous); operations are lock-free and `contains` waits for nobody; ssmem
neither loses memory nor hands it out early; chunks are recoverable.
`PROJECT.json` lists the hazards one by one, each at its line.

## 2. Modules

| Module | What it is |
|---|---|
| `SequentialSet` | the calls, what each answers and does when nothing else runs |
| `DurableSet` | abstract specification of all the lists: histories with crashes |
| `ConcurrentSet` | abstract specification of a linearizable set, its effects visible |
| `LinkFreeList` | the link-free list on NVM, with crashes, recovery and reuse |
| `LinkFreeListInv` | the inductive invariants of the proofs |
| `LinkFreeListProofs` | its proofs: the list; what NVM holds; that it implements `DurableSet`; the validity byte |
| `MetaData` | the validity byte under racing `makeValid` calls |
| `SOFTList` | the SOFT list with its PNodes |
| `SOFTListInv` | the inductive invariants of the proofs |
| `SOFTListProofs` | its proofs: the list of volatile nodes; the PNodes and NVM |
| `Reclaimer` | abstract specification of ssmem |
| `Barrier` | the barrier that registration relies on |
| `Ssmem` | free sets, released blocks and timestamps |
| `SsmemInv`, `SsmemProofs` | its inductive invariant and proofs |
| `SsmemChunks`, `SsmemChunksProofs` | how a chunk becomes memory that recovery finds, and its proof |
| `Recursion` | induction, recursion over the numbers and chains of nodes, for the proofs |
| `LinkFreeSkipList`, `LinkFreeSkipListProofs` | the link-free skip list, level by level, and its proofs |
| `SOFTSkipList`, `SOFTSkipListProofs` | the SOFT skip list, level by level, and its proofs |
| `HashTable`, `HashTableProofs` | the hash tables over linearizable buckets, and their proofs |
| `MCLinkFreeList`, `MCSOFTList`, `MCLinkFreeSkipList`, `MCSOFTSkipList` | instances with any number of calls; the liveness specifications of the lists |
| `MCSsmem` | `Ssmem` with a bound on the versions |

Definitions named `...With...`, `...Without...` and the like, commented
"Fault:", are wrong variants of the definition that follows them. No
specification uses them; they serve to show that a property notices the fault.

### DurableSet

The abstract set is a *monitor*. `outcomes` holds every pair (set, answers
already determined) that the history of invocations, answers and crashes still
allows. Every running operation may take effect at any moment, so an answer
keeps only the pairs in which the operation could have given it, and a crash
keeps the effect of any subset of the running operations. An event that empties
`outcomes` is not a step of `DurableSet!Next`. A list implements the set when
all its events are steps: the property `DurablyLinearizable == DS!Spec`. The
lists carry `outcomes` as a history variable, so the refinement mapping is the
identity and needs no linearization points, which `contains` and failed inserts
do not have in the code. After recovery, `RecoverDone` reports the contents of
the rebuilt list, and only the pairs with exactly this set are kept.

### LinkFreeList

The state is that of the code: `valid`, `insertFlag`, `deleteFlag`, `key`, and
`next`/`marked` for the two parts of the link. `nvm[n]` is the persistent copy
of the node (a node never crosses a cache line). `FLUSH` copies all fields at
once; `Evict` does so at any moment. Stores reach a line in program order, as
on x86, so `nvm` always holds some earlier state of the whole node. Of a
persisted link only its kind is kept ("null", "ref", "marked"): recovery looks
at nothing else before it overwrites the link.

The local variables of an operation are `pred`, `curr`, `succ`, `newNode`,
`result`; `pc` names the next access to shared memory:

- `find`: `FindPass`, `FindMarked` (trim on the way), `FindAdvance` (the second
  read of `curr->next`, LinkFreeList.h:98), `FindHit`, `FindMissInsert`,
  `FindMissRemove`;
- `FLUSH_DELETE` and `trim`: `FlushDelete`, `SetDeleteFlag`, `Trim`,
  `FreeTrimmed`;
- `insert`: `AllocNode` (with `flipV1`), `InitNode`, `LinkNode`, `MakeValid`,
  `FlushInsert`, `SetInsertFlag`; a lost race is `MarkUnlinked`, `UndoInsert`;
- `remove`: `ReadSucc`, `MakeValid`, `Mark`, then as above;
- `contains`: `ContainsStep`, `ContainsMiss`, `ContainsHit`;
- `recover`: one action for each of the three verdicts on a node, in two steps
  where the code stores twice, and `QuickInsert`; `RecoverDone`.

Four mergers of accesses are listed, with the reason why each loses no
behaviour, at the head of the module. That `makeValid` may count as one step is
theorem `MakeValidIsOneStep`. That the link of a marked node is frozen, so that
it may be read early, is theorem `MarkedLinksStay`.

Reclamation is what the list *relies on*: a node is reused when every operation
that ran while it was unlinked has ended (`QuiesceOnFree = FALSE`). No sound
reclaimer hands memory out earlier, so whatever holds here holds with any.
`QuiesceOnFree = TRUE` is the rule ssmem implements: a thread counts as
quiescent whenever it frees. That weaker rule is what finding 1 is about.

### SOFTList

As `LinkFreeList`, with a volatile node and a PNode for each member. `next` and
`state` are two variables that change in one step, for they are one word.
`Expects(p, n, s)` is the comparison of such a word. The bits of a PNode are
modelled each for itself, with their meaning that alternates from one life to
the next (`alloc`, `pValidity`). `create` is two steps (`validStart`, then the
rest), as only the first of its stores matters to a crash, then the flush.
Helpers run `create` and `destroy` from `Target(t)`, which may be another's
node. Volatile nodes are never freed by the code (`trim` frees the PNode only);
the model reuses such a node, blanked, once no thread can reach it, in place of
a fresh one.

### LinkFreeSkipList

A node is a record: its bits and flags, `topLevel`, `key`, and a link for each
level. Level 0 is the set, the other levels are short cuts that no property of
the set may depend on. `nvm[n]` is kept as the key with which a recovery like
that of the list would find the node, or `Nil`: there is no recovery for skip
lists in the repository, so there are no crashes in the model either, and the
properties speak of what one would leave behind. (The first cache line of a
node holds everything up to the lowest links; `FLUSH` writes no other.)

- `findNoCleanup`, `findSuccsNoCleanup` and the loop of `contains` are one
  walk: `WalkOn`, `WalkStep` and `WalkDown`, which end in `WalkHit`,
  `WalkMiss`, `WalkMissInsert` or `ContainsDeleted`;
- `find` is `FindLevel`, `FindMarked`, `FindPass`, `FindStop`, `Cut`;
- `insert`: `AllocNode`, `LinkNode`, `MakeValid`, `FlushInsert`, or
  `MarkUnlinked` and `UndoInsert`; then for each upper level `RaiseLink`,
  `LinkUpper`, or `RaiseStops`, or `LinkUpperFails` and a `find`;
- `remove`: `MakeValid`, `Mark` from the top level down, `FlushDelete`, a `find`,
  `FreeRemoved`.

`preds` and `succs` are kept only as long as they are read again; `insert` does
read them long after the search that found them, which is the point of the
model. `Reuses` chooses the memory: `FALSE` gives every insertion a fresh node
(one that no thread and no link leads to stands for it), which is what the
program gets as long as ssmem reclaims nothing; `TRUE` hands freed nodes out
again by the rule that the list relies on.

### SOFTSkipList

A node is at once PNode and volatile node: four bits, `key`, `topLevel`, and
for each level a link that carries a state. On level 0 the state goes through
the life of the SOFT list (`INTEND_TO_INSERT`, `INSERTED`, `INTEND_TO_DELETE`,
`DELETED`), above it is `INSERTED` or `DELETED`. `CAS` compares reference and
state at once; the states threads expect there are those they have read some
time ago (`predState`). `nvm[n]` is, as above, the key with which the rules of
`SOFTList`'s recovery would find the node.

- the walk of `findNoCleanup`, `findSuccsNoCleanup` and `contains`: `WalkOn`,
  `WalkStep`, `WalkDown`, ending in `WalkAnswers` (`contains`, from any level),
  `InsertHelps`, `InsertFound`, `InsertMiss`, `RemoveMiss` or `RemoveFound`;
- `find`: `FindLevel`, `FindOn`, `FindStop`, `Cut` of a whole `DELETED` run;
- `insert`: `InsertMiss` (allocation), `LinkNode`, `Help` and `Publish`, also
  by helpers, or `UndoInsert`; then `RaiseLink`, `RaiseStops`, `LinkUpper`,
  `LinkUpperFails`;
- `remove`: `Mark` from the top, `Claim` of level 0, `Destroy`, `Bury`, and for
  the winner a `find` and `FreeRemoved`.

Line 149 asks a reference for its state after line 148 has cleared it: the
result is always `INSERTED`. The model does the same, and the run shows that it
is harmless: the node a search comes down on was inserted
(`TowersStandOnTheList`), and if it has been claimed since then, the
compare-and-swap that expects `INSERTED` fails.

### HashTable

`table[b]` is the set of a bucket, on which calls take effect between their
invocation and their return: what `LinkFreeList` and `SOFTList` are shown to
implement. `Remainder` is the `%` of C, which is negative for negative keys.
`ImplementsOneSet` maps the table to `ConcurrentSet` by the union of the
buckets.

### Ssmem, Barrier, Reclaimer, SsmemChunks

`Ssmem` has one action for each access to what threads share: `Register` and
`Count` (the timestamp is pushed on the list before the length is counted),
`CollectOne` and `StampOne` (one stamp), and the local rest of a call around
it. `ssmem_mem_reclaim` is one definition with two callers, as in the code:
`Reclaim` in `ssmem_free`, which puts a new set in front afterwards, and
`ReleaseDone` in `ssmem_release`, which does not, so that the set in front may
be one that is filling up and has stamps of a former life. Arrays of stamps
have a `size`, their length when they were allocated. `ReclaimsWhenQuiescent`
is the refinement of `Reclaimer` under `status <- ...`: objects handed out and
blocks returned to the operating system have no holders left.

`Barrier` is instantiated as `init_barrier`. `barrier_cross` runs under its
mutex, so it is two steps: arriving (`Cross`) and, for those that had to wait,
going on (`Leave`).

`SsmemChunks` follows a chunk from `aligned_alloc` to its place on `mem_chunks`
store by store and flush by flush, any line being evicted at any time.
`mem_size` is a few lines. The stride of the flush loop is as in the code.

## 3. Runs

Bounds are in the cfg files and nowhere else, but for the guards on
`MaxCrashes`, `MaxVersion` and `MaxVersionOfOthers`. The runs of the lists and
of the skip lists are not bounded in calls.

| Run | Question | Bounds | States |
|---|---|---|---|
| `list_concurrent` | sorted, linearizable, no reuse of held nodes, marked links frozen, marked nodes valid | 2 threads, 2 keys, 2 nodes | 520,715 |
| `list_crash` | flags, dead nodes and keys in NVM are as recovery needs; its assertions hold; durable linearizability | 2 threads, 1 key, 2 nodes, 2 crashes | 496,464 |
| `list_liveness` | lock freedom, `contains` returns | 2 threads, 2 keys, 2 nodes, calls as below | 404,771 |
| `list_reclaim` | finding 1 | 2 threads, 2 keys, 3 nodes, ssmem's rule | violation |
| `soft_concurrent` | sorted, durably linearizable, states only advance, helpers write live PNodes only, recovery's assertions | 2 threads, 2 keys, 2 nodes, 2 crashes, ssmem's rule | 930,204 |
| `soft_crash` | states are persisted, freed PNodes dead, keys unique in NVM; lock freedom, `contains` returns | 2 threads, 1 key and a second one looked for, 2 nodes, 1 crash | 501,432 |
| `ssmem_stamps` | reclamation is safe, one place per object, array bounds, what an idle thread holds back | 2 threads, one of them with 2 allocators, 5 objects, 2 blocks, sets of 2 and 1, versions up to 5 and 2 | 474,138 |
| `ssmem_growth` | the persisted chunk list is whole | 3 chunks of 4 lines | 2,614 |
| `ssmem_zeroed` | finding 2 | as above | violation |
| `skip_concurrent` | linearizable, short cuts lead to members, nothing dropped from a level, insertions in NVM | 2 threads, 2 keys, 2 nodes, 2 levels | 428,869 |
| `skip_durable` | finding 3 | 2 threads, 1 key, 2 nodes, 2 levels | violation |
| `softskip_concurrent` | linearizable, states only advance, nothing dropped from a level, short cuts lead to members, NVM holds what the history allows | 2 threads, 2 keys, 2 nodes, 2 levels | 343,832 |

Why the bounds are enough. One key with two nodes and any number of calls
contains every race on a key: insert against insert, against remove, against
the reuse of the node just freed, in any number of lives. Two keys add what
neighbours do to each other: insertion behind a marked node, removal of two
neighbours, trims that fail because the predecessor was marked. With two nodes
a key cannot come back while another key is present and a third node is still
held: `list_reclaim` has three nodes, because its behaviour needs them, and the
theorems of section 5 have any number. Two crashes let the second fall into the recovery from the
first, after which everything repeats. Three threads are not run for the lists:
with two keys the state space is out of reach, and there too the theorems help,
which hold for any number. `soft_crash` has one crash, as it checks liveness in the same state space, and
`soft_concurrent` the second. The towers of `skip_concurrent` have both levels:
nodes of one level are the list again, and with two nodes they would take the
place of the towers that meet. Two levels are enough for a level that is linked
after, marked before and searched above another one; `softskip_concurrent` has
the same bounds for the same reasons. In ssmem a second allocator is needed
because timestamps are shared between them, and sets of two objects because
with sets of one even the set just stamped would be safe to collect; the other
allocator has sets of one, so that runs of several sets are collected at once.
All lists of an allocator belong to one thread, and all that it sees of another
thread is its timestamp. So in the instance thread 0 allocates, frees and
releases, through full sets, collected runs, sets taken from in part and filled
again, and two rounds of collection, while the other may say that it is safe at
any moment of it, which is all that its own frees would do to thread 0. With five
objects two sets of two can be full when a fifth object is freed. A run of
several blocks needs a third block, which is out of reach together with the
rest; it is decided by the same comparison as a run of sets.

The instance has no thread that only registers, as main does in the benchmarks:
`IdleThreadStopsReclamation` is about the states in which one has not moved yet.

Where deadlock is not checked, the model may stop: calls are optional, and a
budget of frees, or memory waiting for other threads, may run out. Threads and nodes are
symmetric in the safety runs only.

Liveness is checked under `WF_vars(Step(Runner))` alone: one thread is scheduled
whenever it can step inside an operation; every other thread, and the
invocation of new calls, may stop for ever, anywhere. That is the assumption
under which lock freedom is defined, and the least an operating system gives.
`LockFree` says that if the runner keeps stepping without returning, then
operations of somebody keep returning. Waiting for memory is excepted
(`pc = "alloc"`), where the program would get a new chunk.

Symmetry is not sound for liveness, and without it the full choice of calls on
two keys is out of reach: `LiveNext` in the MC modules bounds it. In
`list_liveness` the runner looks for both keys and inserts and removes the larger
one, and the other thread inserts and removes both. The runner's retries thus
meet a removal at its own key and one at the neighbour before it, and its
`contains` walks over nodes that the other thread is inserting, has marked, or
has trimmed from under it. In `soft_crash`, whose state space has a crash too,
both threads insert, remove and look for the smaller key, and the runner looks
for the larger one as well: its `contains` takes one step of the walk, past a
node in any state, also one off the list, and then meets the tail.

## 4. Findings

1. `list_reclaim`. The usage rule of ssmem (ssmem.h:54-57) forbids a thread to
   use references it took before its last alloc or free. `find` breaks it: after
   `trim` has freed a node (LinkFreeList.h:77) it goes on with `prev` and with
   `curr`, whose `next` it reads (LinkFreeList.h:98). In the run `find` comes that
   way to a second node, which the other thread has removed and freed meanwhile.
   For ssmem, `find` let go of everything when it freed the first one: once the
   other thread has freed again, the second node is handed out, and `find` is
   about to read it. A `remove` whose last act was that `trim` is not the case
   shown: it returns without using what it holds (lines 157-158). SOFT calls `ssmem_free` in the same place
   and is not harmed, for what it traverses is never freed; `soft_concurrent`
   runs under the same rule and passes. In the benchmarks neither shows: main
   registers and never frees, so nothing is ever reclaimed
   (`IdleThreadStopsReclamation`).
2. `ssmem_zeroed`. `ssmem_zero_memory` (ssmem.c:725) flushes only the first
   1/64 of the chunk: its index counts bytes up to the number of lines. Nodes in
   the rest have in NVM what the memory held before, and recovery takes that
   for nodes.

3. `skip_durable`. A search must persist the deletions it passes, "to make sure
   the deletion is in the NVRAM before skipping" (LinkFreeSkipList.h:86). `find`
   and `contains` do; `findNoCleanup` and `findSuccsNoCleanup` (lines 112, 137),
   with which `insert` and `remove` search, do not. While one `remove` is
   between its mark (line 266) and its flush (line 267), another one answers
   false, and then a crash brings the key back.
What follows was seen while modelling and has no run.

*Skip lists are not lock-free.* For the same reason `insert` never unlinks
anything before its node is linked. Next to a node that is marked, its
compare-and-swap (LinkFreeSkipList.h:220) fails, and so does every retry, until
the remover itself runs `find` (line 270). Under fairness of the inserting
thread alone it never returns, and allocates and frees all the while. `insert`
of the SOFT skip list (SOFTSkipList.h:314) does the same. Nothing in the
repository says otherwise; liveness is checked for the lists only.

*Late links.* Between the test of the mark (line
237) and the compare-and-swap that links an upper level (line 247) a remover
may mark the node, pass that level with its `find`, and free the node, which is
then linked there again. If ssmem hands it out, it is found on that level under
its next key before it is inserted, and a removal of that key before its
insertion is linked answers false to a caller whom `contains` has told true.
`MCLinkFreeSkipList` with `Keys = {1}`, `Nodes = {n1}`, `MAX_LEVEL = 2`,
`Heights = {1, 2}` and `Reuses = TRUE` shows it in seconds (`Linearizable` is
violated). It too stays hidden while nothing is reclaimed, and
`TowersStandOnTheList` shows that without reuse no harm is done: what is linked
late is marked.

Not counted as findings, because nothing in the repository says otherwise:
`recover()` and `recovery()` are called nowhere and walk only the chunks of the
calling thread (the models let them visit all chunks, through a list that
persists), and would not compile if they were called: `Node *currNode =
currChunk[i]` (LinkFreeList.h:231, SOFTList.h:227) lacks an `&`, with which the
models read it; the loop of `ssmem_mem_reclaim` over released
blocks reads the link of a node it has just freed (ssmem.c:526; the model takes
it to be still there); `pthread_cond_wait` in `barrier_cross` is not in a loop, so a wake-up
without a broadcast, which POSIX allows, would let a thread through (if
`Barrier` allows it, `StampsAreInBounds` fails within seconds); `trim` of SOFT leaks the volatile
node; keys are `intptr_t` while the sentinels are `INT_MIN` and `INT_MAX`.

## 5. Proofs

| Theorem | States | Assumes |
|---|---|---|
| `LinkFreeListProofs!TypeCorrect` | `Spec => []TypeOK` | the ASSUMEs of `LinkFreeList`, `~QuiesceOnFree` |
| `LinkFreeListProofs!SortedList` | `Spec => []ListIsSorted` | same |
| `LinkFreeListProofs!HeldNodesStay` | `Spec => []HeldNodesAreNotReused` | same |
| `LinkFreeListProofs!MarkedLinksStay` | `Spec => MarkedLinksAreFrozen` | same |
| `LinkFreeListProofs!MarkedNodesAreValid` | `Spec => []MarkedIsValid` | same |
| `LinkFreeListProofs!FlagsTellOfNVM` | `Spec => []FlagsArePersisted` | same |
| `LinkFreeListProofs!FreedNodesAreDeadInNVM` | `Spec => []FreedNodesStayDead` | same |
| `LinkFreeListProofs!NVMHoldsNoKeyTwice` | `Spec => []PersistedKeysAreUnique` | same |
| `LinkFreeListProofs!QuickInsertAssertionsHold` | `Spec => []RecoveryAssertionsHold` | same |
| `LinkFreeListProofs!ListIsDurablyLinearizable` | `Spec => DurablyLinearizable` | same |
| `SOFTListProofs!TypeCorrect` | `Spec => []TypeOK` | the ASSUMEs of `SOFTList` |
| `SOFTListProofs!SortedList` | `Spec => []ListIsSorted` | same |
| `SOFTListProofs!StatesAdvance` | `Spec => StatesOnlyAdvance` | same |
| `SOFTListProofs!HelpersFindTheirPNode` | `Spec => []HelpedPNodesAreNotReused` | same |
| `SOFTListProofs!StatesTellOfNVM` | `Spec => []StatesArePersisted` | same |
| `SOFTListProofs!NVMHoldsNoKeyTwice` | `Spec => []PersistedKeysAreUnique` | same |
| `SOFTListProofs!FreedPNodesAreDeadInNVM` | `Spec => []FreedPNodesStayDead` | same |
| `SOFTListProofs!QuickInsertAssertionsHold` | `Spec => []RecoveryAssertionsHold` | same |
| `SOFTListProofs!ListIsDurablyLinearizable` | `Spec => DurablyLinearizable` | same |
| `SsmemProofs!ReclaimsOnlyTheUnheld` | `Spec => ReclaimsWhenQuiescent` | the ASSUMEs of `Ssmem` |
| `SsmemProofs!NothingIsLostOrDoubled` | `Spec => []ObjectsHaveOnePlace` | same |
| `SsmemProofs!StampArraysAreLargeEnough` | `Spec => []StampsAreInBounds` | same |
| `SsmemProofs!IdleThreadHoldsMemoryBack` | `Spec => []IdleThreadStopsReclamation` | same |
| `SsmemChunksProofs!ObjectsAreAlwaysRecoverable` | `Spec => []ObjectsAreRecoverable` | the ASSUMEs of `SsmemChunks` |
| `LinkFreeListProofs!LoadsStayCurrent` | `Spec => []LoadsAreCurrent` | none |
| `LinkFreeListProofs!MakeValidIsOneStep` | `Spec => MakeValidMakesValid` | none |
| `LinkFreeSkipListProofs!InvariantHolds` | `Spec => []IInv` | the ASSUMEs of `LinkFreeSkipList`, `~Reuses` |
| `LinkFreeSkipListProofs!TypesAreRight` | `Spec => []TypeInv` | same |
| `LinkFreeSkipListProofs!TowersHold` | `Spec => []TowersStandOnTheList` | same |
| `LinkFreeSkipListProofs!KeysStayUnique` | `Spec => []PersistedKeysAreUnique` | same |
| `LinkFreeSkipListProofs!UnmarkedStay` | `Spec => UnmarkedStayLinked` | same |
| `SOFTSkipListProofs!InvariantHolds` | `Spec => []IInv` | the ASSUMEs of `SOFTSkipList` |
| `SOFTSkipListProofs!TypesAreRight` | `Spec => []TypeInv` | same |
| `SOFTSkipListProofs!TowersHold` | `Spec => []TowersStandOnTheList` | same |
| `SOFTSkipListProofs!KeysStayUnique` | `Spec => []PersistedKeysAreUnique` | same |
| `SOFTSkipListProofs!StatesAdvance` | `Spec => StatesOnlyAdvance` | same |
| `SOFTSkipListProofs!LiveNodesStay` | `Spec => LiveNodesStayLinked` | same |
| `HashTableProofs!BucketsExist` | `getBucket(k) \in Buckets` | `Parameters`: at least one bucket, keys are integers |
| `HashTableProofs!KeysStayInTheirBucket` | `Spec => []KeysAreInTheirBucket` | `Parameters` |
| `HashTableProofs!TableIsOneSet` | `Spec => ImplementsOneSet` | `Parameters` |

They hold for any threads, keys, nodes, PNodes, levels, buckets, sizes of sets, numbers
of calls and crashes. The assumptions of the lists say that keys are integers
strictly between those of the sentinels, that there are finitely many threads
and nodes, and that sentinels, nodes, PNodes and `Nil` are different things. Those of `Ssmem`: threads are numbered from 0, sizes
are positive, objects are no blocks. Those of the skip lists are those of the lists,
with at least one level and with towers of 1 to `MAX_LEVEL` levels. Those of `SsmemChunks`: a line divides a
chunk, and there are finitely many chunks.

`~QuiesceOnFree` is the assumption of the link-free list on its reclaimer:
without it `HeldNodesStay` is false, as finding 1 shows. The theorems on SOFT
need no such assumption: they hold with nodes reclaimed by ssmem's own rule and
with the stricter one alike.

`~Reuses` is the assumption of the link-free skip list on its memory: insert is
given a node that no thread and no level leads to. With nodes reused by the rule
of the lists it goes wrong, see *Late links* in section 4. The theorems on the
SOFT skip list are about the same kind of memory, which is the only one that its
model has.

TLC checked each of the invariants below on the instances of the runs before it
was proved, with several more for SOFT (three threads; one thread's frees
counting as quiescence and not) and for ssmem (two threads that both free and
release).

*The link-free list.* `ListIsSorted` is not inductive: that the compare-and-swap
of an insert keeps the order depends on what the thread learned before and on
the nodes it holds being the ones it learned it about. `IInv` says that:

- `HoldsWhatItMay`: a thread's references are on the list or were unlinked
  while it ran (`MayHold`), and `RetiredIsClosed`: a node off the list that is
  waited for is marked, frozen, and leads only to nodes its holders may hold.
  So walking never leaves this set, and nothing in it is reused.
- `SearchIsRight`, `LinkIsReady`: the key of `pred` is below the argument and
  the key of `curr` is not, at the labels where that is relied on. Keys of held
  nodes do not change, so these facts, once true, stay true. A successful
  compare-and-swap adds that `pred` is unmarked, hence on the list, and that
  `curr` follows it: the place is right.
- `NewNodeIsPrivate`, `ThreadsAreApart`, `TrimsMarkedNodes`: who owns what.
- `RecoveryIsAlone`: during recovery no thread runs, and what is not yet
  visited is off the list.

Most actions move a single thread and are settled by `LocalMove` and
`FlagStepInv`; a return by `ReturnInv`; a step on a private node by
`OffListStep`; an insertion, by `insert` or by `quickInsert`, by one lemma on
sorted lists.

*Its NVM.* `PInv` says what each node and its copy in NVM have to do with each
other, on top of `IInv`:

- `VolatileIsRight`: a private node is invalid, so no eviction of it can add a
  key; a node off the list is valid and marked (or has no link), so no eviction
  can bring it back. In between, a node is made valid before it is marked.
- `FlagsAreTrue`: a flag is set after a flush, and only on a node that is not
  reused meanwhile, because its flusher holds it.
- `MemberIsOnList`: what NVM takes for a member is on the list, or waits for
  recovery. `PersistedKeysAreUnique` follows with `ListIsSorted` while the
  program runs; it is a part of `PInv` because it must survive the crash, after
  which there is no list until recovery has built it.
- `RecoveredFromNVM`: recovery reads what NVM holds, also after a crash in the
  middle of it, and in the middle of its two stores (`burying`).
- `ThreadPersists`: what a thread has stored or flushed before it goes on.

*Durable linearizability of the link-free list.* No step of an operation's own
is its linearization point: a node may be made a member of NVM, or dead there,
by a helper's flush, by the flush of an operation that found it, or by an
eviction, while its own operation does nothing; and `contains` and failed
inserts answer by what was true at some moment of their walk. The proof takes
the changes of NVM for the effects. `Persisted` is the set of keys a crash
would leave. An operation is `Committed` once NVM has had its effect, and until
it returns.

- `DInv` says whose a node is: an insertion on the list that a crash would undo
  (`Unborn`) is that of exactly one insert, which has not flushed its node, and
  a mark that a crash would undo (`Pending`) is that of one remove, before its
  flush. So when a flush, an eviction or, on a line that already holds the mark
  of a former life, the mark itself changes NVM, it commits one insertion, one
  deletion, or the two of one key at once (`BirthLInv`, `DeathLInv`,
  `BirthAndDeathLInv`), and in this order.
- `LInv` says what the outcomes of `DurableSet` contain: for some sets `Q[t]` of
  answers, each history in which the operations in `AllCommitted` have answered
  TRUE, any others have answered something in their `Q[t]`, and the set is
  `Persisted` (`Promised`). `Q[t]` has every answer that an effect without a
  change could give now, and keeps those of earlier moments; `Knows` says that
  it has what `t` may answer: the answer for a node it found in NVM, FALSE once
  its walk has passed the place of its key. A walk may stray over nodes that
  are off the list: such a node with a smaller key leads on past its key only
  if that was missing from NVM at some moment since the operation began.
- That the outcomes keep the promise when an effect commits, when an answer is
  given and when all is lost in a crash is about `DurableSet` alone
  (`Settle`, `Commit`, `PromiseKept`). Its recursion `ReachFrom` is closed after
  as many rounds as there are threads, since each effect adds an answer
  (`RoundsClose`). The answer that an operation gives is always one of those, so
  `outcomes` never becomes empty.
- After a crash the outcomes contain the keys in NVM with no answer open.
  Recovery does not touch NVM, and when it is done the walk from the head,
  `Reachable`, has met each node on the list (`WalkMeetsAll`: the links ascend,
  no member is between two neighbours): the contents are `Persisted`.

Each step then is an invocation, an answer, a crash or the end of a recovery of
`DurableSet`, or changes neither `call` nor `outcomes` (`NextIsLinearizable`).

*SOFT.* `IInv` is like that of the link-free list. A node's state and link are
one word, so the facts are about both: a thread that expects a state in a
compare-and-swap may write an old one back only together with the link that
went with it (`stateCAS`, `trim`), which is why `StatesOnlyAdvance` follows.

`AInv` says whose a PNode is. A node is `Attached` to its PNode while it is
private or on the list, while a thread is about to free the PNode, and while
somebody still serves the node, that is, may yet write its PNode. No PNode
has two such nodes (`PNodesAreApart`). A serving thread found its node on the
list; if the PNode was freed since, the thread is one of those that ssmem waits
for (`ServedPNodesAreKept`). This holds under ssmem's rule as well, since a
thread that serves a node does not free anything in between.

`PInv` follows the life of a PNode. The validities it and its copy have are
functions of the state of the node and of how far its servers have got
(`NodePersists`, `ThreadPersists`). As the stores of several helpers write the
same values, it does not matter how they interleave, and the state moves on
after a flush of the winner, whatever the others do. A free PNode is dead in
memory and in NVM, in the polarity of its last life (`PNodeIsDead`), so that
`alloc` may read the next polarity off it. `InOrder` is the store order of
`create` as recovery sees it: a half written line is rejected, and what
`recoveryValidity` then makes of it is dead.

*Durable linearizability of the SOFT list.* It goes along the same lines, with
`LInv` of `SOFTListInv`, but the effects are elsewhere. In SOFT nobody answers
by a node whose state is not yet in NVM, so the set that running operations see
is `Members`, the keys of the nodes that are `INSERTED` or `INTEND_TO_DELETE`,
and an operation is `Committed` when a compare-and-swap, its own or a helper's,
moves the state of its node to `INSERTED` or to `DELETED`. What NVM holds may be
ahead of that, by eviction or by a flush whose state change is still to come, so
a crash is the hard case here: `PersistedAfterAll` shows that `Persisted` is
`Members` after the insertions whose PNodes are already valid in NVM (`Births`)
and the removals whose PNodes are already dead (`Deaths`), that all of these are
operations under way, and that no key is in both; `AllTakeEffect` lets them take
effect before the crash, by induction on how many there are.

`ThreadKnows` has one clause more than for the link-free list (`HelpIsKnown`:
an insert that helped may answer FALSE once the node it helped is in), and
`MissIsKnown` is about deleted nodes: one that is off the list leads on past the
key only if the key was missing at some moment since the operation began. A
claimed node (`INTEND_TO_DELETE`) is still a member, and the removal that
claimed it commits when it is buried, whoever does it (`BuryCASLInv`); an
operation that found it claimed answers only after that. Steps that read, or
that store what only recovery looks at, are settled by `Works` and `WorksLInv`.
Recovery is as above, with `RecoveredNodes` for what it has put on the list. No
assumption on the reclaimer is needed.

*ssmem.* The heart of `IInv` is `StampInv`, about one allocator:

- no stamp is from the future (`StampsArePast`), so a stamp that is now greater
  than an older one tells that the thread has moved on in between;
- a thread that may still hold an object of a full set has not moved since it was
  stamped (`StampCovers`), although the stamps are read one by one: those read
  already (not in `Unread`) are enough, as each is about its own thread;
- stamps grow along the list, and the second set is the youngest of the full
  ones (`FullSetsAreCovered`, `LastStampedIsYoungest`). So when the first is newer
  than the second for all threads, all the sets behind it are free of holders,
  and a whole run may be collected. `ReleasedAreCovered` is the same for blocks;
- in `ssmem_release` the comparison of free sets is never true: the set in front
  has not been stamped since the one behind it (`UnstampedIsNotNewer`).

`RegistryIsRight` adds that from the opening of the barrier on the list of
timestamps holds every thread, and `PlaceInv` that an object is in one place.
For the refinement, every action is mapped to a step of `Reclaimer`, or to none
(`StepRefines`): allocation to `Alloc`, calls of free and release to `Free`, the
end of `ssmem_release` to `Return` of any number of blocks, and a thread's
growing version to `Quiesce`.

*Chunks.* `ChunksInv` exhibits the list in memory as a sequence without
repetition: NVM has the link of each of its nodes, and a head that is at most
the newest chunk late. What a walk has met after `n` links, a recursive
function, follows from it by induction on `n`. As the sequence is no longer
than `Chunks`, the walk of `Recovered` ends. tlapm cannot use the induction
rule of its library, which has an operator as parameter; `Recursion` derives
one for sets of numbers from the well-foundedness of finite sets, and shows that
recursions have solutions.

*The skip lists.* The state of a skip list does not say what a proof needs to
know. A node that was cut out of a level still leads back to it, a thread may
hold it for long, and a node is handed out again once nothing refers to it. The
invariant therefore speaks of three histories that are in no variable,
`IInv == \E U, L, C : Inv(U, L, C)`: `U` are the nodes in use, `L[i]` those of
them that were ever linked on level `i`, and `C[i]` those that a walk along level
`i` meets now. What a step does to them is part of its proof: linking adds to
`L` and `C`, cutting takes from `C`, and nothing takes from `L` but the
allocation below.

- References never leave `L[i]`: a link of level `i` leads to a node of `L[i]` or
  to tail, whoever stored it and whenever (`LevelsAreClosed`; the link of a node that
  insert has given up leads nowhere), and so do `pred`,
  `curr`, `preds` and `succs` (`WalkInv`, `FindInv`, `Kept`). Unlike "is on the
  level", "was on the level" is stable, so it survives the steps of the others.
- `C[i]` is a chain from head to tail (`ChainsInv`). Chains are stated without
  sequences: in some order of the nodes each leads to the next (`IsChain` in
  `Recursion`). On level 0 the order is that of the keys. Above it is some order,
  as the invariant does not say that an upper level is sorted, and nothing rests
  on it: a short cut only has to lead to members.
- `LiveNodesAreLinked`: what is linked and not marked (not `DELETED`) is on the
  chain. So a compare-and-swap that succeeds on an unmarked predecessor works on
  the chain, however old its references are; and one that cuts may cut a run,
  because the run is marked and frozen since the thread passed it (`RunIsDead`).
- `TowerIsRight`: marks come from the top, a level is linked after the one below
  it (`L[j]` is in `L[i]` for `i <= j`), and in SOFT after level 0 is `INSERTED`.
  With `LiveNodesAreLinked` this is `TowersStandOnTheList`.
- `NVMIsRight`, `FlagsAreRight`, `BitsAreRight`: what NVM takes for a member is on
  the chain of level 0, whose keys differ. In the link-free skip list this needs
  that `find` flushes the mark of a node of level 0 before it goes on over it,
  also when the delete flag says that another thread has; in SOFT it is the
  order of the states and of the bits that helpers store.
- `OwnerInv`, `OwnersAreApart`: each insertion that is under way has a node of
  its own, and has linked it on the levels below `Height` and on no other.

A step of one thread changes what `ThreadInv` says of another only through the
memory. `Evolves` is what they may rely on: keys and heights stay, `L` grows, a
mark or a state only advances, a marked link is frozen, and on a level where a
node is not linked yet its link is its owner's to change. `OtherThreads` proves that `ThreadInv`
survives any such change, once; each step that stores then shows that it is one
(`MemoryMove`). Steps that store nothing shared are settled by `LocalMove`.

Allocation is the one step where `U` and `L` shrink. The node that `insert` is
given may have been linked once, and then `L[i]` still has it. But nothing
`Referenced` leads to it, so the histories may be cut down to what is referenced
(`ForgetUnreferenced`): the threads and the links of the nodes that stay never
leave that set (`ReferencedCloses`), and the chains are in it.
`Referenced` and `Linked` are functions defined by recursion up to the number of nodes;
that so many rounds reach everything, since each round that is not the last one
adds a node, is `RoundsExhaust` in `Recursion`. It makes `Linked(i)`, of which the
properties speak, the same set as `C[i]` (`LinkedIsChain`).

*The byte.* A thread inside `makeValid` has loaded a byte whose `v1` is still
the current one, since `v1` changes only when the node is allocated and ssmem
does not allocate it under a thread that uses it. Storing `v2 = v1` is then
right whenever it happens.

*The tables.* The inductive invariant is `TypeOK /\ KeysAreInTheirBucket`. A
call depends on a set, and changes it, at its own key alone (`CallsAreLocal`).
By the invariant the key of a call is in the union of the buckets exactly when
it is in its own bucket, so what the bucket answers and does is what the one set
answers and does, and invocations and returns map to themselves.

*Only model-checked*: `Linearizable` of both skip lists,
`InsertionsArePersisted` (link-free) and `NVMIsAllowed` (SOFT). They are about
the history of answers, and need an argument like that of *Durable
linearizability* above for each structure, which has not been made. Liveness is outside the prover. *Only proved*: `MetaData` and `HashTable`,
which no run of TLC is spent on.

A type invariant is checked for the two lists, where chunks and recovery could
break it. In the other modules the listed properties fail on any state of the
wrong shape.

## 6. Not modelled

- Crashes of the skip lists and hash tables: they have no recovery.
- Wake-ups of `pthread_cond_wait` without a broadcast, see section 4.
- `barrier_global`, the prefill (a loop of insertions) and the measuring loop of
  the benchmarks, their command line, random numbers and timing; the scripts.
- `ssmem_alloc_term` and `ssmem_term`, which end the program and are called
  nowhere. Counters of sets that are only printed; growth of the chunk size,
  which is compiled out.
- Values stored with the keys: no operation returns one.
- Weaker orders than sequential consistency among threads. The code uses
  sequentially consistent atomics but for initialising private nodes.
- Flushes that complete later than the fence that follows them: `FLUSH` is the
  flush with its fence.
- `abs(k % BUCKET_NUM)` is computed in `int`, like the keys of the tables:
  `BucketsExist` shows that the remainder is never the least `int`, so nothing
  overflows.

## 7. Plan

Done: all data structures of the repository, `Ssmem`, `Barrier` and
`SsmemChunks`; the proofs of every invariant and action property of
`LinkFreeList`, `SOFTList`, `Ssmem`, `SsmemChunks`, `MetaData` and `HashTable`,
of durable linearizability of both lists, and of every invariant and action
property of the skip lists that is about memory and NVM alone. What is left is
proving:

1. `Linearizable` of the skip lists. On the chain of level 0 that `IInv` has, an
   effect is a link or a mark of level 0 (in SOFT, a state); `contains` answers
   from upper levels by `TowersStandOnTheList`. `InsertionsArePersisted` and
   `NVMIsAllowed` follow from the same promise about the outcomes.
