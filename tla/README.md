# TLA+ models of the Stract search core

This directory holds TLA+ models of the search core in `src/`. The spec
(`spec.md`) calls the system Stract. Each module is translated from the Rust
source. `PROJECT.json` maps every definition that models code to the lines
it stands for. It also lists every run, every mutant, every finding and every
hazard.

## The system

These are the parts of the repository the models are about (spec section 2).

| Part | Source | State and operations | Interacts with |
|---|---|---|---|
| C1 positional intersection | `core/src/query/pattern_query.rs` `intersection_with_slop` | pure function over two position lists | C2 |
| C2 pattern query and scorer | `core/src/query/pattern_query.rs` | `PatternQuery::new` compiles the parts into terms. `Weight::scorer` builds a `PatternScorer` over an `Intersection` of postings. `advance` and `seek` walk the docs. | C1, tantivy collectors, the fast-field cache (num tokens) |
| C3 inverted index writer | `crates/core/src/inverted_index/indexing.rs` | The writer, the live `meta.json` and the segment files. Operations: prepare, insert, commit, merge_into_max_segments, start/end merge, delete_segments_by_id, merge (offline union). | the tantivy directory, readers |
| C4 edge store reader | `crates/core/src/webgraph/store.rs` | small-edge iterators over the columnar fields of each segment | C5 output |
| C5 edge store writer | `crates/core/src/webgraph/store_writer.rs` | In-memory sorted batch, spilled files, k-way merge, and the final store (ranges, nodes, labels). | C4 |
| C6 ranking pipeline | `crates/core/src/ranking/pipeline.rs` | A stage plus paging fields. `apply` skips, scores and collects. | the search coordinator, cross-encoder, LambdaMART |
| C7 sharded DHT client | `crates/core/src/ampc/dht/client.rs` | The shard map and sorted ids. Operations: get/set, the batch operations and the table operations. | C8 nodes over RPC |
| C8 DHT node, C9 RPC | not in `src/` beyond a service declaration | Raft and the wire are black boxes | C7 |
| legacy graph store | `src/webgraph/graph_store.rs` | LRU-cached RocksDB trees, node id assignment; `append(other)` copies a second store into it | legacy webgraph, another graph store |

The hard behaviours are these:
- the DocSet protocol between a scorer and tantivy's collectors (the first doc is read before any `advance`);
- the order-sensitive walk over pattern parts;
- paging over a rescored candidate pool;
- rehashing of keys when `add_node` changes the shard list;
- batch operations that fail half way with partial effects;
- crash windows between file renames or GC and the write of `meta.json`;
- a `meta.json` written behind a writer that keeps its own segment list;
- k-way merges whose duplicate handling depends on comparator details;
- LRU caches that evict dirty entries.

## Modules

### `SlopIntersection` (C1)

`SlopWalk` is the two-pointer loop of `intersection_with_slop`. Each
recursion step is one iteration of the `while`. The three CASE arms are the
three branches of the loop, and `best` is the inner "better match" loop.
`MC_PatternQuery` checks the function against `SlopReference`, the
definition from spec section 4.1. The check uses the position lists of
every token pair in every document the scorer is given, with slops 1, 2 and
unbounded.

### `PatternQuery` (C2)

These are the query-construction definitions:

- `RawTerms` is `PatternQuery::new`. It flattens the tokens of each Raw part.
- `SmallPatterns` is the part-kind vector built in `pattern_scorer`.
- `PatternWalk` / `PerformPatternMatch` are `perform_pattern_match`. The walk
  starts at the second part (`skip(1)`), carries `left`, `slop` and
  `current_right_term`, and keeps the code's four match arms.
- A walk that would read the postings of a term index past the last term
  returns `OVERRUN`. That is an out-of-bounds index in the code.

These are the state and actions:

- The state is the pattern, a segment of documents, whether scoring is
  enabled, the doc the scorer is on, `phrase_count`, the last target, and
  whether the walk overran.
- `Init` is `Weight::scorer`. With scoring disabled or a term without
  postings it is an `EmptyScorer` (doc TERMINATED). Otherwise the scorer
  sits on the first doc of the Intersection, as `PatternScorer::new` leaves
  it.
- `Advance` and `Seek` are `DocSet::advance` and `DocSet::seek`. `ScanFrom`
  is their loop over candidates.
- `Explain` is `Weight::explain`: a fresh scorer seeks the doc, and the
  answer is an error unless the seek lands on it. Its `phrase_count` is
  the one the explanation reports. No run checks it on its own. Explain
  is a seek, so it accepts every doc that `advance` or `seek` returns, by
  definition. It disagrees with search only on the unfiltered first doc,
  and `pq_false_match` already shows that doc.
- `PatternMatches` is the meaning of a pattern from spec section 3. It is
  the reference the walk is checked against.

A document is the sequence of its tokens, so the tokenizer and the
num-tokens fast field are replaced by the document itself. BM25 is left out
because the scorer's only decision is `phrase_count > 0`.


### `InvertedIndexWriter` (C3)

The module models the methods of `indexing.rs` over index directories that
survive a crash of the process:

- The state is per directory: the segment files on disk (`files`), the
  segments `meta.json` lists (`meta`), and whether a writer is prepared
  (`writer`) with its uncommitted pages (`buffer`) and the committed
  segments its tantivy segment manager holds (`writerSegs`). `prepare_writer`
  loads that list from `meta.json`. Commit, `end_merge` and
  `merge_into_max_segments` rewrite `meta.json` from it, not from disk
  (`WriterSegs`). The process also holds
  the merges started and not ended (`merging`). `segDocs` gives the pages of
  each immutable segment.
- `PrepareWriter`, `Insert`, `Commit`, `MergeIntoMaxSegments`,
  `StartMerge`, `EndMerge` and `Stop` are the methods of the same names.
- `delete_segments_by_id` writes to disk twice, so it is two steps:
  `DeleteSegments` garbage-collects the files, and `DeleteSaveMetas`
  writes `meta.json`.
- `merge(other)` is four steps. `MergeBegin` commits both indexes.
  `MergeMoveSegment` renames one of other's segments. `MergeRemoveOther`
  removes other's directory, and the removal may fail silently because of
  `.ok()`. `MergeWriteMeta` writes self's `meta.json`.
- `pc` names the step in progress. All methods take `&self` or
  `&mut self`, so at most one multi-step operation runs at a time.
- `Crash` drops the process state. It is bounded by `MaxCrashes`, and it
  falls inside an operation only when `CrashInOps` is TRUE.
- tantivy is not under `src/`. Its commit, start/end merge and garbage
  collection follow spec 4.3 (`CommitBuffer`, `InMerge`).
- `acked` is ghost state: the pages each completed operation told its
  caller are in each directory.

`ExclusiveMergeInputs` is the caller contract that a segment used by a
started merge is neither deleted nor merged away until `end_merge`.
`DeleteWithoutWriter` is the caller contract that `delete_segments_by_id`
runs only on an index with no prepared writer.
`set_auto_merge_policy` is not modelled. It hands merging to tantivy's
background `LogMergePolicy`, whose default needs 8 segments of one level
before it merges.

### `EdgeStoreReader` (C4)

The module models the four iterators of `store.rs`. Each is modelled step
by step, because it is lazy:

- `segments` is the searcher's list of segment readers. Each segment is
  its docs in doc-id order, and each doc is an edge `<<from_id, to_id>>`.
  The host columns hold the pages' hosts (`HostOf`). `insert`, `commit`,
  `merge` and `open` are `todo!()`, so Init picks any store of
  `NumSegments` segments of at most `MaxDocs` docs, and nothing changes
  the store afterwards.
- `IterPagesSmall`, `IterHostsSmall`, `IterPageNodeIds` and
  `IterHostNodeIds` start the iterators of the same names. A caller may
  drop an iterator and start another at any time.
- `NewSegmentIter` is `flat_map` moving to the next segment, with
  `SmallSegmentEdgesIter::new`. It clips the end of the range to
  `max_doc`, and not the start.
- `SegmentNext` is one `next()`. It reads one doc and yields its items
  (`Items`): the edge, its host edge, or its two ends. `unique` and
  `unique_by` drop items already yielded (`Emit`).
- `Exhausted` is the last segment's iterator returning `None`.

`search` and `retrieve` hand the query to tantivy's collectors and are not
modelled.

### `EdgeStoreWriter` (C5)

The module models `store_writer.rs`:

- `Put` is `put`. The in-memory `BTreeSet` compares edges by
  (sort_node, secondary_node) only, so a second put of a pair keeps the
  first edge. At `MAX_BATCH_SIZE` (`SpillDue`) the set is spilled with
  `FlushToFile`.
- `Finalize` is `sorted_edges`. It opens one reader per spilled file and
  takes the set. `sorted_edges` consumes the writer, so `Drop` removes
  `writer/` at this point. The final writer it opens first
  (`FinalWriterOpen`, `FinalEdgeStoreWriter::open`) starts with empty
  streams, ranges and prefixes on a path no build wrote before.
- Each `FinalizeStep` is one call of `SortedEdgeIterator::next`, then
  `Itertools::dedup`, then one turn of `build_store`'s loop.
  `SortedEdgeNext` compares sort nodes only and prefers the file on a tie.
  `KWayHeads` is the k-way reader of spec 4.4: it emits a smallest head,
  and any one of equal heads.
- `BatchChoices` is the unstable sort and the dedup of a batch by
  secondary node, so any one of the edges with an equal secondary node may
  be kept.
- `PutStore` is `put_store`. It appends the secondary ids and the label
  blocks (`Chunks` of `NUM_LABELS_PER_BLOCK`) and records their ranges
  under the sort node.
- `FinalizeEnd` puts the last batch and flushes.
- A node id and a label block each take one unit of their stream.
- The flush every 1,000,000 inserts only bounds write buffers and is left
  out.

### `GraphStore` (legacy)

The module models `src/webgraph/graph_store.rs`:

- Each table is a tree record. `store` is the Kv (RocksDB) map. `cache`
  is the `LruCache`, least recent entry first. `cap` is its capacity.
- `UpdateCache`, `GetTree`/`GetVal`, `TreeInsert` and `TreeFlush` are the
  methods of `CachedTree`. `BlockedInsert` is `BlockedCachedTree::insert`,
  which keeps key k in block k div `BlockSize`; `BlockedGet` is
  `BlockedCachedTree::get` and `AdjEdges` is `Adjacency::edges`.
- `IdOrAssign` is `id_or_assign` with `id_and_increment` and `assign_id`.
  `NextId` and `IncrementNextId` read and write `meta`'s `next_id`
  through its cache.
- `Insert`, `Node2Id`, `Id2Node`, `OutgoingEdges`, `IngoingEdges` and
  `Flush` are the public methods. Reads change state, because a read loads
  the block into the cache. `edges()` is `Flush` followed by an iteration.
- `LruPut` follows the `lru` crate, which is not under `src/`: `put`
  drops the least recent entry when the cache is full.
- Labels are left out.
- `Insert` is `InsertInto` over the record of the five tables (`Tables`),
  so that `append` can call it in a loop; `FlushTables` is `flush`.

### `GraphAppend` (legacy, composition)

`GraphStore::append(other)` between two stores. `SelfStore` and
`OtherStore` are two `INSTANCE`s of `GraphStore`; other's tables are the
variables prefixed with `o`, and it has its own insert bound
`OtherInserts`.

- `OtherStep`: other is built by any of its calls. `SelfStep`: self is
  used after `append` returns. Self starts empty (a new store that other
  is merged into): with both stores stepping before `append`, the product
  of their state spaces is beyond a five-minute run.
- `Edges` is `edges()`: `flush` of every table of other, then
  `EdgeIterator` over the adjacency Kv store. `EdgeIterator` is not under
  `src/`, and a block is a `HashMap`, so `StoredEdgeOrders` lets the
  edges come in any order.
- `AppendEdge` is one turn of the loop: `other.id2node` of both ends, the
  `expect`, and `self.insert` (`InsertInto`). After the flush, every entry
  of other is in its Kv store, so a lookup returns what `I2N` says,
  whatever it evicts.
- `AppendOther` is the whole call, one step (`&mut self`, and other is
  owned by it). A failed `expect` panics: `phase` becomes `panicked`, self
  keeps the edges inserted so far, and nothing runs after. Other is
  dropped, so its tables return to empty.

### `KVStore` (abstract) and `DhtClient` (C7)

`KVStore` is what the DHT promises its callers (spec sections 1, 3, 5
and 7). Per table, it is a map from keys to values that is linearizable per
key. A client calls an operation (`Call`), which takes effect over one or
more steps (`Step`) and returns. `pend[c].w` holds the writes a set,
batch_set or drop_table still owes. A key may take its write only between
the call and the return, and keys take their writes independently, since
the code gives no atomicity across keys. The operation may return Ok only
once `w` is empty. If it returns Err, any of its remaining writes may move
to `linger`; `Land` applies those later or loses them. A get answers the
value its key holds when it returns. A key can change in only four ways:
the write its operation owes, a drop's NoValue, a clone's copy, or a
lingering write. So the abstract spec rules out lost, misrouted and
out-of-window writes, and an early Ok.

`DhtClient` models `client.rs` together with the shards it talks to:

- Each element of `Clients` is one copy of `Client`. The struct derives
  `Clone` and is cloned into tasks, so each copy has its own shard map
  (`shards`, `shardOrder`), and `AddNode` changes only the copy it is
  called on.
- `ShardIdForKey` is `shard_id_for_key`: `ids[hash % ids.len()]` over the
  sorted keys of the `BTreeMap`. md5 is replaced by a fixed `Hash` per key.
- `Get`/`GetReply`, `Set`, `BatchGet`/`BatchGetReply`, `BatchSet`/`BatchSetReply`,
  `TableOp`/`TableOpStep` are the client's operations. A batch is started
  by one action and answered shard by shard, as `try_join_all` resolves its
  futures. `get` and `set` are also a send followed by an awaited answer.
  A set's answer is `BatchSetReply` for its one shard. A table operation walks every node of every shard in id order,
  and `?` stops it at the first error.
- The shards' side, `ShardSet` and `ShardApply`, comes from spec section
  4.8, because the Raft node is not under `src/`. Each request that reaches a
  shard is applied atomically.
- An RPC fails in one of two ways. Either the request is lost, or it is
  applied and the answer is lost. When `try_join_all` fails, the requests it
  drops may already be on the wire. They wait in `inflight` until `Deliver`
  applies them or `Lose` drops them.

The refinement mapping has three parts:

- `ObservedKV` reads every key through the shard map of one copy
  (`Observer`).
- `ObservedPend` gives each copy's operation. Its owed writes
  (`OwedWrites`) are the writes of shards that have not yet answered. For
  drop_table, they are the keys of shards the node loop has not reached.
- `ObservedInFlight` is the set of writes in the dropped requests.

`ImplementsKVStore` is `KVStore!Spec` under that mapping. No liveness
is claimed. No RPC future has a timeout. Fairness that assumes every
answer comes back makes every loop and `try_join_all` end just by
counting. Without that fairness, one silent peer hangs the caller.

### `RankingPipeline` (C6)

A user pages through one query. For each page a new pipeline is built, as
in `reranking_for_query` or `ltr_for_query`:

- `set_query_info` rewrites the query to fetch `collector_top_n`
  candidates from page 0 (`Fetched`).
- `Apply` is `RankingStage::apply`. It skips `offset` candidates, takes
  `max(stage_top_n, top_n)` of them, scores them, applies the optic boost,
  and collects into a `BucketCollector` whose capacity is that width plus
  the offset.

The scoring is modelled as follows:

- `StageScore` is the scorer of the stage: the ReRanker, `Initial`, or the
  `IdentityScorer`.
- `CalculateScore` keeps the LambdaMART cases of `calculate_score`. A
  coefficient of 0 means linear, a missing coefficient uses the default,
  and any other coefficient multiplies the prediction.
- The signals of a candidate are one value, and LambdaMART and the
  cross-encoder are fixed functions of it.
- `Collect` is the collector from spec 4.6. It sorts by score, breaks ties
  by doc id, and cuts at the capacity. No two candidates are similar.

`ServePage` serves the next page, up to `MaxPage`.

## Runs

| Run | Checks | Result |
|---|---|---|
| `pq_complete` | `TypeOK` and `NoMatchSkipped` for every pattern of at most 3 parts starting with a Raw, over all two-doc segments of docs of at most 3 tokens over {a, b}. `IntersectionIsSlopWindow` on the position lists of those docs, with slops 1, 2 and unbounded. | passes. The term-index overrun of a leading Anchor or an empty Raw is outside these patterns; `pq_false_match` shows it. |
| `pq_false_match` | `ReturnedDocsMatch`: the doc a fresh scorer stands on, and every doc `advance`/`seek` return (normally), matches. Patterns with a leading Anchor, a trailing Anchor, repeated one-token parts, or a two-token Raw | violated. TLC's shortest trace is the initial state: the scorer for `Raw "a b"` stands on `b a`, because `PatternScorer::new` never filters the Intersection's first doc. Read only in states after an `advance` or `seek` (`lastTarget > 0`), the property fails with `seek` returning `b a` for `Raw "a b"`. Read that way, with `Patterns` set to one family alone, each family has its own counterexample. The `Anchor if i == 0` arm is dead because of `skip(1)`, so `\| a b` matches `a a b`. `[Anchor, Raw a]` reads term index 1 of a one-term query, which is out of bounds. A trailing Anchor checks the last occurrence of the last term, so `a b \|` matches `a b b`. A repeated token matches one position, so `a a` matches `a`. |
| `edge_iter` | `IteratorsMatchReference`: when an iterator returns `None`, it has yielded what spec 4.5 describes. That is every edge in segment order for `iter_pages_small`. The other iterators yield every host edge or node id of their doc ranges exactly once. Two segments of at most two docs, offsets and limits in {0, 1, 3} | passes |
| `dht_replica` | `ImplementsKVStore` with two client copies, shards 0 and 1, a third address for shard 0, one RPC failure, two operations | passes (144,032 states, about 2 minutes): every write lands between its call and its return, or late after an Err. No call returns Ok before all of its shards have applied their part. A replica added to an existing shard does not move keys. |
| `dht_new_shard` | `ImplementsKVStore` where the added address starts shard 2 | violated: `add_node` on one copy rehashes its keys; the other copy still writes by the old routing, and a key's value disappears from the observed map |
| `ranking_paging` | `PageSizeIsTopN`, `PagesDisjoint` with num_results 3 and stage_top_n 2 or 3, every scorer, coefficients {0, 2, none}, boosts {0, 3, none}, pages 0..2 over 5 candidates | passes |
| `ranking_overlap` | `PageHeadsDisjoint` with num_results 2 | violated. Under the LTR stage (stage_top_n 3), page 0 has 3 websites, where the test `offsets` expects num_results. A boosted doc heads both pages 0 and 1, because `skip(offset)` happens before rescoring and the windows overlap. |
| `index_ops` | `AcknowledgedDocsReadable`: when no operation is in progress, every segment `meta.json` lists has its files, and every index holds exactly the pages acknowledged to it. Two directories, two pages, four segment ids, one crash between operations, merge inputs left alone, deletes only with no prepared writer | passes |
| `index_atomicity` | `AcknowledgedDocsReadable` with crashes inside operations (`CrashInOps`) and neither caller contract | violated. The shortest trace is a crash after `delete_segments_by_id` collects the files and before `save_metas`, so `meta.json` names missing files. With `CrashInOps` FALSE, TLC finds a delete of a segment that a started merge uses, undone by `end_merge_segments_by_id`. With `DeleteSegments` taken out of `Next`, TLC finds a crash in `merge(other)` after the first rename, which loses other's pages. With only `DeleteWithoutWriter` FALSE, TLC finds the sequence of the test `test_delete_segments` followed by one more `commit`: the prepared writer still lists the deleted segment and writes it back to `meta.json`, whose files are gone. |
| `edge_build` | `TypeOK` (the in-memory set stays below `MAX_BATCH_SIZE`, one edge per pair), `StoreMatchesReference` and `RangesWrittenOnce` for up to 4 puts over nodes 1..3 and two labels, with a spill every 2 edges and label blocks of 2 | passes. Even though the merged stream is not sorted by secondary node and consecutive dedup misses pairs split by a spill, each sort node is written once, with its sorted, deduplicated secondary nodes. |
| `graph_append` | `IdsNeverShared` for both stores; `AppendCopiesReadableGraph`: `append(other)` inserts exactly the edges other's reads answer, by node and as often as other lists them, or panics exactly when an end of one of them has already lost its node. Three nodes, ids 0..3 in blocks of 2, caches of one entry, other built by up to 2 inserts, self up to 3 inserts (append's included), any reads and flushes | passes. TLC reaches the panic: other built by `insert(a, a)`, `insert(c, b)` and a read that drops c's unflushed id2node block; append inserts (a, a) and then panics on c's id. |
| `graph_loss` | `InsertedEdgesReadable` on `MC_GraphStore` with three nodes, ids 0..3 in blocks of 2, caches of one entry, up to 3 inserts and any reads and flushes | violated. `insert(a, a)` then `insert(b, a)`: `node2id.insert(b)` evicts a to the store, and `id_or_assign(a)` reloads a with `LruCache::put`, which drops b's unflushed entry. b has lost its id and its edge. |

### Bounds

- Two tokens are enough to tell order apart, and documents of three tokens
  can hold a phrase, its reverse and a repeat.
- Two documents let `seek` skip one and land on the other.
- Three parts make every combination of Raw, Wildcard and Anchor around a
  term.
- u32::MAX is the constant `U32Max`, larger than any position.
- DHT: two client copies are enough for one to call `add_node` while the
  other keeps its old shard map. Two shards are the least that rehashing
  can tell apart. The hashes are k1 to 0 and k2 to 3. With two shards the keys land on
  different shards. When a third shard joins, k2 moves from shard 1 to
  shard 0.
  One failure covers a lost request, a lost answer, and a dropped
  `batch_set` request. Two operations are enough for an `add_node`
  followed by a write and a read. `add_node` itself is not counted.
- Ranking: five candidates and three pages give page windows that reach
  past the candidate list. Stage widths 2 and 3 fall on both sides of
  num_results. Boost 0 is the ignored boost, and boost 3 is large enough
  to lift the last candidate of a window to the top.

- Index writer: two directories are the least `merge(other)` needs. Two
  pages give segments with different contents. Four segment ids allow two
  commits, a merge result and a `merge_into_max_segments` result. One
  crash reaches every crash window, because a window is entered once.
- Edge store: three nodes let sort node 1 have two secondary nodes besides
  itself. Two labels make duplicate pairs distinguishable. A spill every
  two edges and four puts give two spilled files and a non-empty
  in-memory set, so the file-first tie rule and a pair split across files
  both occur. Blocks of two labels give a group of three secondaries two
  blocks.
- Edge store reader: two segments make `flat_map` cross a segment boundary,
  so `unique` must drop an item seen in the other segment. Segments of up
  to two docs include empty ones. Bounds 0, 1 and 3 give offsets inside,
  at and past `max_doc`, limits past it, and `offset > limit`. Pages 1 and
  2 share a host, so host edges and host ids repeat where page edges do not.
- Graph store: caches of one entry make every table evict. Ids 0..3 in
  blocks of 2 give two blocks per blocked table. Three inserts are enough
  for a node to be evicted, reloaded and reassigned. For `append`, two
  inserts into other reach ids in both blocks, so a read can drop an
  unflushed id2node block and the panic happens; self's three inserts
  leave room for one of its own after append.

### Fairness

The scorer is driven by a collector that may stop at any time. No liveness
is claimed, and the runs disable the deadlock check: a scorer at TERMINATED
has nothing left to do.
The index writer, `graph_loss` and edge iterator runs keep the deadlock
check. `graph_append` disables it: a panic in `append` ends the process. `Stop`, `Crash`, the reads and flushes, and starting a new
iterator are always enabled. `edge_build` disables it, because a
finished build has nothing left to do. The iterators are consumed by
callers that may drop them at any point, so `edge_iter` claims no
liveness.
The DHT runs check safety only. Every await in `client.rs` is an RPC
future with no timeout, so a peer that never answers hangs the caller.
The only fairness that would rule this out assumes that every answer
comes back. Under that fairness, every loop over nodes and every
`try_join_all` ends by counting, which would make a liveness property
vacuous. The ranking runs also check safety only. A DHT client may
stop issuing operations once the operation bound is spent, and a user
stops paging at `MaxPage`. The DHT and ranking runs therefore disable the
deadlock check.

## Not modelled

- `crates/tantivy/src/lib.rs` is the library's version and test scaffolding.
- `src/webpage.rs` and `src/webpage/schema_org/microdata.rs` are HTML and
  microdata parsing. They are string processing over a parsed DOM with no
  state that persists between calls. The microdata walk is a pure tree
  traversal, so it could be checked as a recursive operator against a
  reference order. But checking it needs a run, and every run slot is
  already in use by a question about stateful code.
- `core/src/spell/word2vec.rs` is model loading and vector arithmetic.
- `src/ranking.rs` and `src/searcher.rs` are legacy orchestration over
  tantivy.
- `src/lib.rs` holds configuration and error types.
- The binaries, the examples and `api/docs.rs` are wrappers.
- `mapreduce/dht/network/mod.rs` declares the sonic service. Raft (C8) is a
  black box by the spec's own choice.
- `webgraph/query/raw/mod.rs` only declares modules.
- Reopening a `GraphStore` that was dropped or killed without `flush()`.
  The store has no `Drop` that flushes, so the Kv stores keep only what
  evictions wrote. With caches of two entries, TLC (with a reopen step
  added) finds `insert(a, a)`, `insert(c, b)`, a reopen and
  `insert(b, a)` giving a and b id 0, because meta's `next_id` never left
  its cache. It is listed as a hazard; `graph_loss` keeps the eviction
  loss, which needs no reopen. With caches of one entry, meta and node2id
  evict in lockstep and ids survive a reopen.
- `GraphStore::nodes()` changes no state: it lists the ids in node2id's
  Kv store, missing those still only in the cache. Its one caller, the
  test, flushes first.
- In `webgraph/store.rs` (C4), `open`, `optimize_read`, `insert`, `commit`
  and `merge` are `todo!()`. `search` and `retrieve` hand the query to
  tantivy. `next()` ends a segment early through `?` when a doc lacks a
  column value. The model gives every doc all three columns, because the
  code that would write the docs does not exist.
- `ranking/pipeline/scorers/mod.rs` is the scorer trait and its
  dispatch. Its behaviour is folded into `StageScore`.

## Plan

These parts are to be modelled next, in this order:

1. Re-running a build over the directory of a crashed `EdgeStoreWriter`
   build. The final writer opens `labels`, `nodes` and the ranges database
   without truncating them.

The project has 12 runs. Further questions should extend the existing runs
of a module rather than add runs.
