----------------------------- MODULE GraphStore -----------------------------
(***************************************************************************)
(* The legacy webgraph store of src/webgraph/graph_store.rs.               *)
(*                                                                         *)
(* Every table of the store is a CachedTree: a key-value store (Kv, a      *)
(* RocksDB tree) behind an LruCache.  A tree is a record: `store` maps     *)
(* each key to its value or None, `cache` lists the cached entries         *)
(* <<key, value>> from least to most recently used, `cap` is the cache's   *)
(* capacity.  id2node and the two adjacency tables are BlockedCachedTrees: *)
(* key k lives in block k \div BlockSize, and a block is a function over   *)
(* all ids.  Every call of GraphStore is one atomic step: the struct is    *)
(* used through &self/&mut self by one thread (RefCell).  Labels are left  *)
(* out: an adjacency list holds the other node's id.                       *)
(***************************************************************************)
EXTENDS Integers, Sequences, SequencesExt, FiniteSets

CONSTANTS
  Nodes,       \* the nodes (URLs) inserted
  MaxId,       \* bound: ids are 0..MaxId
  BlockSize,   \* block_size of the BlockedCachedTrees
  CacheSize,   \* the capacity of every LruCache
  MaxInserts,  \* bound: the number of insert calls
  None

Ids == 0..MaxId
Blocks == {i \div BlockSize : i \in Ids}

VARIABLES
  adjacency,          \* Adjacency: block -> (id -> ids of outgoing edges)
  reversedAdjacency,  \* the same for ingoing edges
  node2id,            \* CachedTree<Node, NodeID>
  id2node,            \* BlockedCachedTree<NodeID, Node>
  meta,               \* CachedTree<String, u64>, the key "next_id"
  inserted            \* ghost: the <<from, to>> of every insert, in order

vars == <<adjacency, reversedAdjacency, node2id, id2node, meta, inserted>>

NewTree(keys) == [store |-> [k \in keys |-> None], cache |-> <<>>, cap |-> CacheSize]

CacheKeys(t) == {p[1] : p \in Range(t.cache)}
CacheVal(t, k) == (CHOOSE p \in Range(t.cache) : p[1] = k)[2]
Without(t, k) == SelectSeq(t.cache, LAMBDA p : p[1] # k)

\* what a get of k would see: the cached value, else the stored one
View(t, k) == IF k \in CacheKeys(t) THEN CacheVal(t, k) ELSE t.store[k]

\* LruCache::put: replace and promote, or insert as most recent, dropping
\* the least recent entry when full
LruPut(t, k, v) ==
  [t EXCEPT !.cache =
     IF k \in CacheKeys(t) THEN Append(Without(t, k), <<k, v>>)
     ELSE IF Len(t.cache) = t.cap THEN Append(Tail(t.cache), <<k, v>>)
     ELSE Append(t.cache, <<k, v>>)]

\* CachedTree::update_cache: on a miss, load the stored value with put
UpdateCache(t, k) ==
  IF k \notin CacheKeys(t) /\ t.store[k] # None THEN LruPut(t, k, t.store[k]) ELSE t

\* CachedTree::get (and get_mut): update the cache, then LruCache::get,
\* which promotes the entry
GetTree(t, k) ==
  LET u == UpdateCache(t, k)
  IN IF k \in CacheKeys(u) THEN [u EXCEPT !.cache = Append(Without(u, k), <<k, CacheVal(u, k)>>)]
     ELSE u
GetVal(t, k) == LET u == UpdateCache(t, k) IN IF k \in CacheKeys(u) THEN CacheVal(u, k) ELSE None

\* CachedTree::insert: when the cache is full, pop the least recent entry
\* and write it to the store; then LruCache::push
TreeInsert(t, k, v) ==
  LET u == IF Len(t.cache) = t.cap
             THEN [t EXCEPT !.store[t.cache[1][1]] = t.cache[1][2], !.cache = Tail(@)]
             ELSE t
  IN [u EXCEPT !.cache = Append(Without(u, k), <<k, v>>)]

\* CachedTree::flush: write every cached entry to the store
TreeFlush(t) == [t EXCEPT !.store = [k \in DOMAIN @ |-> View(t, k)]]

EmptyIdBlock == [i \in Ids |-> None]
EmptyAdjBlock == [i \in Ids |-> <<>>]

\* the closures handed to BlockedCachedTree::insert, as records: assign_id
\* sets the id's node, Adjacency::insert pushes onto the node's list
MutateBlock(blk, key, mut) ==
  IF mut.op = "set" THEN [blk EXCEPT ![key] = mut.val]
  ELSE [blk EXCEPT ![key] = Append(@, mut.val)]

\* BlockedCachedTree::insert: mutate the block in place if get_mut finds
\* it, else mutate a new empty block and insert it
BlockedInsert(t, key, mut, empty) ==
  LET b == key \div BlockSize
      u == GetTree(t, b)
  IN IF GetVal(t, b) # None
       THEN [u EXCEPT !.cache = Append(Without(u, b), <<b, MutateBlock(CacheVal(u, b), key, mut)>>)]
       ELSE TreeInsert(u, b, MutateBlock(empty, key, mut))

\* BlockedCachedTree::get: CachedTree::get of the key's block
BlockedGet(t, key) == GetTree(t, key \div BlockSize)

\* Adjacency::edges: the node's list in its block, read through BlockedGet
AdjEdges(t, node) == BlockedGet(t, node)

\* GraphStore::next_id: meta's "next_id", or 0
NextId(m) == IF GetVal(m, "next_id") = None THEN 0 ELSE GetVal(m, "next_id")

\* Mutant: the incremented id is never written back.
IncrementNextIdLost(m) ==
  LET u == GetTree(m, "next_id") IN TreeInsert(u, "next_id", NextId(m))

\* GraphStore::increment_next_id: read next_id again and store it plus one
IncrementNextId(m) ==
  LET u == GetTree(m, "next_id") IN TreeInsert(u, "next_id", NextId(m) + 1)

\* GraphStore::id_or_assign over s = [node2id, id2node, meta, id]: a node
\* found in node2id keeps its id; otherwise id_and_increment and assign_id
IdOrAssign(s, n) ==
  IF GetVal(s.node2id, n) # None
    THEN [s EXCEPT !.node2id = GetTree(@, n), !.id = GetVal(s.node2id, n)]
    ELSE LET n2i == GetTree(s.node2id, n)
             m1 == GetTree(s.meta, "next_id")
             id == NextId(s.meta)
         IN [s EXCEPT !.meta = IncrementNextId(m1),
                      !.node2id = TreeInsert(n2i, n, id),
                      !.id2node = BlockedInsert(@, id, [op |-> "set", val |-> n], EmptyIdBlock),
                      !.id = id]

\* Adjacency::insert: push `other` onto the list of `node` in its block
AdjInsert(t, node, other) ==
  BlockedInsert(t, node, [op |-> "push", val |-> other], EmptyAdjBlock)

\* the five tables of the store, as one record
Tables == [adjacency |-> adjacency, reversedAdjacency |-> reversedAdjacency,
           node2id |-> node2id, id2node |-> id2node, meta |-> meta]

\* GraphStore::insert over the tables s: assign ids to both nodes, then add
\* the edge to both adjacency tables
InsertInto(s, from, to) ==
  LET s1 == IdOrAssign([node2id |-> s.node2id, id2node |-> s.id2node,
                        meta |-> s.meta, id |-> None], from)
      s2 == IdOrAssign(s1, to)
  IN [adjacency |-> AdjInsert(s.adjacency, s1.id, s2.id),
      reversedAdjacency |-> AdjInsert(s.reversedAdjacency, s2.id, s1.id),
      node2id |-> s2.node2id, id2node |-> s2.id2node, meta |-> s2.meta]

\* the bound on ids: an insert hands out at most two
HasIdsFor(s) == NextId(s.meta) + 2 <= MaxId + 1

SetTables(s) ==
  /\ adjacency' = s.adjacency
  /\ reversedAdjacency' = s.reversedAdjacency
  /\ node2id' = s.node2id
  /\ id2node' = s.id2node
  /\ meta' = s.meta

Insert(from, to) ==
  /\ Len(inserted) < MaxInserts
  /\ HasIdsFor(Tables)
  /\ SetTables(InsertInto(Tables, from, to))
  /\ inserted' = Append(inserted, <<from, to>>)

\* GraphStore::node2id
Node2Id(n) ==
  /\ node2id' = GetTree(node2id, n)
  /\ UNCHANGED <<adjacency, reversedAdjacency, id2node, meta, inserted>>

\* GraphStore::id2node: BlockedCachedTree::get of the id's block
Id2Node(i) ==
  /\ id2node' = BlockedGet(id2node, i)
  /\ UNCHANGED <<adjacency, reversedAdjacency, node2id, meta, inserted>>

\* outgoing_edges / ingoing_edges: Adjacency::edges reads the id's block
OutgoingEdges(i) ==
  /\ adjacency' = AdjEdges(adjacency, i)
  /\ UNCHANGED <<reversedAdjacency, node2id, id2node, meta, inserted>>

IngoingEdges(i) ==
  /\ reversedAdjacency' = AdjEdges(reversedAdjacency, i)
  /\ UNCHANGED <<adjacency, node2id, id2node, meta, inserted>>

\* GraphStore::flush (and edges(), which flushes before iterating)
FlushTables(s) == [t \in DOMAIN s |-> TreeFlush(s[t])]

Flush ==
  /\ SetTables(FlushTables(Tables))
  /\ UNCHANGED inserted

Init ==
  /\ adjacency = NewTree(Blocks)
  /\ reversedAdjacency = NewTree(Blocks)
  /\ node2id = NewTree(Nodes)
  /\ id2node = NewTree(Blocks)
  /\ meta = NewTree({"next_id"})
  /\ inserted = <<>>

Next ==
  \/ \E from, to \in Nodes : Insert(from, to)
  \/ \E n \in Nodes : Node2Id(n)
  \/ \E i \in Ids :
       \/ Id2Node(i)
       \/ OutgoingEdges(i)
       \/ IngoingEdges(i)
  \/ Flush

Spec == Init /\ [][Next]_vars

(***************************************************************************)
(* Properties.                                                             *)
(***************************************************************************)

\* what node2id, id2node and outgoing_edges return now
N2I(n) == View(node2id, n)
BlockView(t, i) == View(t, i \div BlockSize)
I2N(i) == IF BlockView(id2node, i) = None THEN None ELSE BlockView(id2node, i)[i]
OutIds(i) == IF BlockView(adjacency, i) = None THEN <<>> ELSE BlockView(adjacency, i)[i]

\* No two nodes ever answer node2id with the same id, and id2node never
\* names another node for a node's id: next_id, read and rewritten through
\* meta's cache by id_and_increment, always hands out a fresh id.
IdsNeverShared ==
  \A n1, n2 \in Nodes :
    N2I(n1) # None =>
      /\ n1 # n2 => N2I(n1) # N2I(n2)
      /\ I2N(N2I(n1)) \in {None, n1}

\* Every inserted edge stays readable: both nodes still resolve through
\* node2id and outgoing_edges of the source lists the target (the test
\* simple_triangle_graph), however the LRU caches evicted in between.
InsertedEdgesReadable ==
  \A k \in DOMAIN inserted :
    LET f == N2I(inserted[k][1])
        t == N2I(inserted[k][2])
    IN f # None /\ t # None /\ t \in Range(OutIds(f))

====
