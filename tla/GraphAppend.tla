----------------------------- MODULE GraphAppend -----------------------------
(***************************************************************************)
(* GraphStore::append(other) of src/webgraph/graph_store.rs: two legacy    *)
(* graph stores, self and other, each an instance of GraphStore over its   *)
(* own tables.  other is built by its own calls, then moved into append,  *)
(* which iterates other.edges() (a flush of other, then EdgeIterator over  *)
(* the adjacency Kv store), looks both ends of every edge up in other's   *)
(* id2node with expect, and inserts the pair of nodes into self.  append  *)
(* runs as one step: it holds &mut self, and other is owned by it.  A     *)
(* failed expect panics: the process stops with the edges inserted so far *)
(* in self.  other is dropped after append, so its tables are reset.      *)
(***************************************************************************)
EXTENDS Integers, Sequences, SequencesExt, FiniteSets

CONSTANTS
  Nodes, MaxId, BlockSize, CacheSize, None,
  MaxInserts,     \* bound: insert calls on self, append's included
  OtherInserts    \* bound: insert calls that build other

VARIABLES
  adjacency, reversedAdjacency, node2id, id2node, meta, inserted,
  oAdjacency, oReversedAdjacency, oNode2id, oId2node, oMeta, oInserted,
  phase     \* "build", then "appended", or "panicked" when append panics

selfVars == <<adjacency, reversedAdjacency, node2id, id2node, meta, inserted>>
otherVars == <<oAdjacency, oReversedAdjacency, oNode2id, oId2node, oMeta, oInserted>>
vars == <<selfVars, otherVars, phase>>

SelfStore == INSTANCE GraphStore

OtherStore == INSTANCE GraphStore
  WITH adjacency <- oAdjacency, reversedAdjacency <- oReversedAdjacency,
       node2id <- oNode2id, id2node <- oId2node, meta <- oMeta,
       inserted <- oInserted, MaxInserts <- OtherInserts

Ids == SelfStore!Ids

\* the list of node f in an adjacency tree's Kv store
StoredList(adj, f) ==
  IF adj.store[f \div BlockSize] = None THEN <<>> ELSE adj.store[f \div BlockSize][f]

\* the edges EdgeIterator reads from an adjacency tree's Kv store, in any
\* order: the iterator is not under src/, and a block is a HashMap
StoredEdgeOrders(adj) ==
  LET pos == UNION {{<<f, k>> : k \in 1..Len(StoredList(adj, f))} : f \in Ids}
  IN {[i \in DOMAIN ord |-> <<ord[i][1], StoredList(adj, ord[i][1])[ord[i][2]]>>] :
        ord \in SetToSeqs(pos)}

\* Mutant: edges() iterates without flushing other first.
EdgesNoFlush(s) == StoredEdgeOrders(s.adjacency)

\* GraphStore::edges: flush every table, then iterate the adjacency store
Edges(s) == StoredEdgeOrders(OtherStore!FlushTables(s).adjacency)

\* one turn of append's loop: other.id2node of both ends, expect, and
\* self.insert.  After the flush every entry of other is in its store, so
\* a lookup returns what other's id2node answers (I2N) whatever it evicts.
\* `full` marks a loop the bounds cut short; such an append is not taken.
AppendEdge(r, e) ==
  LET from == OtherStore!I2N(e[1])
      to == OtherStore!I2N(e[2])
  IN CASE r.panicked \/ r.full -> r
       [] from = None \/ to = None -> [r EXCEPT !.panicked = TRUE]
       [] Len(r.inserted) >= MaxInserts \/ ~SelfStore!HasIdsFor(r.tables) ->
            [r EXCEPT !.full = TRUE]
       [] OTHER -> [r EXCEPT !.tables = SelfStore!InsertInto(@, from, to),
                             !.inserted = Append(@, <<from, to>>)]

\* GraphStore::append
AppendOther ==
  /\ phase = "build"
  /\ \E order \in Edges(OtherStore!Tables) :
       LET r == FoldLeft(AppendEdge, [tables |-> SelfStore!Tables, inserted |-> inserted,
                                      panicked |-> FALSE, full |-> FALSE], order)
       IN /\ ~r.full
          /\ SelfStore!SetTables(r.tables)
          /\ inserted' = r.inserted
          /\ phase' = IF r.panicked THEN "panicked" ELSE "appended"
  /\ oAdjacency' = SelfStore!NewTree(SelfStore!Blocks)
  /\ oReversedAdjacency' = SelfStore!NewTree(SelfStore!Blocks)
  /\ oNode2id' = SelfStore!NewTree(Nodes)
  /\ oId2node' = SelfStore!NewTree(SelfStore!Blocks)
  /\ oMeta' = SelfStore!NewTree({"next_id"})
  /\ oInserted' = <<>>

\* other is built before append takes it; self starts empty and is used
\* after append returns
OtherStep == phase = "build" /\ OtherStore!Next /\ UNCHANGED <<selfVars, phase>>
SelfStep == phase = "appended" /\ SelfStore!Next /\ UNCHANGED <<otherVars, phase>>

Init == SelfStore!Init /\ OtherStore!Init /\ phase = "build"

Next == OtherStep \/ SelfStep \/ AppendOther

Spec == Init /\ [][Next]_vars

(***************************************************************************)
(* Properties.                                                             *)
(***************************************************************************)

\* Neither store ever gives two nodes one id, append's inserts into self
\* included.
IdsNeverShared == SelfStore!IdsNeverShared /\ OtherStore!IdsNeverShared

\* other's graph as its own reads answer it: the ends of every edge that
\* outgoing_edges lists, by node, None where id2node has no node
OtherReadable ==
  UNION {{<<OtherStore!I2N(f), OtherStore!I2N(t)>> : t \in Range(OtherStore!OutIds(f))} : f \in Ids}

OtherEdgeCount == FoldFunction(LAMBDA x, y : x + y, 0, [f \in Ids |-> Len(OtherStore!OutIds(f))])

\* append(other) inserts into self exactly the edges other's reads answer,
\* each by its two nodes and as many times as other lists it, when every
\* end resolves; it panics exactly when an end of one of them does not,
\* having inserted only edges of other.  This needs edges() to flush other
\* before EdgeIterator reads its Kv store, and the ends to be translated
\* through other's id2node.
AppendCopiesReadableGraph ==
  [][phase = "build" /\ phase' # "build" =>
       LET new == SubSeq(inserted', Len(inserted) + 1, Len(inserted'))
       IN /\ ToSet(new) \subseteq OtherReadable
          /\ (phase' = "panicked") = (\E e \in OtherReadable : None \in {e[1], e[2]})
          /\ phase' = "appended" => ToSet(new) = OtherReadable /\ Len(new) = OtherEdgeCount
    ]_vars

====
