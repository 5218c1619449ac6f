-------------------------- MODULE EdgeStoreWriter --------------------------
(***************************************************************************)
(* The external-sort edge store writer of                                 *)
(* crates/core/src/webgraph/store_writer.rs.                               *)
(*                                                                         *)
(* put inserts an edge into the in-memory BTreeSet, ordered and compared  *)
(* by (sort_node, secondary_node) only, and spills the set to a numbered  *)
(* store file when it reaches MAX_BATCH_SIZE.  finalize merges the set    *)
(* with a k-way reader over the files (SortedEdgeIterator), drops         *)
(* consecutive equal pairs (Itertools::dedup) and feeds build_store, one  *)
(* edge per step, which cuts the stream into batches of one sort node,    *)
(* sorts and dedups each by secondary node and writes it with put_store.  *)
(*                                                                         *)
(* Node ids are small integers; a label is a model value.  A node id and  *)
(* a compressed label block each take one unit of their stream, so a range *)
(* is a half-open interval of stream positions.  The k-way reader over the *)
(* files (file_store, not under src/) is taken from spec 4.4: it emits the *)
(* smallest head, and among equal heads any one.                           *)
(***************************************************************************)
EXTENDS Integers, Sequences, SequencesExt, FiniteSets

CONSTANTS
  Nodes,            \* node ids, a set of integers
  Labels,           \* edge labels
  Reversed,         \* the writer's polarity: sort by `to` when TRUE
  MaxBatchSize,     \* MAX_BATCH_SIZE
  NumLabelsPerBlock,\* NUM_LABELS_PER_BLOCK
  MaxPuts,          \* bound: the number of put calls before finalize
  None, NoRange

Edges == [from : Nodes, to : Nodes, label : Labels]

VARIABLES
  phase,        \* "put" before finalize, "finalize" while it runs, "done"
  edges,        \* EdgeStoreWriter.edges, the in-memory BTreeSet
  storedFiles,  \* the contents of writer/N.store, in stored_writers order
  memIter,      \* the in-memory iterator SortedEdgeIterator still holds
  fileIters,    \* what the readers of each spilled file still hold
  lastKey,      \* the pair Itertools::dedup last let through, or None
  batch,        \* build_store's current batch
  lastNode,     \* build_store's last_node, or None
  nodeStream,   \* the `nodes` file: secondary node ids
  labelStream,  \* the `labels` file: label blocks
  ranges,       \* RangesDb: node -> its node and label ranges, or NoRange
  prefixes,     \* PrefixDb: the sort nodes recorded
  given         \* ghost: the edges put, in order

vars == <<phase, edges, storedFiles, memIter, fileIters, lastKey, batch,
          lastNode, nodeStream, labelStream, ranges, prefixes, given>>

\* the (sort_node, secondary_node) of put
SortNode(e) == IF Reversed THEN e.to ELSE e.from
SecondaryNode(e) == IF Reversed THEN e.from ELSE e.to
Key(e) == <<SortNode(e), SecondaryNode(e)>>

\* Ord for SortableEdge: sort node, then secondary node
KeyLess(a, b) == \/ a[1] < b[1]
                 \/ a[1] = b[1] /\ a[2] < b[2]

\* iterating a BTreeSet of SortableEdge yields it in key order
SortedByKey(S) == SetToSortSeq(S, LAMBDA a, b : KeyLess(Key(a), Key(b)))

\* flush_to_file: write the set in order as the next store file, clear it
FlushToFile(set) ==
  /\ storedFiles' = Append(storedFiles, SortedByKey(set))
  /\ edges' = {}

\* Mutant: the spill waits for one edge more than MAX_BATCH_SIZE.
SpillDueLate(set) == Cardinality(set) > MaxBatchSize

\* put's test for a full set
SpillDue(set) == Cardinality(set) >= MaxBatchSize

\* put: BTreeSet::insert keeps the element already there on an equal key,
\* then spill when the set is full
Put(e) ==
  /\ phase = "put"
  /\ Len(given) < MaxPuts
  /\ LET set == IF \E x \in edges : Key(x) = Key(e) THEN edges ELSE edges \cup {e}
     IN IF SpillDue(set)
          THEN FlushToFile(set)
          ELSE edges' = set /\ UNCHANGED storedFiles
  /\ given' = Append(given, e)
  /\ UNCHANGED <<phase, memIter, fileIters, lastKey, batch, lastNode,
                 nodeStream, labelStream, ranges, prefixes>>

\* FinalEdgeStoreWriter::open on a path no earlier build wrote: the ranges
\* and prefixes dbs open empty, and so do the labels and nodes files (opened
\* with create and without truncate)
FinalWriterOpen ==
  [nodes |-> <<>>, labels |-> <<>>, ranges |-> [n \in Nodes |-> NoRange], prefixes |-> {}]

\* finalize opens the final writer and calls sorted_edges, which opens a
\* reader per file and takes the set; sorted_edges consumes the writer, so
\* Drop removes writer/ before a reader is read
Finalize ==
  /\ phase = "put"
  /\ phase' = "finalize"
  /\ memIter' = SortedByKey(edges)
  /\ fileIters' = storedFiles
  /\ edges' = {}
  /\ storedFiles' = <<>>
  /\ nodeStream' = FinalWriterOpen.nodes
  /\ labelStream' = FinalWriterOpen.labels
  /\ ranges' = FinalWriterOpen.ranges
  /\ prefixes' = FinalWriterOpen.prefixes
  /\ UNCHANGED <<lastKey, batch, lastNode, given>>

\* the files whose head the k-way reader may emit: a smallest head
KWayHeads ==
  {i \in DOMAIN fileIters :
     /\ fileIters[i] # <<>>
     /\ \A j \in DOMAIN fileIters :
          fileIters[j] # <<>> => ~KeyLess(Key(Head(fileIters[j])), Key(Head(fileIters[i])))}

\* Mutant: the in-memory edge is taken whenever there is one.
SortedEdgeNextMemFirst(i) ==
  IF memIter # <<>> THEN "mem" ELSE "file"

\* SortedEdgeIterator::next: the in-memory edge only when its sort node is
\* smaller than the file head's; on equal sort nodes the file goes first
SortedEdgeNext(i) ==
  IF memIter # <<>> /\ (i = None \/ SortNode(Head(memIter)) < SortNode(Head(fileIters[i])))
    THEN "mem" ELSE "file"

\* Mutant: the batch is sorted but not deduplicated.
BatchChoicesNoDedup(b) ==
  {SortSeq(b, LAMBDA x, y : SecondaryNode(x) < SecondaryNode(y))}

\* build_store's batch cleanup: sort_unstable_by_key and dedup_by_key on the
\* secondary node.  The sort is unstable, so of the edges sharing a
\* secondary node any one may be kept.
BatchChoices(b) ==
  LET ts == SetToSortSeq({SecondaryNode(b[k]) : k \in DOMAIN b}, <)
  IN {r \in [1..Len(ts) -> Range(b)] :
        \A k \in 1..Len(ts) : SecondaryNode(r[k]) = ts[k]}

\* NUM_LABELS_PER_BLOCK labels to a LabelBlock (Itertools::chunks)
RECURSIVE Chunks(_, _)
Chunks(s, n) ==
  IF Len(s) <= n THEN <<s>> ELSE <<SubSeq(s, 1, n)>> \o Chunks(SubSeq(s, n + 1, Len(s)), n)

\* put_store: record the node, append its label blocks and secondary ids,
\* and store their ranges under the node
PutStore(es) ==
  LET node == SortNode(es[1])
      blocks == Chunks([k \in DOMAIN es |-> es[k].label], NumLabelsPerBlock)
  IN /\ prefixes' = prefixes \cup {node}
     /\ nodeStream' = nodeStream \o [k \in DOMAIN es |-> SecondaryNode(es[k])]
     /\ labelStream' = labelStream \o blocks
     /\ ranges' = [ranges EXCEPT ![node] =
                     [nodes |-> <<Len(nodeStream), Len(nodeStream) + Len(es)>>,
                      labels |-> <<Len(labelStream), Len(labelStream) + Len(blocks)>>]]

\* one call of SortedEdgeIterator::next followed by dedup and one turn of
\* build_store's loop: a duplicate of the last pair is dropped; an edge of
\* a new sort node closes the batch and puts it; any other joins the batch
FinalizeStep ==
  /\ phase = "finalize"
  /\ memIter # <<>> \/ KWayHeads # {}
  /\ \E i \in IF KWayHeads = {} THEN {None} ELSE KWayHeads :
       LET src == SortedEdgeNext(i)
           e == IF src = "mem" THEN Head(memIter) ELSE Head(fileIters[i])
       IN /\ IF src = "mem"
               THEN memIter' = Tail(memIter) /\ UNCHANGED fileIters
               ELSE fileIters' = [fileIters EXCEPT ![i] = Tail(@)] /\ UNCHANGED memIter
          /\ \/ /\ Key(e) = lastKey
                /\ UNCHANGED <<lastKey, batch, lastNode, nodeStream, labelStream,
                               ranges, prefixes>>
             \/ /\ Key(e) # lastKey
                /\ lastKey' = Key(e)
                /\ lastNode' = SortNode(e)
                /\ \/ /\ lastNode \in {None, SortNode(e)}
                      /\ batch' = Append(batch, e)
                      /\ UNCHANGED <<nodeStream, labelStream, ranges, prefixes>>
                   \/ /\ lastNode \notin {None, SortNode(e)}
                      /\ \E es \in BatchChoices(batch) : PutStore(es)
                      /\ batch' = <<e>>
  /\ UNCHANGED <<phase, edges, storedFiles, given>>

\* the end of build_store: put the last batch, flush, open the store
FinalizeEnd ==
  /\ phase = "finalize"
  /\ memIter = <<>> /\ KWayHeads = {}
  /\ \/ batch = <<>> /\ UNCHANGED <<nodeStream, labelStream, ranges, prefixes>>
     \/ batch # <<>> /\ \E es \in BatchChoices(batch) : PutStore(es)
  /\ phase' = "done"
  /\ batch' = <<>>
  /\ UNCHANGED <<edges, storedFiles, memIter, fileIters, lastKey, lastNode,
                 given>>

Init ==
  /\ phase = "put"
  /\ edges = {}
  /\ storedFiles = <<>>
  /\ memIter = <<>>
  /\ fileIters = <<>>
  /\ lastKey = None
  /\ batch = <<>>
  /\ lastNode = None
  /\ nodeStream = <<>>
  /\ labelStream = <<>>
  /\ ranges = [n \in Nodes |-> NoRange]
  /\ prefixes = {}
  /\ given = <<>>

Next ==
  \/ \E e \in Edges : Put(e)
  \/ Finalize
  \/ FinalizeStep
  \/ FinalizeEnd

Spec == Init /\ [][Next]_vars

(***************************************************************************)
(* Properties.                                                             *)
(***************************************************************************)

TypeOK ==
  /\ phase \in {"put", "finalize", "done"}
  /\ edges \subseteq Edges
  \* the in-memory set is below MAX_BATCH_SIZE, one edge per pair
  /\ Cardinality(edges) < MaxBatchSize
  /\ Cardinality({Key(e) : e \in edges}) = Cardinality(edges)
  /\ given \in Seq(Edges)
  /\ \A s \in Range(storedFiles) \cup Range(fileIters) \cup {memIter, batch} : s \in Seq(Edges)
  /\ lastNode \in Nodes \cup {None}
  /\ ranges \in [Nodes -> [nodes : Nat \X Nat, labels : Nat \X Nat] \cup {NoRange}]
  /\ prefixes \subseteq Nodes

\* the secondary nodes given with sort node s, and the labels given to a pair
GivenSecondaries(s) == {SecondaryNode(e) : e \in {x \in Range(given) : SortNode(x) = s}}
GivenLabels(k) == {e.label : e \in {x \in Range(given) : Key(x) = k}}

\* what a reader of the finished store finds under s
ReadNodes(s) == SubSeq(nodeStream, ranges[s].nodes[1] + 1, ranges[s].nodes[2])
ReadLabels(s) == FlattenSeq(SubSeq(labelStream, ranges[s].labels[1] + 1, ranges[s].labels[2]))

\* After finalize, the store holds under each sort node the sorted,
\* deduplicated secondary nodes it was given, each with a label given to
\* that pair, and nothing under a node it was not given (spec section 8),
\* whatever the spills, the k-way merge's ties and the unstable batch
\* sort do.
StoreMatchesReference ==
  phase = "done" =>
    /\ prefixes = {s \in Nodes : GivenSecondaries(s) # {}}
    /\ \A s \in Nodes :
         /\ GivenSecondaries(s) = {} => ranges[s] = NoRange
         /\ GivenSecondaries(s) # {} =>
              /\ ranges[s] # NoRange
              /\ ReadNodes(s) = SetToSortSeq(GivenSecondaries(s), <)
              /\ Len(ReadLabels(s)) = Len(ReadNodes(s))
              /\ \A k \in DOMAIN ReadNodes(s) :
                   ReadLabels(s)[k] \in GivenLabels(<<s, ReadNodes(s)[k]>>)

\* put_store is called at most once per sort node: a range in RangesDb is
\* never overwritten (the debug_asserts of put_store; spec 4.4: at most
\* one entry per node).  It holds only if the merged stream keeps each
\* sort node's edges together.
RangesWrittenOnce ==
  [][\A s \in Nodes : ranges[s] # NoRange => ranges'[s] = ranges[s]]_vars

====
