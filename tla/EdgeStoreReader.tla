--------------------------- MODULE EdgeStoreReader ---------------------------
(***************************************************************************)
(* The iterators of the tantivy-backed edge store, crates/core/src/       *)
(* webgraph/store.rs (spec section 4.5).                                   *)
(*                                                                         *)
(* The store is a searcher's list of segments; a segment is its docs in   *)
(* doc-id order, each doc one edge <<from_id, to_id>> of page node ids.   *)
(* The host columns from_host_id and to_host_id hold the hosts of those   *)
(* pages (HostOf); rel_flags is not read by any property and is left out. *)
(* insert, commit and merge are todo!() in the code, so the segments are  *)
(* fixed: the store opens on any segments of at most MaxDocs docs.       *)
(*                                                                         *)
(* An iterator is lazy: flat_map builds one SmallSegmentEdgesIter per     *)
(* segment when the previous one is exhausted, each next() reads one doc, *)
(* and unique / unique_by drop the items already yielded.  One iterator   *)
(* is consumed at a time, by one thread; `out` is what it yielded.        *)
(***************************************************************************)
EXTENDS Integers, Sequences, SequencesExt, FiniteSets

CONSTANTS
  Edges,        \* the <<from, to>> page id pairs a doc may hold
  HostOf,       \* page id -> the host node id of its host
  NumSegments,  \* the searcher's segment readers
  MaxDocs,      \* bound: docs per segment (max_doc)
  Bounds        \* the offsets and limits callers pass

Kinds == {"pages_small", "hosts_small", "page_ids", "host_ids"}

VARIABLES
  segments,  \* segment -> its docs, doc id d at position d + 1
  it,        \* the iterator being consumed
  out        \* the items it has yielded

vars == <<segments, it, out>>

\* SmallEdge with the host columns
HostEdge(e) == <<HostOf[e[1]], HostOf[e[2]]>>

(***************************************************************************)
(* Operations.                                                            *)
(***************************************************************************)
Init ==
  /\ segments \in [1..NumSegments -> BoundedSeq(Edges, MaxDocs)]
  /\ it = [kind |-> "none", offset |-> 0, limit |-> 0, seg |-> 0, cur |-> 0,
           end |-> 0, seen |-> {}, done |-> FALSE]
  /\ out = <<>>

\* an iterator over all segments; none of its segment iterators is made
\* yet.  The caller may drop the one it was consuming.
Start(kind, offset, limit) ==
  /\ it' = [kind |-> kind, offset |-> offset, limit |-> limit, seg |-> 0,
            cur |-> 0, end |-> 0, seen |-> {}, done |-> FALSE]
  /\ out' = <<>>
  /\ UNCHANGED segments

\* iter_pages_small: every segment over 0..max_doc
IterPagesSmall == Start("pages_small", 0, MaxDocs)

\* iter_hosts_small: every segment over 0..max_doc, the host columns,
\* unique_by (from, to) over the whole stream
IterHostsSmall == Start("hosts_small", 0, MaxDocs)

\* iter_page_node_ids(offset, limit): the range offset..limit in every
\* segment, both ends of each edge, unique
IterPageNodeIds(offset, limit) == Start("page_ids", offset, limit)

\* iter_host_node_ids(offset, limit): the same over the host columns
IterHostNodeIds(offset, limit) == Start("host_ids", offset, limit)

\* Mutant: the end clipped to the last doc id, max_doc - 1.
NewSegmentIterClipLastDoc ==
  LET s == it.seg + 1
      lo == IF it.kind \in {"pages_small", "hosts_small"} THEN 0 ELSE it.offset
      hi == IF it.kind \in {"pages_small", "hosts_small"} THEN Len(segments[s]) ELSE it.limit
  IN /\ it.kind # "none" /\ ~it.done
     /\ it.cur >= it.end
     /\ it.seg < NumSegments
     /\ it' = [it EXCEPT !.seg = s, !.cur = lo,
                         !.end = IF hi >= Len(segments[s]) THEN Len(segments[s]) - 1 ELSE hi]
     /\ UNCHANGED <<segments, out>>

\* flat_map moves to the next segment: SmallSegmentEdgesIter::new with the
\* doc range, whose end (not start) is clipped to max_doc
NewSegmentIter ==
  LET s == it.seg + 1
      lo == IF it.kind \in {"pages_small", "hosts_small"} THEN 0 ELSE it.offset
      hi == IF it.kind \in {"pages_small", "hosts_small"} THEN Len(segments[s]) ELSE it.limit
  IN /\ it.kind # "none" /\ ~it.done
     /\ it.cur >= it.end
     /\ it.seg < NumSegments
     /\ it' = [it EXCEPT !.seg = s, !.cur = lo,
                         !.end = IF hi > Len(segments[s]) THEN Len(segments[s]) ELSE hi]
     /\ UNCHANGED <<segments, out>>

\* the items one SmallEdge becomes: itself, its hosts, or its two ends
Items(kind, e) ==
  CASE kind = "pages_small" -> <<e>>
    [] kind = "hosts_small" -> <<HostEdge(e)>>
    [] kind = "page_ids"    -> <<e[1], e[2]>>
    [] kind = "host_ids"    -> <<HostOf[e[1]], HostOf[e[2]]>>

\* yield the items in order; unique and unique_by drop an item already
\* yielded (iter_pages_small keeps every one)
Emit(r, x) ==
  IF it.kind # "pages_small" /\ x \in r.seen THEN r
  ELSE [out |-> Append(r.out, x), seen |-> r.seen \cup {x}]

\* SmallSegmentEdgesIter::next: the doc at current_doc, which moves on
SegmentNext ==
  LET doc == segments[it.seg][it.cur + 1]
      r == FoldLeft(Emit, [out |-> out, seen |-> it.seen], Items(it.kind, doc))
  IN /\ it.kind # "none" /\ ~it.done
     /\ it.cur < it.end
     /\ it' = [it EXCEPT !.cur = @ + 1, !.seen = r.seen]
     /\ out' = r.out
     /\ UNCHANGED segments

\* the last segment's iterator returns None: so does the flat_map
Exhausted ==
  /\ it.kind # "none" /\ ~it.done
  /\ it.cur >= it.end
  /\ it.seg = NumSegments
  /\ it' = [it EXCEPT !.done = TRUE]
  /\ UNCHANGED <<segments, out>>

Next ==
  \/ IterPagesSmall
  \/ IterHostsSmall
  \/ \E o, l \in Bounds : IterPageNodeIds(o, l) \/ IterHostNodeIds(o, l)
  \/ NewSegmentIter
  \/ SegmentNext
  \/ Exhausted

Spec == Init /\ [][Next]_vars

(***************************************************************************)
(* Properties.                                                            *)
(***************************************************************************)

\* the docs of segment s in the half-open doc-id range lo..hi
DocsIn(s, lo, hi) == SubSeq(segments[s], lo + 1, IF hi < Len(segments[s]) THEN hi ELSE Len(segments[s]))

\* the edges spec 4.5 says an iterator reads: per segment, in segment
\* order, the docs of its range (offset..limit for the node-id
\* iterators, all docs otherwise)
ReferenceEdges ==
  LET full == it.kind \in {"pages_small", "hosts_small"}
  IN FoldLeft(LAMBDA acc, s : acc \o DocsIn(s, IF full THEN 0 ELSE it.offset,
                                               IF full THEN MaxDocs ELSE it.limit),
              <<>>, [i \in 1..NumSegments |-> i])

ReferenceItems ==
  UNION {ToSet(Items(it.kind, ReferenceEdges[i])) : i \in DOMAIN ReferenceEdges}

\* When an iterator returns None, it has yielded what spec 4.5 says it
\* reads: iter_pages_small every edge of every segment in order, and the
\* others each host edge or node id of their doc ranges exactly once
\* (iter_hosts_small deduplicated by (from, to) across segments), whatever
\* offsets and limits past max_doc, or out of order, the caller passes.
IteratorsMatchReference ==
  it.done =>
    IF it.kind = "pages_small" THEN out = ReferenceEdges
    ELSE /\ ToSet(out) = ReferenceItems
         /\ Len(out) = Cardinality(ToSet(out))

====
