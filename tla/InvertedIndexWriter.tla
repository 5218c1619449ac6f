------------------------- MODULE InvertedIndexWriter -------------------------
(***************************************************************************)
(* The writer side of the inverted index, crates/core/src/inverted_index/ *)
(* indexing.rs, over index directories that survive a crash of the        *)
(* process.                                                               *)
(*                                                                         *)
(* A directory holds the files of some segments and a meta.json listing   *)
(* the live ones.  The process holds, per index, an optional tantivy      *)
(* writer with its buffer of uncommitted pages, and the merge operations  *)
(* started but not ended.  tantivy itself is not under src/: its commit,  *)
(* start_merge, end_merge, merge_segments and garbage collection follow   *)
(* spec section 4.3.  The files of one segment are abstracted to one      *)
(* unit, and meta.json's order (by max_doc) to a set.                     *)
(*                                                                         *)
(* Operations that write twice to disk are split at each write, and a     *)
(* crash may fall between any two steps (when CrashInOps) or only between *)
(* operations.  Methods of one index take &self or &mut self, so at most  *)
(* one multi-step operation is in progress.                               *)
(***************************************************************************)
EXTENDS Integers, FiniteSets

CONSTANTS
  Dirs,                 \* index directories (self and other of merge)
  Pages,                \* webpages, each inserted at most once
  MaxSegments,          \* bound: segment ids 1..MaxSegments are ever made
  MaxNumSegments,       \* the argument of merge_into_max_segments
  MaxCrashes,           \* bound: process crashes in a behaviour
  CrashInOps,           \* a crash may fall inside a multi-step operation
  ExclusiveMergeInputs, \* callers never delete or merge away a segment
                        \* that a started merge is using
  DeleteWithoutWriter   \* callers call delete_segments_by_id only on an
                        \* index that holds no prepared writer

SegIds == 1..MaxSegments

VARIABLES
  dirs,      \* the directories that exist
  files,     \* dir -> the segments whose files are in it
  meta,      \* dir -> the segments its meta.json lists
  segDocs,   \* segment -> the pages it holds (segments are immutable)
  nextSeg,   \* the id the next new segment gets
  writer,    \* dir -> the index holds a prepared writer
  writerSegs, \* dir -> the committed segments the writer's segment
             \* manager holds; loaded from meta.json when it is made
  buffer,    \* dir -> pages inserted and not committed
  merging,   \* merge operations started and not ended
  pc,        \* the step the operation in progress is at
  crashes,   \* crashes so far
  inserted,  \* pages inserted so far (each page once)
  acked      \* dir -> the pages the completed operations left in it

vars == <<dirs, files, meta, segDocs, nextSeg, writer, writerSegs, buffer,
          merging, pc, crashes, inserted, acked>>

Idle == [op |-> "none", dir |-> "none", other |-> "none", segs |-> {}, newMeta |-> {}]

\* the pages of a set of segments
DocsOf(S) == UNION {segDocs[s] : s \in S}

\* the segments that a started merge of d uses as inputs
InMerge(d) == UNION {m.inputs : m \in {m \in merging : m.dir = d}}

(***************************************************************************)
(* Operations.                                                            *)
(***************************************************************************)
Init ==
  /\ dirs = Dirs
  /\ files = [d \in Dirs |-> {}]
  /\ meta = [d \in Dirs |-> {}]
  /\ segDocs = [s \in SegIds |-> {}]
  /\ nextSeg = 1
  /\ writer = [d \in Dirs |-> FALSE]
  /\ writerSegs = [d \in Dirs |-> {}]
  /\ buffer = [d \in Dirs |-> {}]
  /\ merging = {}
  /\ pc = Idle
  /\ crashes = 0
  /\ inserted = {}
  /\ acked = [d \in Dirs |-> {}]

Ready(d) == d \in dirs /\ pc = Idle

\* the segment list of d's writer after prepare_writer: the prepared
\* writer's own, or meta.json's when the writer is made now
WriterSegs(d) == IF writer[d] THEN writerSegs[d] ELSE meta[d]

\* Mutant: a new writer that does not load the segments of meta.json.
PrepareWriterNoLoad(d) ==
  /\ Ready(d)
  /\ ~writer[d]
  /\ writer' = [writer EXCEPT ![d] = TRUE]
  /\ UNCHANGED <<dirs, files, meta, segDocs, nextSeg, writerSegs, buffer, merging, pc, crashes, inserted, acked>>

\* prepare_writer: idempotent
PrepareWriter(d) ==
  /\ Ready(d)
  /\ ~writer[d]
  /\ writer' = [writer EXCEPT ![d] = TRUE]
  /\ writerSegs' = [writerSegs EXCEPT ![d] = meta[d]]
  /\ UNCHANGED <<dirs, files, meta, segDocs, nextSeg, buffer, merging, pc, crashes, inserted, acked>>

\* insert: add_document to the prepared writer's buffer
Insert(d, p) ==
  /\ Ready(d)
  /\ writer[d]
  /\ p \notin inserted
  /\ buffer' = [buffer EXCEPT ![d] = @ \cup {p}]
  /\ inserted' = inserted \cup {p}
  /\ UNCHANGED <<dirs, files, meta, segDocs, nextSeg, writer, writerSegs, merging, pc, crashes, acked>>

\* tantivy's commit of d's buffer into new segment s: the segment's files,
\* then meta.json, written from the writer's segment list with the new
\* segment (and written again when the buffer is empty)
CommitBuffer(d, s) ==
  IF buffer[d] = {} THEN [files |-> files[d], meta |-> WriterSegs(d), next |-> s]
  ELSE [files |-> files[d] \cup {s}, meta |-> WriterSegs(d) \cup {s}, next |-> s + 1]

\* commit: prepare_writer, then the writer's commit and a reader reload
Commit(d) ==
  LET r == CommitBuffer(d, nextSeg)
  IN /\ Ready(d)
     /\ buffer[d] = {} \/ nextSeg <= MaxSegments
     /\ files' = [files EXCEPT ![d] = r.files]
     /\ meta' = [meta EXCEPT ![d] = r.meta]
     /\ segDocs' = IF buffer[d] = {} THEN segDocs ELSE [segDocs EXCEPT ![nextSeg] = buffer[d]]
     /\ nextSeg' = r.next
     /\ writer' = [writer EXCEPT ![d] = TRUE]
     /\ writerSegs' = [writerSegs EXCEPT ![d] = r.meta]
     /\ buffer' = [buffer EXCEPT ![d] = {}]
     /\ acked' = [acked EXCEPT ![d] = @ \cup buffer[d]]
     /\ UNCHANGED <<dirs, merging, pc, crashes, inserted>>

\* merge_into_max_segments(n): prepare_writer, then tantivy's merge_segments
\* over the segments of meta.json, replacing them atomically (spec 4.3) in
\* the writer's segment list, which is then committed.  Of the groupings
\* into at most n segments, the model takes the one segment that holds
\* every page.
MergeIntoMaxSegments(d) ==
  LET merged == (WriterSegs(d) \ meta[d]) \cup {nextSeg}
  IN
  /\ Ready(d)
  /\ writer' = [writer EXCEPT ![d] = TRUE]
  /\ \/ /\ Cardinality(meta[d]) <= MaxNumSegments
        /\ writerSegs' = [writerSegs EXCEPT ![d] = WriterSegs(d)]
        /\ UNCHANGED <<files, meta, segDocs, nextSeg>>
     \/ /\ Cardinality(meta[d]) > MaxNumSegments
        /\ nextSeg <= MaxSegments
        /\ ExclusiveMergeInputs => meta[d] \cap InMerge(d) = {}
        /\ files' = [files EXCEPT ![d] = (@ \ meta[d]) \cup {nextSeg}]
        /\ meta' = [meta EXCEPT ![d] = merged]
        /\ writerSegs' = [writerSegs EXCEPT ![d] = merged]
        /\ segDocs' = [segDocs EXCEPT ![nextSeg] = DocsOf(meta[d])]
        /\ nextSeg' = nextSeg + 1
  /\ UNCHANGED <<dirs, buffer, merging, pc, crashes, inserted, acked>>

\* start_merge_segments_by_id(S): bails on an empty S; tantivy's
\* start_merge writes the merged segment's files and returns the entry
\* and the operation, leaving meta.json alone
StartMerge(d, S) ==
  /\ Ready(d)
  /\ writer[d]
  /\ S # {}
  /\ S \subseteq writerSegs[d]
  /\ S \cap InMerge(d) = {}
  /\ nextSeg <= MaxSegments
  /\ files' = [files EXCEPT ![d] = @ \cup {nextSeg}]
  /\ segDocs' = [segDocs EXCEPT ![nextSeg] = DocsOf(S)]
  /\ nextSeg' = nextSeg + 1
  /\ merging' = merging \cup {[dir |-> d, inputs |-> S, out |-> nextSeg]}
  /\ UNCHANGED <<dirs, meta, writer, writerSegs, buffer, pc, crashes, inserted, acked>>

\* end_merge_segments_by_id: prepare_writer, then tantivy's end_merge: the
\* result segment replaces the inputs in the writer's segment list, which
\* is saved to meta.json, and the inputs' files are collected
EndMerge(m) ==
  LET d == m.dir
      newMeta == (WriterSegs(d) \ m.inputs) \cup {m.out}
  IN /\ Ready(d)
     /\ m \in merging
     /\ meta' = [meta EXCEPT ![d] = newMeta]
     /\ files' = [files EXCEPT ![d] = @ \ (m.inputs \ newMeta)]
     /\ writer' = [writer EXCEPT ![d] = TRUE]
     /\ writerSegs' = [writerSegs EXCEPT ![d] = newMeta]
     /\ merging' = merging \ {m}
     /\ UNCHANGED <<dirs, segDocs, nextSeg, buffer, pc, crashes, inserted, acked>>

\* Mutant: to_delete taken from S itself, not from the searchable segments.
DeleteSegmentsUnfiltered(d, S) ==
  /\ Ready(d)
  /\ S # {}
  /\ ExclusiveMergeInputs => S \cap InMerge(d) = {}
  /\ DeleteWithoutWriter => ~writer[d]
  /\ files' = [files EXCEPT ![d] = @ \ S]
  /\ pc' = [Idle EXCEPT !.op = "delete", !.dir = d, !.segs = S, !.newMeta = meta[d] \ S]
  /\ UNCHANGED <<dirs, meta, segDocs, nextSeg, writer, writerSegs, buffer, merging, crashes, inserted, acked>>

\* delete_segments_by_id(S), up to the garbage collection: the files of the
\* searchable segments in S go; the new meta is computed but not saved.
\* An empty S returns at once.
DeleteSegments(d, S) ==
  LET toDelete == S \cap meta[d]
  IN /\ Ready(d)
     /\ S # {}
     /\ ExclusiveMergeInputs => S \cap InMerge(d) = {}
     /\ DeleteWithoutWriter => ~writer[d]
     /\ files' = [files EXCEPT ![d] = @ \ toDelete]
     /\ pc' = [Idle EXCEPT !.op = "delete", !.dir = d, !.segs = toDelete,
                           !.newMeta = meta[d] \ S]
     /\ UNCHANGED <<dirs, meta, segDocs, nextSeg, writer, writerSegs, buffer, merging, crashes, inserted, acked>>

\* delete_segments_by_id, the rest: save_metas, then the reader reload
DeleteSaveMetas ==
  LET d == pc.dir
  IN /\ pc.op = "delete"
     /\ meta' = [meta EXCEPT ![d] = pc.newMeta]
     /\ acked' = [acked EXCEPT ![d] = @ \ DocsOf(pc.segs)]
     /\ pc' = Idle
     /\ UNCHANGED <<dirs, files, segDocs, nextSeg, writer, writerSegs, buffer, merging, crashes, inserted>>

\* merge(other), up to the loop: prepare both writers, other.commit() and
\* self.commit(), load both metas, and drop both writers after their
\* merging threads.  Merges the caller started are drained first (spec 4.3).
\* The segments of other that self's meta lacks are left to move.
MergeBegin(a, b) ==
  LET rb == CommitBuffer(b, nextSeg)
      ra == CommitBuffer(a, rb.next)
      sb == nextSeg
      sa == rb.next
  IN /\ Ready(a)
     /\ b \in dirs
     /\ a # b
     /\ \A m \in merging : m.dir \notin {a, b}
     /\ ra.next <= MaxSegments + 1
     /\ files' = [files EXCEPT ![a] = ra.files, ![b] = rb.files]
     /\ meta' = [meta EXCEPT ![a] = ra.meta, ![b] = rb.meta]
     /\ segDocs' = [s \in SegIds |-> CASE s = sb /\ buffer[b] # {} -> buffer[b]
                                        [] s = sa /\ buffer[a] # {} -> buffer[a]
                                        [] OTHER -> segDocs[s]]
     /\ nextSeg' = ra.next
     /\ writer' = [writer EXCEPT ![a] = FALSE, ![b] = FALSE]
     /\ writerSegs' = [writerSegs EXCEPT ![a] = {}, ![b] = {}]
     /\ buffer' = [buffer EXCEPT ![a] = {}, ![b] = {}]
     /\ acked' = [acked EXCEPT ![a] = @ \cup buffer[a], ![b] = @ \cup buffer[b]]
     /\ pc' = [op |-> "merge", dir |-> a, other |-> b,
               segs |-> rb.meta \ ra.meta, newMeta |-> ra.meta]
     /\ UNCHANGED <<dirs, merging, crashes, inserted>>

\* one segment of the loop: its files are renamed into self's directory
\* when they exist, and it is pushed onto the in-memory meta
MergeMoveSegment(s) ==
  LET a == pc.dir
      b == pc.other
  IN /\ pc.op = "merge"
     /\ s \in pc.segs
     /\ files' = [files EXCEPT ![a] = @ \cup ({s} \cap files[b]), ![b] = @ \ {s}]
     /\ pc' = [pc EXCEPT !.segs = @ \ {s}, !.newMeta = @ \cup {s}]
     /\ UNCHANGED <<dirs, meta, segDocs, nextSeg, writer, writerSegs, buffer, merging, crashes, inserted, acked>>

\* after the loop: remove_dir_all(other), whose error is ignored; either
\* way the other index is consumed
MergeRemoveOther ==
  LET b == pc.other
  IN /\ pc.op = "merge"
     /\ pc.segs = {}
     /\ dirs' = dirs \ {b}
     /\ \/ /\ files' = [files EXCEPT ![b] = {}]
           /\ meta' = [meta EXCEPT ![b] = {}]
        \/ UNCHANGED <<files, meta>>
     /\ pc' = [pc EXCEPT !.op = "merge_write"]
     /\ UNCHANGED <<segDocs, nextSeg, writer, writerSegs, buffer, merging, crashes, inserted, acked>>

\* the end of merge: write self's meta.json, then open the index again and
\* prepare its writer
MergeWriteMeta ==
  LET a == pc.dir
      b == pc.other
  IN /\ pc.op = "merge_write"
     /\ meta' = [meta EXCEPT ![a] = pc.newMeta]
     /\ acked' = [acked EXCEPT ![a] = @ \cup acked[b], ![b] = {}]
     /\ writer' = [writer EXCEPT ![a] = TRUE]
     /\ writerSegs' = [writerSegs EXCEPT ![a] = pc.newMeta]
     /\ pc' = Idle
     /\ UNCHANGED <<dirs, files, segDocs, nextSeg, buffer, merging, crashes, inserted>>

\* stop: take the writer (it must be prepared) and wait for its merging
\* threads; the index, its uncommitted pages and its started merges go
Stop(d) ==
  /\ Ready(d)
  /\ writer[d]
  /\ writer' = [writer EXCEPT ![d] = FALSE]
  /\ writerSegs' = [writerSegs EXCEPT ![d] = {}]
  /\ buffer' = [buffer EXCEPT ![d] = {}]
  /\ merging' = {m \in merging : m.dir # d}
  /\ UNCHANGED <<dirs, files, meta, segDocs, nextSeg, pc, crashes, inserted, acked>>

\* the process dies: what is on disk stays, everything in memory is lost
Crash ==
  /\ crashes < MaxCrashes
  /\ CrashInOps \/ pc = Idle
  /\ crashes' = crashes + 1
  /\ writer' = [d \in Dirs |-> FALSE]
  /\ writerSegs' = [d \in Dirs |-> {}]
  /\ buffer' = [d \in Dirs |-> {}]
  /\ merging' = {}
  /\ pc' = Idle
  /\ UNCHANGED <<dirs, files, meta, segDocs, nextSeg, inserted, acked>>

Next ==
  \/ \E d \in Dirs :
       \/ PrepareWriter(d)
       \/ \E p \in Pages : Insert(d, p)
       \/ Commit(d)
       \/ MergeIntoMaxSegments(d)
       \/ \E S \in SUBSET SegIds : StartMerge(d, S) \/ DeleteSegments(d, S)
       \/ Stop(d)
       \/ \E b \in Dirs : MergeBegin(d, b)
  \/ \E m \in merging : EndMerge(m)
  \/ DeleteSaveMetas
  \/ \E s \in SegIds : MergeMoveSegment(s)
  \/ MergeRemoveOther
  \/ MergeWriteMeta
  \/ Crash

Spec == Init /\ [][Next]_vars

(***************************************************************************)
(* Properties.                                                            *)
(***************************************************************************)

\* Whenever no operation is in progress (in particular after a crash), the
\* pages that commit, delete_segments_by_id, the merges and merge(other)
\* acknowledged are exactly the pages the index opens with: every segment
\* meta.json lists has its files, the segments hold the acknowledged pages,
\* and a directory merge() consumed holds none (spec 4.3: an interrupted
\* operation leaves the prior committed state intact).
AcknowledgedDocsReadable ==
  pc = Idle =>
    /\ \A d \in dirs : meta[d] \subseteq files[d] /\ DocsOf(meta[d]) = acked[d]
    /\ \A d \in Dirs \ dirs : acked[d] = {}

====
