--------------------------- MODULE MC_GraphAppend ---------------------------
(* append(other) between two stores of three nodes, ids 0..3 in blocks of *)
(* two and caches of one entry, so that every table of both evicts.       *)
EXTENDS GraphAppend

====
