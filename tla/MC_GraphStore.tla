--------------------------- MODULE MC_GraphStore ---------------------------
(* The legacy graph store with three nodes, ids 0..3 in blocks of two and *)
(* caches of one entry, so that every table evicts.                       *)
EXTENDS GraphStore

====
