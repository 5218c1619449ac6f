------------------------- MODULE MC_EdgeStoreWriter -------------------------
(* The edge store writer over three node ids and two labels.  Node ids 2  *)
(* and 3 under sort node 1 let a spill separate two edges of one pair.    *)
EXTENDS EdgeStoreWriter

MCNodes == 1..3

====
