------------------------- MODULE MC_EdgeStoreReader -------------------------
(* Two segments of at most two docs.  Pages 1 and 2 share host 10, so     *)
(* <<1, 3>> and <<2, 3>> are one host edge and host ids repeat; offsets   *)
(* and limits reach past max_doc and come in either order.                *)
EXTENDS EdgeStoreReader

MCEdges == {<<1, 2>>, <<1, 3>>, <<2, 3>>}

MCHostOf == [p \in 1..3 |-> IF p = 3 THEN 20 ELSE 10]
====
