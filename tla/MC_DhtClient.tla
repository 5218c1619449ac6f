---------------------------- MODULE MC_DhtClient ----------------------------
EXTENDS DhtClient

\* Two shards, one node each at start; a3 is a second replica of shard 0
\* and a4 the only node of a shard 2 that joins later.
MCAddrShard == [a \in {"a1", "a2", "a3", "a4"} |->
                  CASE a = "a1" -> 0 [] a = "a2" -> 1 [] a = "a3" -> 0 [] OTHER -> 2]

\* k1 stays on shard 0 whether there are two shards or three; k2 is on
\* shard 1 of two and on shard 0 of three.
MCHash == [k \in {"k1", "k2"} |-> IF k = "k1" THEN 0 ELSE 3]
=============================================================================
