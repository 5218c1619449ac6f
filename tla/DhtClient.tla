----------------------------- MODULE DhtClient -----------------------------
(***************************************************************************)
(* The sharded DHT client of crates/core/src/ampc/dht/client.rs and the    *)
(* shards it talks to.                                                     *)
(*                                                                         *)
(* Every element of Clients is one copy of Client (it derives Clone and is *)
(* cloned into every task of a job): each copy has its own shard map,      *)
(* and add_node changes only the copy it is called on.  A shard is a Raft  *)
(* group; the model takes the contract of spec section 4.8 (not under     *)
(* src/): each request applied to a shard is applied atomically, whichever *)
(* of its nodes received it.  md5 is replaced by a fixed hash per key.    *)
(*                                                                         *)
(* An RPC may fail in two ways: the request is lost (nothing happens), or  *)
(* the request is applied and the answer is lost; either way the caller   *)
(* sees Err.  When try_join_all fails, the sub-requests it drops may       *)
(* already be on the wire: they stay in the network, to be applied later   *)
(* or lost.                                                                *)
(***************************************************************************)
EXTENDS Integers, Sequences, SequencesExt, FiniteSets

CONSTANTS
  Clients,      \* copies of Client
  ShardIds,     \* shard ids (ShardId is a u64), naturals
  Addrs,        \* node addresses
  AddrShard,    \* the shard each address serves in the cluster
  InitMembers,  \* the DHT members Cluster::members() reports at Client::new
  Tables, Keys, Values,
  Hash,         \* key -> the first 8 bytes of md5(key), as a natural
  NoValue, Ok, Err, NoReply,
  MaxFailures,  \* bound: RPC failures in a behaviour
  MaxOps        \* bound: operations issued by all clients together

Replies == Values \cup {NoValue, Ok, Err, NoReply}

VARIABLES
  shards,      \* client -> shard id -> the addresses of its nodes, in push order
  shardOrder,  \* client -> shard ids in the order the shard map first saw them
  data,        \* shard -> table -> key -> value
  tables,      \* shard -> the tables it has
  op,          \* client -> the operation in progress
  reply,       \* client -> the answer of its last operation
  inflight,    \* batch_set sub-requests that outlive the call that sent them
  failures,    \* RPC failures so far
  ops          \* operations issued so far

vars == <<shards, shardOrder, data, tables, op, reply, inflight, failures, ops>>

Idle == [kind |-> "idle", table |-> NoValue, to |-> NoValue, key |-> NoValue,
         pending |-> <<>>, todo |-> <<>>]

(***************************************************************************)
(* Routing.                                                                *)
(***************************************************************************)

\* the set S of naturals as an increasing sequence
Ascending(S) == SetToSortSeq(S, <)

\* Client.ids: the keys of the BTreeMap shards, i.e. sorted
Ids(c) == Ascending({s \in ShardIds : shards[c][s] # <<>>})

\* Mutant: ids kept in the order the shards were inserted, not sorted.
ShardIdForKeyUnsorted(c, k) == shardOrder[c][(Hash[k] % Len(shardOrder[c])) + 1]

\* Client::shard_id_for_key: ids[hash % ids.len()] (the caller checks
\* that ids is nonempty first)
ShardIdForKey(c, k) == LET ids == Ids(c) IN ids[(Hash[k] % Len(ids)) + 1]

NoShards(c) == Ids(c) = <<>>

\* The BTreeMap<ShardId, Vec<_>> that batch_get and batch_set fill
GroupByShard(c, K) ==
  [s \in {ShardIdForKey(c, k) : k \in K} |-> {k \in K : ShardIdForKey(c, k) = s}]

\* every node of every shard, shards in id order: the table operations' loops
AllNodes(c) == FoldLeft(LAMBDA acc, s : acc \o shards[c][s], <<>>, Ids(c))

(***************************************************************************)
(* The shard side (spec section 4.8, modelled from the spec).             *)
(***************************************************************************)
ShardSet(s, t, f) ==
  /\ data' = [data EXCEPT ![s][t] = [k \in Keys |-> IF k \in DOMAIN f THEN f[k] ELSE @[k]]]
  /\ tables' = [tables EXCEPT ![s] = @ \cup {t}]

ShardApply(s, kind, t, to) ==
  CASE kind = "drop_table" ->
         /\ data' = [data EXCEPT ![s][t] = [k \in Keys |-> NoValue]]
         /\ tables' = [tables EXCEPT ![s] = @ \ {t}]
    [] kind = "create_table" ->
         /\ tables' = [tables EXCEPT ![s] = @ \cup {t}]
         /\ UNCHANGED data
    [] kind = "clone_table" /\ t \in tables[s] ->
         /\ data' = [data EXCEPT ![s][to] = data[s][t]]
         /\ tables' = [tables EXCEPT ![s] = @ \cup {to}]
    [] OTHER -> UNCHANGED <<data, tables>>

(***************************************************************************)
(* Operations.                                                             *)
(***************************************************************************)
Init ==
  /\ shards = [c \in Clients |-> [s \in ShardIds |->
                 SetToSeq({a \in InitMembers : AddrShard[a] = s})]]
  /\ shardOrder \in [Clients -> {p \in [1..Cardinality({AddrShard[a] : a \in InitMembers})
                                         -> {AddrShard[a] : a \in InitMembers}] :
                                   ToSet(p) = {AddrShard[a] : a \in InitMembers}}]
  /\ data = [s \in ShardIds |-> [t \in Tables |-> [k \in Keys |-> NoValue]]]
  /\ tables = [s \in ShardIds |-> {}]
  /\ op = [c \in Clients |-> Idle]
  /\ reply = [c \in Clients |-> NoReply]
  /\ inflight = {}
  /\ failures = 0
  /\ ops = 0

CanFail == failures < MaxFailures

Fail == failures' = failures + 1

\* a client copy starts an operation: it has none in progress
Begin(c) ==
  /\ op[c].kind = "idle"
  /\ ops < MaxOps
  /\ ops' = ops + 1

\* the operation of c returns r
Finish(c, r) ==
  /\ op' = [op EXCEPT ![c] = Idle]
  /\ reply' = [reply EXCEPT ![c] = r]

\* Shard::new and Shard::add_node: the node list, pushed onto
ShardAddNode(nodes, a) == Append(nodes, a)

\* Client::add_node: takes &mut self, so no operation of this copy is running
AddNode(c, a) ==
  LET s == AddrShard[a]
  IN /\ op[c].kind = "idle"
     /\ a \notin ToSet(shards[c][s])
     /\ shards' = [shards EXCEPT ![c][s] = ShardAddNode(@, a)]
     /\ shardOrder' = [shardOrder EXCEPT ![c] =
                         IF shards[c][s] = <<>> THEN Append(@, s) ELSE @]
     /\ UNCHANGED <<data, tables, op, reply, inflight, failures, ops>>

\* Client::get, up to the await: route the key (an error when there are
\* no shards), then send the request to the shard
Get(c, t, k) ==
  /\ Begin(c)
  /\ \/ NoShards(c) /\ Finish(c, Err)
     \/ ~NoShards(c) /\ UNCHANGED reply
        /\ op' = [op EXCEPT ![c] = [Idle EXCEPT !.kind = "get", !.table = t, !.key = k]]
  /\ UNCHANGED <<shards, shardOrder, data, tables, inflight, failures>>

\* the shard's answer to get, or an RPC error
GetReply(c) ==
  LET o == op[c]
  IN /\ o.kind = "get"
     /\ \/ Finish(c, data[ShardIdForKey(c, o.key)][o.table][o.key]) /\ UNCHANGED failures
        \/ CanFail /\ Fail /\ Finish(c, Err)
     /\ UNCHANGED <<shards, shardOrder, data, tables, inflight, ops>>

\* Client::set, up to the await: route the key, then send one write to
\* its shard; the answer is taken like one shard's answer to batch_set
Set(c, t, k, v) ==
  /\ Begin(c)
  /\ \/ NoShards(c) /\ Finish(c, Err)
     \/ ~NoShards(c) /\ UNCHANGED reply
        /\ op' = [op EXCEPT ![c] = [Idle EXCEPT !.kind = "set", !.table = t,
                                                !.pending = ShardIdForKey(c, k) :> (k :> v)]]
  /\ UNCHANGED <<shards, shardOrder, data, tables, inflight, failures>>

\* Client::batch_get, up to try_join_all: the keys grouped by shard; the
\* grouping loop fails on the first key when there are no shards
BatchGet(c, t, K) ==
  /\ Begin(c)
  /\ \/ K = {} /\ Finish(c, Ok)
     \/ K # {} /\ NoShards(c) /\ Finish(c, Err)
     \/ K # {} /\ ~NoShards(c) /\ UNCHANGED reply
        /\ op' = [op EXCEPT ![c] = [Idle EXCEPT !.kind = "batch_get", !.table = t,
                                                !.pending = GroupByShard(c, K)]]
  /\ UNCHANGED <<shards, shardOrder, data, tables, inflight, failures>>

\* one shard's answer to batch_get; the last one completes try_join_all,
\* which then flattens, sorts by key and dedups (the values read are not
\* kept: no property is about them); the first error ends it
BatchGetReply(c, s) ==
  LET o == op[c]
      rest == Restrict(o.pending, DOMAIN o.pending \ {s})
  IN /\ o.kind = "batch_get"
     /\ s \in DOMAIN o.pending
     /\ \/ DOMAIN rest # {} /\ op' = [op EXCEPT ![c].pending = rest]
                       /\ UNCHANGED <<reply, failures>>
        \/ DOMAIN rest = {} /\ Finish(c, Ok) /\ UNCHANGED failures
        \/ CanFail /\ Fail /\ Finish(c, Err)
     /\ UNCHANGED <<shards, shardOrder, data, tables, inflight, ops>>

\* Client::batch_set, up to try_join_all: the values grouped by shard
BatchSet(c, t, f) ==
  /\ Begin(c)
  /\ \/ DOMAIN f = {} /\ Finish(c, Ok)
     \/ DOMAIN f # {} /\ NoShards(c) /\ Finish(c, Err)
     \/ DOMAIN f # {} /\ ~NoShards(c) /\ UNCHANGED reply
        /\ op' = [op EXCEPT ![c] =
                    [Idle EXCEPT !.kind = "batch_set", !.table = t,
                                 !.pending = [s \in DOMAIN GroupByShard(c, DOMAIN f) |->
                                                Restrict(f, GroupByShard(c, DOMAIN f)[s])]]]
  /\ UNCHANGED <<shards, shardOrder, data, tables, inflight, failures>>

\* one shard's batch_set (or set's one write); the first error ends try_join_all, which drops
\* the other requests while they may still be in the network
BatchSetReply(c, s) ==
  LET o == op[c]
      rest == Restrict(o.pending, DOMAIN o.pending \ {s})
      dropped == {[shard |-> x, table |-> o.table, writes |-> rest[x]] : x \in DOMAIN rest}
  IN /\ o.kind \in {"set", "batch_set"}
     /\ s \in DOMAIN o.pending
     /\ \/ ShardSet(s, o.table, o.pending[s]) /\ UNCHANGED <<failures, inflight>>
           /\ \/ DOMAIN rest # {} /\ op' = [op EXCEPT ![c].pending = rest] /\ UNCHANGED reply
              \/ DOMAIN rest = {} /\ Finish(c, Ok)
        \/ CanFail /\ Fail /\ Finish(c, Err) /\ inflight' = inflight \cup dropped
           /\ UNCHANGED <<data, tables>>
        \/ CanFail /\ Fail /\ Finish(c, Err) /\ inflight' = inflight \cup dropped
           /\ ShardSet(s, o.table, o.pending[s])
     /\ UNCHANGED <<shards, shardOrder, ops>>

\* a dropped batch_set request reaches its shard after all
Deliver(m) ==
  /\ ShardSet(m.shard, m.table, m.writes)
  /\ inflight' = inflight \ {m}
  /\ UNCHANGED <<shards, shardOrder, op, reply, failures, ops>>

\* a dropped batch_set request never arrives
Lose(m) ==
  /\ inflight' = inflight \ {m}
  /\ UNCHANGED <<shards, shardOrder, data, tables, op, reply, failures, ops>>

\* Client::drop_table, create_table, clone_table and all_tables: a loop
\* over every node of every shard, one request after the other
TableOp(c, kind, t, to) ==
  /\ Begin(c)
  /\ \/ AllNodes(c) = <<>> /\ Finish(c, Ok)
     \/ AllNodes(c) # <<>> /\ UNCHANGED reply
        /\ op' = [op EXCEPT ![c] = [Idle EXCEPT !.kind = kind, !.table = t, !.to = to,
                                                !.todo = AllNodes(c)]]
  /\ UNCHANGED <<shards, shardOrder, data, tables, inflight, failures>>

TableKinds == {"drop_table", "create_table", "clone_table", "all_tables"}

\* one node answers; `?` returns the first error.  (all_tables only
\* reads: the list of tables it builds is not kept.)
TableOpStep(c) ==
  LET o == op[c]
      s == AddrShard[Head(o.todo)]
  IN /\ o.kind \in TableKinds
     /\ \/ /\ ShardApply(s, o.kind, o.table, o.to)
           /\ UNCHANGED failures
           /\ \/ Tail(o.todo) # <<>> /\ UNCHANGED reply
                 /\ op' = [op EXCEPT ![c].todo = Tail(o.todo)]
              \/ Tail(o.todo) = <<>> /\ Finish(c, Ok)
        \/ CanFail /\ Fail /\ Finish(c, Err) /\ UNCHANGED <<data, tables>>
        \/ CanFail /\ Fail /\ Finish(c, Err)
           /\ o.kind # "all_tables" /\ ShardApply(s, o.kind, o.table, o.to)
     /\ UNCHANGED <<shards, shardOrder, inflight, ops>>

Next ==
  \/ \E c \in Clients :
       \/ \E a \in Addrs : AddNode(c, a)
       \/ \E t \in Tables, k \in Keys : Get(c, t, k)
       \/ \E t \in Tables, k \in Keys, v \in Values : Set(c, t, k, v)
       \/ \E t \in Tables, K \in SUBSET Keys : BatchGet(c, t, K)
       \/ GetReply(c)
       \/ \E s \in ShardIds : BatchGetReply(c, s)
       \/ \E t \in Tables, K \in SUBSET Keys : \E f \in [K -> Values] : BatchSet(c, t, f)
       \/ \E s \in ShardIds : BatchSetReply(c, s)
       \/ \E t \in Tables :
            \/ \E kind \in TableKinds \ {"clone_table"} : TableOp(c, kind, t, NoValue)
            \/ \E to \in Tables : TableOp(c, "clone_table", t, to)
       \/ TableOpStep(c)
  \/ \E m \in inflight : Deliver(m) \/ Lose(m)

Spec == Init /\ [][Next]_vars

(***************************************************************************)
(* Properties.                                                             *)
(***************************************************************************)

\* The map a caller sees: each key read through the shard map of one copy
\* of the client.
Observer == CHOOSE c \in Clients : TRUE

ObservedKV ==
  IF NoShards(Observer) THEN [t \in Tables |-> [k \in Keys |-> NoValue]]
  ELSE LET route == [k \in Keys |-> ShardIdForKey(Observer, k)]
       IN [t \in Tables |-> [k \in Keys |-> data[route[k]][t][k]]]

\* the writes c's call still owes: the parts of set and batch_set whose
\* shards have not answered, and for drop_table the keys of the shards
\* the loop over nodes has not reached
OwedWrites(c) ==
  LET o == op[c]
      untouched == {s \in ShardIds : shards[c][s] # <<>> /\ ToSet(shards[c][s]) \subseteq ToSet(o.todo)}
      K == CASE o.kind \in {"set", "batch_set"} -> UNION {DOMAIN o.pending[s] : s \in DOMAIN o.pending}
             [] o.kind = "drop_table" -> {k \in Keys : ShardIdForKey(c, k) \in untouched}
             [] OTHER -> {}
  IN [k \in K |-> IF o.kind = "drop_table" THEN NoValue
                  ELSE o.pending[CHOOSE s \in DOMAIN o.pending : k \in DOMAIN o.pending[s]][k]]

ObservedPend ==
  [c \in Clients |-> [kind |-> op[c].kind, table |-> op[c].table, to |-> op[c].to,
                      key |-> op[c].key, w |-> OwedWrites(c)]]

\* the writes of the batch_set requests still in the network
ObservedInFlight == UNION {{<<m.table, k, m.writes[k]>> : k \in DOMAIN m.writes} : m \in inflight}

KV == INSTANCE KVStore
        WITH kv <- ObservedKV, pend <- ObservedPend, linger <- ObservedInFlight

\* Every copy of the client, whatever add_node calls, failed RPCs and
\* late batch_set requests it meets, behaves as one per-key linearizable
\* map (spec sections 1, 5 and 7): a key changes only by a write of a call
\* between its call and its return, or late by a request of a call that
\* returned Err; set, batch_set and drop_table return Ok only once every
\* key they owe has taken its write; get answers the key's value.
ImplementsKVStore == KV!Spec

=============================================================================
