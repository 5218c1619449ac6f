------------------------------ MODULE KVStore ------------------------------
(***************************************************************************)
(* What the sharded DHT promises its callers (spec sections 1, 3, 5, 7):  *)
(* per table, a map from keys to values that is linearizable per key.    *)
(*                                                                         *)
(* Every operation is called, takes effect and returns.  An operation     *)
(* that writes holds the writes it has still to make (w); each key takes *)
(* its write at some moment between call and return, keys independently *)
(* (no atomicity across keys, spec 5).  An operation returns Ok only once *)
(* all its writes are made.  One that returns Err may leave some of them *)
(* in flight (spec 7: partial effects stay visible): those may still land *)
(* later or never.  A read returns the value the key holds at its moment. *)
(* Table existence is not part of the contract; clone_table copies values *)
(* key by key and promises nothing about when it is done.                 *)
(***************************************************************************)
EXTENDS FiniteSets, Functions

CONSTANTS Clients, Tables, Keys, Values, NoValue, Ok, Err, NoReply

Replies == Values \cup {NoValue, Ok, Err, NoReply}

VARIABLES
  kv,      \* table -> key -> value
  reply,   \* client -> the answer of its last operation
  pend,    \* client -> the operation it has called and not returned from
  linger   \* <<table, key, value>> writes of failed calls still in flight

NoOp == [kind |-> "idle", table |-> NoValue, to |-> NoValue, key |-> NoValue, w |-> <<>>]

\* the operations a caller may start; a drop_table is a NoValue write to
\* every key of its table
Operations ==
  LET call(kind, t, to, k, w) == [kind |-> kind, table |-> t, to |-> to, key |-> k, w |-> w]
  IN  {call("get", t, NoValue, k, <<>>) : t \in Tables, k \in Keys}
   \cup {call(kind, t, NoValue, NoValue, <<>>) :
           kind \in {"batch_get", "create_table", "all_tables"}, t \in Tables}
   \cup {call("clone_table", t, to, NoValue, <<>>) : t, to \in Tables}
   \cup {call("drop_table", t, NoValue, NoValue, [k \in Keys |-> NoValue]) : t \in Tables}
   \cup {call("set", t, NoValue, NoValue, f) :
           t \in Tables, f \in UNION {[{k} -> Values] : k \in Keys}}
   \cup {call("batch_set", t, NoValue, NoValue, f) :
           t \in Tables, f \in UNION {[K -> Values] : K \in SUBSET Keys \ {{}}}}

Init ==
  /\ kv = [t \in Tables |-> [k \in Keys |-> NoValue]]
  /\ reply = [c \in Clients |-> NoReply]
  /\ pend = [c \in Clients |-> NoOp]
  /\ linger = {}

Busy(c) == pend[c].kind # "idle"

\* c calls an operation
Call(c) ==
  LET next == pend'
  IN /\ ~Busy(c)
     /\ next[c] \in Operations
     /\ \A d \in Clients \ {c} : next[d] = pend[d]
     /\ UNCHANGED <<kv, reply, linger>>

\* c calls an operation that has nothing to do and returns at once
Immediate(c) ==
  /\ ~Busy(c)
  /\ \E r \in {Ok, Err} : reply' = [reply EXCEPT ![c] = r]
  /\ UNCHANGED <<kv, pend, linger>>

\* the values key k of table u may hold after a step of c's operation o:
\* its own, the write o still owes it, a drop's NoValue (a drop may clear
\* a key again), or the source table's value for a clone
Reachable(o, u, k) ==
  {kv[u][k]}
  \cup (IF u = o.table /\ k \in DOMAIN o.w THEN {o.w[k]} ELSE {})
  \cup (IF u = o.table /\ o.kind = "drop_table" THEN {NoValue} ELSE {})
  \cup (IF u = o.to /\ o.kind = "clone_table" THEN {kv[o.table][k]} ELSE {})

\* a step of c's operation: some keys take effect; then it goes on, returns
\* (Ok only with every write made; a get answers the value it reads), or
\* fails, leaving any of its remaining writes in flight
Step(c) ==
  LET o == pend[c]
      next == kv'
  IN /\ Busy(c)
     /\ \A u \in Tables, k \in Keys : next[u][k] \in Reachable(o, u, k)
     /\ \E R \in SUBSET DOMAIN o.w :
          /\ \A k \in DOMAIN o.w \ R : next[o.table][k] = o.w[k]
          /\ LET rest == Restrict(o.w, R)
             IN \/ /\ pend' = [pend EXCEPT ![c].w = rest]
                   /\ UNCHANGED <<reply, linger>>
                \/ /\ R = {}
                   /\ pend' = [pend EXCEPT ![c] = NoOp]
                   /\ reply' = [reply EXCEPT ![c] =
                                  IF o.kind = "get" THEN kv[o.table][o.key] ELSE Ok]
                   /\ UNCHANGED linger
                \/ /\ pend' = [pend EXCEPT ![c] = NoOp]
                   /\ reply' = [reply EXCEPT ![c] = Err]
                   /\ \E L \in SUBSET R :
                        linger' = linger \cup {<<o.table, k, rest[k]>> : k \in L}

\* writes in flight land or are lost
Land ==
  LET next == kv'
  IN
  /\ linger # {}
  /\ \A u \in Tables, k \in Keys :
       next[u][k] \in {kv[u][k]} \cup {x[3] : x \in {y \in linger : y[1] = u /\ y[2] = k}}
  /\ linger' \subseteq linger
  /\ UNCHANGED <<reply, pend>>

Next ==
  \/ \E c \in Clients : Call(c) \/ Immediate(c) \/ Step(c)
  \/ Land

Spec == Init /\ [][Next]_<<kv, reply, pend, linger>>

=============================================================================
