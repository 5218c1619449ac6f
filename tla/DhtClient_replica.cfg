CONSTANTS
  Clients = {c1, c2}
  ShardIds = {0, 1}
  Addrs = {"a1", "a2", "a3"}
  AddrShard <- MCAddrShard
  InitMembers = {"a1", "a2"}
  Tables = {t1, t2}
  Keys = {"k1", "k2"}
  Values = {v1}
  Hash <- MCHash
  NoValue = NoValue
  Ok = Ok
  Err = Err
  NoReply = NoReply
  MaxFailures = 1
  MaxOps = 2
SPECIFICATION Spec

PROPERTIES ImplementsKVStore
CHECK_DEADLOCK FALSE
