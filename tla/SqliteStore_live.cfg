\* Clients may abandon calls and transactions; the server keeps running.
CONSTANTS
  Paths = {"p", "q"}
  TxIds = {"t"}
  Calls = {c1, c2}
  None = None
  RpcWrites <- UpsertOnly
  Batches <- GuardedBatch
  TxOps <- OneTxWrite
  OddPaths = {"q"}
  HubCap = 1
  MaxStamp = 2
SPECIFICATION LiveSpec
PROPERTIES
  TransactionsReclaimed
  ConnectionReturned
