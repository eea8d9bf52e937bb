\* Creations and updates only: one transaction against one plain writer.
CONSTANTS
  p = p
  q = q
  Paths = {p, q}
  TxIds = {t}
  Calls = {c1, c2}
  None = None
  RpcWrites <- UpsertOnly
  Batches <- NoBatches
  TxOps <- OneTxWrite
  Subscribes = FALSE
  FeedCap = 1
  MaxLosses = 0
  MaxStamp = 3
SPECIFICATION Spec
INVARIANT PgSerializable
