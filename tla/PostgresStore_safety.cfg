\* Two connections, batches that lock two rows in opposite orders, one
\* Firestore transaction; a document is written, deleted and created again
\* between a read and its commit.
CONSTANTS
  p = p
  q = q
  Paths = {p, q}
  TxIds = {t}
  Calls = {c1, c2}
  None = None
  RpcWrites <- ChurnWrites
  Batches <- CrossedBatches
  TxOps <- TxWrites
  Subscribes = FALSE
  FeedCap = 1
  MaxLosses = 0
  MaxStamp = 3
\* Requests stop at the bound, so the model may come to rest.
CHECK_DEADLOCK FALSE
SPECIFICATION LiveSpec
INVARIANTS
  LocksHeld
  PgCommitValidated
PROPERTIES
  PgImplementsAtomicStore
  PgCallsEnd
