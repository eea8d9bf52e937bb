\* Two writers, and a feed that is lost once and may be cancelled.
CONSTANTS
  p = p
  q = q
  Paths = {p, q}
  TxIds = {}
  Calls = {c1, c2}
  None = None
  RpcWrites <- ChurnWrites
  Batches <- CrossedBatches
  TxOps <- NoBatches
  Subscribes = TRUE
  FeedCap = 1
  MaxLosses = 1
  MaxStamp = 3
\* Requests stop at the bound, so the model may come to rest.
CHECK_DEADLOCK FALSE
SPECIFICATION LiveSpec
INVARIANTS
  PgTypeOK
  FeedFaithful
PROPERTY FeedCatchesUp
