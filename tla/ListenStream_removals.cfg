\* Deletes racing creations of one document, plain and in transactions, in
\* both kinds of target.
CONSTANTS
  Paths = {"p", "q"}
  TxIds = {"t"}
  Calls = {c1, c2}
  None = None
  RpcWrites <- ChurnP
  Batches <- NoRequests
  TxOps <- TxChurn
  OddPaths = {}
  HubCap = 8
  MaxStamp = 1
  Streams = {"s"}
  Targets = {"d", "q"}
  TargetPaths <- DocAndQuery
  QueryTargets = {"q"}
  Unmatched = {}
  PathOrder <- OrderPQ
  PageSize = 1
  SubCap = 1
SPECIFICATION ListenSpec
SYMMETRY CallSymmetry
INVARIANT RemovalsArrive
