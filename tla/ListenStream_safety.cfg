\* Two streams that come and go.  Creations and updates: plain, and in a
\* batch that may be rolled back after an upsert; channels and pages of one.
CONSTANTS
  Paths = {"p", "q"}
  TxIds = {}
  Calls = {c1, c2}
  None = None
  RpcWrites <- UpsertPQ
  Batches <- UpsertBatches
  TxOps <- NoRequests
  OddPaths = {}
  HubCap = 8
  MaxStamp = 2
  Streams = {s1, s2}
  Targets = {"q"}
  TargetPaths <- DocAndQuery
  QueryTargets = {"q"}
  Unmatched = {}
  PathOrder <- OrderPQ
  PageSize = 1
  SubCap = 1
SPECIFICATION ListenSpec
SYMMETRY StreamSymmetry
INVARIANTS
  ListenTypeOK
  NoSendOnClosed
  WritesArrive
