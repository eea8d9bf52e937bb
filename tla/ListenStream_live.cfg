\* Creations and updates, with a registry channel and pages of one: changes
\* are dropped, and clients RESET.
CONSTANTS
  Paths = {"p", "q"}
  TxIds = {}
  Calls = {c1, c2}
  None = None
  RpcWrites <- UpsertPQ
  Batches <- NoRequests
  TxOps <- NoRequests
  OddPaths = {}
  HubCap = 8
  MaxStamp = 2
  Streams = {"s"}
  Targets = {"d", "q"}
  TargetPaths <- DocAndQuery
  QueryTargets = {"q"}
  Unmatched = {}
  PathOrder <- OrderPQ
  PageSize = 1
  SubCap = 1
SPECIFICATION ListenLiveSpec
PROPERTY ViewsCatchUp
