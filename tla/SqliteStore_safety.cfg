\* One transaction, two RPCs in flight, three to four writes: enough for a
\* read, a foreign write, a delete and a re-creation before the commit, and
\* for two Commits of one transaction.  No subscriber (HubCap = 0).
CONSTANTS
  Paths = {"p", "q"}
  TxIds = {"t"}
  Calls = {c1, c2}
  None = None
  RpcWrites <- ChurnWrites
  Batches <- OneBatch
  TxOps <- TxWrites
  OddPaths = {}
  HubCap = 0
  MaxStamp = 3
SPECIFICATION Spec
SYMMETRY CallSymmetry
INVARIANTS
  TypeOK
  NoLeakedConnection
  CommitValidated
  RetrySafe
  RolledBackInvisible
PROPERTY ImplementsAtomicStore
