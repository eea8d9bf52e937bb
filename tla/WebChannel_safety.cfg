\* An opening POST whose request may be answered before the connect chunk, and
\* two back channels that send keep-alives while the pump numbers responses.
\* A session ends for good, so a behaviour may stop.
CONSTANTS
  Opening <- Asking
  Rids = {1, 2}
  Bodies <- TwoBodies
  Garbled = {"bad"}
  Posts = {x1}
  Conns = {k1, k2}
  RecvCap = 1
  SendCap = 1
  RidWindow = 1
  MaxMsgs = 2
  MaxNoops = 1
SPECIFICATION WcSpec
SYMMETRY SlotSymmetry
CHECK_DEADLOCK FALSE
INVARIANTS
  WcTypeOK
  UniqueSeqs
  NoMessageSkipped
  RequestOnce
