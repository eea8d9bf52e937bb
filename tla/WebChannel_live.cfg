\* The opening POST carries a request; the session may end at any time.
\* A session ends for good, so a behaviour may stop.
CONSTANTS
  Opening <- Asking
  Rids = {1}
  Bodies <- OneBody
  Garbled = {"bad"}
  Posts = {x1}
  Conns = {k1}
  RecvCap = 1
  SendCap = 1
  RidWindow = 2
  MaxMsgs = 2
  MaxNoops = 1
SPECIFICATION WcLiveSpec
CHECK_DEADLOCK FALSE
PROPERTIES
  ChunksReachBackChannels
  SessionTornDown
