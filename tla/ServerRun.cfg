\* Two calls of each kind and two sessions, beside start and shutdown.
SPECIFICATION LiveSpec
CONSTANTS
  Configs <- MCConfigs
  MaxPort = 2
  MaxCalls = 2
  Sessions = {s1, s2}
INVARIANTS
  DbUsersGone
  NoListenerLeft
  CleanShutdown
PROPERTY ShutsDown
CHECK_DEADLOCK FALSE
