\* Two readings of a scene of two gates, with losses, delays and all retries.
SPECIFICATION FairGateSpec
CONSTANTS
  Messages = {m1, m2}
  BRIDGE_MAX_RETRIES = 2
  Last = 2
  MaxRetries <- OneThenNone
CHECK_DEADLOCK FALSE
INVARIANTS
  TimersMatchCalls
  ClearedWasRead
PROPERTIES
  RpcSpec
  EverySendSettles
