SPECIFICATION MCSpec
CONSTANTS
  Null = Null
  c1 = c1  c2 = c2  r1 = r1  r2 = r2  p1 = p1  p2 = p2  p3 = p3
  o1 = o1  o2 = o2  k1 = k1  k2 = k2  i1 = i1  i2 = i2  status = status
  Chats <- MCChats
  Runs <- MCRuns
  PendingIds <- MCPendingIds
  Operations <- MCOperations
  Keys <- MCKeys
  SubscriberIds <- MCSubscriberIds
  EventKinds <- MCEventKinds
  EventSizes <- MCEventSizes
  ActiveRunsCap = 2
  PendingCap = 2
  IdempotencyCap = 2
  ReplayMaxEvents = 2
  ReplayMaxBytes = 3
  ReplayTTL = 2
  PendingTTL = 1
  SubscriberQueue = 1
  MaxEvents = 4
  MaxTime = 4
INVARIANTS
  TypeOK
  ActiveRunCapacityHeld
  OpenSubscriberMissesNothing
  ReplayHasNoSilentGap
PROPERTIES
  SuccessIsRemembered
CHECK_DEADLOCK FALSE
