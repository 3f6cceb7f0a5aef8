SPECIFICATION MCSpec
CONSTANTS
  ChosenScenarios = {"one run"}
  Null = Null
  c1 = c1  c2 = c2  t1 = t1  t2 = t2  p1 = p1
  k1 = k1  k2 = k2  m1 = m1  m2 = m2  h1 = h1  h2 = h2  i1 = i1  i2 = i2
  Chats <- MCChats
  Runs <- MCRuns
  Turns <- MCTurns
  PendingIds <- MCPendingIds
  Operations <- MCOperations
  Keys <- MCKeys
  Messages <- MCMessages
  Handlers <- MCHandlers
  Assignments <- MCAssignments
  InitialChats <- MCInitialChats
  FollowedChats <- MCFollowedChats
  SubscriberIds <- MCSubscriberIds
  EventKinds <- MCEventKinds
  EventSizes <- MCEventSizes
  ActiveRunsCap = 2
  PendingCap = 1
  IdempotencyCap = 2
  ReplayMaxEvents = 2
  ReplayMaxBytes = 20
  ReplayTTL = 20
  PendingTTL = 1
  SubscriberQueue = 1
  MaxEvents = 20
  MaxTime = 3
  RecoveryAttempts = 2
  TurnEnds = {"completed"}
  MaxDeltas = 1
  MaxRestarts = 1
PROPERTIES
  StreamOfVanishedRunEnds
CHECK_DEADLOCK FALSE
