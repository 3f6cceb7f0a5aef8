SPECIFICATION MCSpec
CONSTANTS
  Null = Null
  c1 = c1  c2 = c2  t1 = t1  t2 = t2  p1 = p1
  k1 = k1  k2 = k2  k3 = k3  m1 = m1  m2 = m2  m3 = m3  h1 = h1  h2 = h2  h3 = h3
  Chats <- MCChats
  Runs <- MCRuns
  Turns <- MCTurns
  PendingIds <- MCPendingIds
  Operations <- MCOperations
  Keys <- MCKeys
  Messages <- MCMessages
  Handlers <- MCHandlers
  Assignments <- MCAssignments
  InitialChats <- MCInitialChats
  SubscriberIds <- MCSubscriberIds
  EventKinds <- MCEventKinds
  EventSizes <- MCEventSizes
  ActiveRunsCap = 2
  PendingCap = 1
  IdempotencyCap = 3
  ReplayMaxEvents = 20
  ReplayMaxBytes = 20
  ReplayTTL = 20
  PendingTTL = 1
  SubscriberQueue = 1
  MaxEvents = 20
  MaxTime = 3
  RecoveryAttempts = 2
  TurnEnds = {"completed"}
  MaxDeltas = 0
  MaxRestarts = 1
INVARIANTS
  ReservationHasOwner
  OneTurnPerRequest
  ClaimHasOwner
  ResolvedMeansAnswered
  AnnouncedRequestIsAnswerable
PROPERTIES
  InterruptSurvivesResponse
CHECK_DEADLOCK FALSE
