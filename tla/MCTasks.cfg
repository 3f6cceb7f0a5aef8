SPECIFICATION MCSpec
CONSTANTS
  ChosenScenarios = {"start", "resume", "interrupt", "auth", "two tasks", "requests",
                     "answers", "forgotten", "limit", "stream"}
  Null = Null
  Hook = Hook
  t1 = t1  t2 = t2  k1 = k1  k2 = k2  c1 = c1  c2 = c2  c3 = c3  c4 = c4  i1 = i1  i2 = i2
  r1 = r1  r2 = r2  r3 = r3  s1 = s1  q1 = q1  q2 = q2  q3 = q3  x = x  y = y  n1 = n1  n2 = n2
  Tasks <- MCTaskIds
  Keys <- MCKeys
  Clients <- MCClients
  Commands <- MCCommands
  Interrupters <- MCInterrupters
  Targets <- MCTargets
  Responders <- MCResponders
  Answers <- MCAnswers
  Requests <- MCRequests
  ResponseIDs <- MCResponseIDs
  Connections <- MCConnections
  Streams <- MCStreams
  Cursors <- MCCursors
  SubscriberQueue = 2
  MaxEvents = 3
  TurnStatuses = {"completed", "other"}
  MaxActiveRequests = 2
  MaxUnsupported = 1
INVARIANTS
  TasksTypeOK
  SessionBelongsToUnendedTask
  RequestIsResolvedOnce
  OpenTaskStreamMissesNothing
PROPERTIES
  StartsComeToAnEnd
CHECK_DEADLOCK FALSE
