SPECIFICATION MCSpec
CONSTANTS
  Null = Null
  Other = Other
  ServerLoop = ServerLoop
  s1 = s1  s2 = s2  s3 = s3  s4 = s4  s5 = s5  s6 = s6  s7 = s7
  t1 = t1  t2 = t2  q1 = q1  q2 = q2  q3 = q3  q4 = q4  g1 = g1  g2 = g2
  Calls <- MCCalls
  Threads <- MCThreads
  ServerRequests <- MCServerRequests
  Responders <- MCResponders
  MethodOf <- MCMethodOf
  ThreadOf <- MCThreadOf
  KindOf <- MCKindOf
  RequestsCap = 1
  NotificationsCap = 1
  ForwardedCap = 1
INVARIANTS
  ResultFits
  UncertainCallCloses
  AnsweredAtMostOnce
  UnansweredRequestHasOwner
  MismatchMeansConflict
PROPERTIES
  CallsReturn
  ClosedConnectionStops
CHECK_DEADLOCK FALSE
