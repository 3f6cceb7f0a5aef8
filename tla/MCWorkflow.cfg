SPECIFICATION MCSpec
CONSTANTS
  ChosenScenarios = {"update", "hot update", "reload", "failures", "failed deletion", "first", "crash",
                     "force", "follow", "delete", "forced delete", "close", "backoff"}
  Null = Null
  W = W  v1 = v1  v2 = v2  v3 = v3  s1 = s1  s2 = s2  n1 = n1  n2 = n2  h1 = h1  h2 = h2  h3 = h3
  Empty = Empty  Torn = Torn  Remains = Remains  Absent = Absent  Ended = Ended
  Workflow = W
  SessionGroups <- MCSessionGroups
  Packages <- MCPackages
  Supervisors <- MCSupervisors
  Connections <- MCConnections
  Handlers <- MCHandlers
  Users <- MCHandlers
  Callers <- MCHandlers
  Epochs <- MCEpochs
  UpdateKind <- MCUpdateKind
  Assignments <- MCAssignments
  MCPReloader = TRUE
  RestartFailureThreshold = 2
  MaxFailures = 2
  MaxFaults = 1
INVARIANTS
  DownMeansGone
  EntriesAreRegistered
  SuccessIsWhole
  PackageSurvives
  RecordAgreesWithMetadata
PROPERTIES
  OneAppServerPerWorkflow
  RuntimeReplacedOnlyByRestart
  
CHECK_DEADLOCK FALSE
