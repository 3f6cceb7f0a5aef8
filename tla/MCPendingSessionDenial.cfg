SPECIFICATION PendingSpec
CONSTANTS
  in1 = in1  in2 = in2  out1 = out1
  Types = {"permissions"}
  Requests <- MCRequests
  Narrated <- MCNarrated
  Values <- MCValues
  UnknownID = UnknownID
  MaxChosen = 2
  MaxValues = 1
  MaxChunk = 2
  MaxRepeats = 2
  CwdPaths <- MCCwdPaths
  BadTokens <- MCBadTokens
  NotJSON <- MCNotJSON
  TooLarge <- MCTooLarge
  NoContent = ""
  MaxApprovalDecisionOptions = 4
  MaxApprovalSecurityMetadataEntries = 3
  MaxPermissionAtoms = 4
  MaxToolUserInputQuestions = 2
  MaxToolUserInputOptionsPerQuestion = 2
  MaxToolUserInputAnswersPerQuestion = 1
  MaxDisplayPayload = 2
  Segments <- MCSegments
  Length <- MCLength
  MinSegment = 2
  MaxSegment = 3
  MaxCarry = 4
  TextLength = 4
INVARIANT DenialIsAccepted
CHECK_DEADLOCK FALSE
