CONSTANTS
  R = 4
  RequestLen <- Requests
  MaxRequest = 1
  Chunk = 2
  N = 4
  BodyLen <- Replies
  HeaderLen = 2
  MaxBody = 1
  Capacity = 2
  SendMayFail = TRUE
  MemoryRunsOut = TRUE
SPECIFICATION FairDialogue
INVARIANT DialogueTypeOK
INVARIANT StreamIntact
INVARIANT WriterWillWake
INVARIANT RequestsIntact
INVARIANT NothingStranded
PROPERTY RequestsReachPool
PROPERTY AnswersReachClient
