SPECIFICATION Spec
CONSTANTS
  Calls = 2
  RequestSize <- Requests
  ReplySize <- Replies
  Header = 2
  ServerBuf = 3
  ClientBuf = 4
  Sessions = 5
  MaxBreaks = 2
  MaxStray = 4
INVARIANT SuccessIsExecuted
