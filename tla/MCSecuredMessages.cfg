SPECIFICATION MCSpec
CONSTANTS
  MaxHeader = 64
  Accepts = {60}
  ClientId <- MCClientId
  ServerId <- MCServerId
  IdCtx <- MCIdCtx
  Requests <- MCRequests
  Answers <- MCAnswers
  Multicasts <- MCMulticasts
  Strays <- MCStrays
  MaxRequests = 2
  MaxRetrans = 1
  MaxMid <- MCMaxMid
INVARIANTS MessagesArrive  HandlersSound
 
CHECK_DEADLOCK FALSE
