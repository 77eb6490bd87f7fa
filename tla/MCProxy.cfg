CONSTANTS
  ULongBits = 6
  ARGS_NUMBER = 3
  KEY_SIZE = 2
  ARG_SIZE = 2
  VAL_SIZE = 3
  RESPONSE_SIZE = 3
  NULL = NULL
  NoMsg = NoMsg
  NoReq = NoReq
  GetAnswerKinds = {"get_state_response"}
  KeepAlive = FALSE
  TaHeapBlocks = 5
  TaMayPanic = TRUE
  Callers = {c1}
  MaxInvocations = 3
  Keys <- MCTwoKeys
  StoredValues <- MCStoredValues
  Requests <- MCTwoKeyRequests
SPECIFICATION FairSpec
INVARIANT TypeOK
INVARIANT RequestsBelongToInvocation
INVARIANT PendingExcludesResponse
INVARIANT MemoryBounded
PROPERTY LedgerRefinement
PROPERTY InvocationsEnd
