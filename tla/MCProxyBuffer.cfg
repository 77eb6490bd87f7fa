CONSTANTS
  ULongBits = 6
  ARGS_NUMBER = 3
  KEY_SIZE = 2
  ARG_SIZE = 2
  VAL_SIZE = 3
  RESPONSE_SIZE = 3
  NULL = NULL
  NoMsg = NoMsg
  NoReq = NoReq
  GetAnswerKinds = {"get_state_response"}
  KeepAlive = FALSE
  TaHeapBlocks = 5
  TaMayPanic = FALSE
  Callers = {c1, c2}
  MaxInvocations = 1
  Keys <- MCKeys
  StoredValues <- MCConcurrentStored
  Requests <- MCConcurrentRequests
SPECIFICATION Spec
INVARIANT OutputBufferLive
