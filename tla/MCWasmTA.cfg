CONSTANTS
  ULongBits = 6
  ARGS_NUMBER = 3
  KEY_SIZE = 2
  ARG_SIZE = 2
  VAL_SIZE = 3
  RESPONSE_SIZE = 3
  NULL = NULL
  KeepAlive = FALSE
  TaHeapBlocks = 5
  TaMayPanic = FALSE
  HostArgs <- MCHostArgs
  HostValues <- MCHostValues
SPECIFICATION Spec
PROPERTY DispatcherRefinement
