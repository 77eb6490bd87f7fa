CONSTANTS
  ULongBits = 6
  ARGS_NUMBER = 3
  KEY_SIZE = 2
  ARG_SIZE = 2
  VAL_SIZE = 3
  RESPONSE_SIZE = 3
  TestArgs <- MCTestArgs
SPECIFICATION Spec
INVARIANT GetArgMatchesSpec
