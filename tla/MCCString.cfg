CONSTANTS
  ULongBits = 6
  TestChars = {"0", "1", "5", "9", "x"}
  MaxStrLen = 3
  OutCap = 4
SPECIFICATION Spec
INVARIANT AtoulMatchesReference
INVARIANT UltoaRoundTrip
