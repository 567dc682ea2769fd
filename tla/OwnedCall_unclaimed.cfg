\* The same method: is an unclaimed String wire released by the caller?
SPECIFICATION SafeSpec
CONSTANTS
  c1 = c1
  Calls = {c1}
  NumArgs = 2
  Kind <- TokenAndPlain
INVARIANTS
  UnclaimedWireReleased
CHECK_DEADLOCK FALSE
