\* One call of a method with three arguments by value, to its end.
SPECIFICATION Spec
CONSTANTS
  c1 = c1
  Calls = {c1}
  NumArgs = 3
  Kind <- ThreeHooked
INVARIANTS
  OneOwner
  NothingLost
  RejectedCallRetainsNothing
  SettledAtReturn
PROPERTIES
  FollowsProtocol
  AwaitsOnce
  EveryArgumentReleased
CHECK_DEADLOCK FALSE
