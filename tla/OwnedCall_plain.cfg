\* Two calls of a method that takes a trait handle and a String.
SPECIFICATION SafeSpec
CONSTANTS
  c1 = c1
  c2 = c2
  Calls = {c1, c2}
  NumArgs = 2
  Kind <- TokenAndPlain
INVARIANTS
  ReleasedAtMostOnce
  IInv
CHECK_DEADLOCK FALSE
