\* Does wake consume the waker state, as its documentation says?
SPECIFICATION SafeSpec
CONSTANTS
  w1 = w1
  w2 = w2
  HostWakers = {w1, w2}
  s1 = s1
  s2 = s2
  s3 = s3
  s4 = s4
  Shells = {s1, s2, s3, s4}
  b1 = b1
  b2 = b2
  b3 = b3
  b4 = b4
  Boxes = {b1, b2, b3, b4}
  NoWaker = NoWaker
  Stack = Stack
  Null = Null
SYMMETRY Addresses
INVARIANTS
  WakeConsumes
CHECK_DEADLOCK FALSE
