\* Two task wakers, and up to three wakers of the module alive at once.
SPECIFICATION Spec
CONSTANTS
  w1 = w1
  w2 = w2
  HostWakers = {w1, w2}
  s1 = s1
  s2 = s2
  s3 = s3
  Shells = {s1, s2, s3}
  b1 = b1
  b2 = b2
  b3 = b3
  Boxes = {b1, b2, b3}
  NoWaker = NoWaker
  Stack = Stack
  Null = Null
INVARIANTS
  Inv
  WakerOwnsItsBox
  NoBoxLeaked
  NoLostWakeup
  PendingIsPollable
PROPERTIES
  NoSecondResult
  AnswersOnce
  ResultDelivered
  WakersComeBack
CHECK_DEADLOCK FALSE
