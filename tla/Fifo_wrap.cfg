SPECIFICATION Spec
CONSTANTS
  Bytes = {b1, b2}
  Length = 4
  Word = 8
  MaxCall = 2
INVARIANTS
  TypeOK
  NeverOverrun
  FrontHeld
PROPERTIES
  QueuePromise
