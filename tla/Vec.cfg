CONSTANTS
  Vectors = {v, w}
  Blocks = {b1, b2}
  Elements = {0, 1}
  Garbage = 0
  StartCapacity = 1
  MaxCount = 3
  Null = Null
SPECIFICATION Spec
SYMMETRY Symmetry
INVARIANTS CapacityTrue BlocksOwned PointerLive
PROPERTIES GivenUntouched ImplementsArrays PushesAppend
