CONSTANTS
  Cap = 3
  Byte = {0, 1}
  Modulus = 16
  WriteSizes = {0, 1, 2, 3}
  ReadSizes = {0, 1, 2, 4}
  AsksRoom = TRUE
SPECIFICATION Spec
INVARIANTS RoomAddsUp RunsDisjoint
PROPERTIES LengthsAgree FifoSpec
