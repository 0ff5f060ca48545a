CONSTANTS
  Cap = 2
  ElemSize = 2
  Byte = {0, 1}
SPECIFICATION LiveSpec
INVARIANTS TypeOK SlotExclusive SnapshotsStayGood
PROPERTIES ErrorsHonest PushedIntact FifoSpec Drains
