CONSTANTS
  Cap = 2
  ElemSize = 2
  Byte = {0, 1}
  MaxBuffered = 3
  KeepsOrder = TRUE
SPECIFICATION Spec
INVARIANTS NoStoreIntoUnread
PROPERTIES FifoSpec
