CONSTANTS
  Cap = 1
  ElemSize = 2
  Byte = {0, 1}
  MaxBuffered = 3
  KeepsOrder = FALSE
SPECIFICATION Spec
PROPERTIES FifoSpec
