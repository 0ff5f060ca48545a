CONSTANTS
  Proc = {p, q}
  MaxSegs = 3
SYMMETRY Interchangeable
SPECIFICATION PidSpec
INVARIANTS NoLostMapping PidfileNamesHolder
PROPERTIES OnlyOwnSegments
