CONSTANTS
  Listener = {l}
  Client = {a, b}
  MaxFd = 3
  MaxPending = 1
  StdinOpen = TRUE
  MaxErrors = 1
SYMMETRY Interchangeable
SPECIFICATION LogSpec
INVARIANTS TypeOK OwnsDescriptor OthersKept NoLeak LogKeepsOneFile
