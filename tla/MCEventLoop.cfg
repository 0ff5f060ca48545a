CONSTANTS
  Fd = {f1, f2}
  Ptr = {p1, p2}
  NEvent = 2
  Conds = {{"IN", "HUP"}, {"OUT"}}
  Timeouts = {2}
SPECIFICATION LiveSpec
INVARIANTS NoOldPointer CallbackHasCause
PROPERTIES Served WaitEnds
