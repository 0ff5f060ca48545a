CONSTANTS
  Room = 2
  Total = 6
  MaxIO = 3
  Conn = "conn"
  Other = "other"
  NEvent = 2
SPECIFICATION LiveServerSpec
INVARIANTS StreamIntact EofIsTheEnd
PROPERTIES CallbackFindsData AllArrives
