CONSTANTS
  Section = {"s", "t"}
  Key = {"j", "k", "[", "toolong"}
  LongKey = {"toolong"}
  Bracketed = {"["}
  Text <- Texts
  MaxValueLen = 2
  Defval <- Default
  Calls <- Asked
  FileLine <- Written
  MaxLines = 4
SPECIFICATION ConfSpec
CHECK_DEADLOCK FALSE
INVARIANTS FindsTheSetting
