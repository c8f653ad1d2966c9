CONSTANTS
  a1 = a1
  w1 = w1
  p1 = p1
  p2 = p2
  Agents = {a1}
  Absent = Absent
  None = None
  MissingStamps = FALSE
  Clicks = {p1, p2}
  Windows = {w1}
  NoWindow = NoWindow
  Cases <- MCRace
  MaxEvents = 0
SPECIFICATION Spec
INVARIANT OneTerminalPerClaim
CHECK_DEADLOCK FALSE
