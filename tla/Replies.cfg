CONSTANTS
  Word = 8
  Base = 2
  LongMax = 999
  npackets = 2
  Latency = {TRUE, FALSE}
  Rest = 11
  Kinds = {"whole", "headless"}
  Start = 30
  Delays = {30}
  Jumps = {20}
  MaxNow = 30
  MaxJumps = 20
  MaxFaults = 1
  MaxRuns = 2
SPECIFICATION Spec
INVARIANTS TypeOK ProbesCheckOut FiguresSound NoAnswerLost
PROPERTIES TimeHonest RunEnds
CHECK_DEADLOCK FALSE
