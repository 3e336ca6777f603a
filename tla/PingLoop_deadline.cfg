CONSTANTS
  SeqMod = 4
  Times = {0, 2}
  Deadline = TRUE
  Preload = 3
  Quiet = TRUE
  UsingPingSocket = FALSE
  LingerTime = 2
  RttWait = 1
  OomLimit = 2
  SendErrors = {"EAGAIN", "EMSGSIZE"}
  Notices = {}
  MaxTransmit = 3
  MaxCopies = 1
  MaxNotices = 0
SPECIFICATION FairSpec
INVARIANTS TypeOK
PROPERTIES DeadlineEnds StopEnds
