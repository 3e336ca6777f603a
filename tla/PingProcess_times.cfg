CONSTANTS
  SeqMod = 16
  Times = {1}
  Deadline = FALSE
  Preload = 1
  Quiet = FALSE
  UsingPingSocket = TRUE
  LingerTime = 1
  RttWait = 1
  OomLimit = 2
  SendErrors = {}
  Notices = {}
  MaxTransmit = 2
  MaxCopies = 0
  MaxNotices = 0
  MaxRuns = 2
SPECIFICATION ProcessSpec
INVARIANTS RunSendsTimes
