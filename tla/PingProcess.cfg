CONSTANTS
  SeqMod = 16
  Times = {0, 1, 2}
  Deadline = FALSE
  Preload = 1
  Quiet = FALSE
  UsingPingSocket = TRUE
  LingerTime = 1
  RttWait = 1
  OomLimit = 2
  SendErrors = {"ENOBUFS", "EINVAL", "EMSGSIZE"}
  Notices = {"notice"}
  MaxTransmit = 2
  MaxCopies = 1
  MaxNotices = 1
  MaxRuns = 3
SPECIFICATION ProcessFairSpec
INVARIANTS OnlyFirstRunSends
PROPERTIES EveryRunEnds
