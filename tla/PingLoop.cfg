CONSTANTS
  SeqMod = 16
  Times = {0, 3}
  Deadline = FALSE
  Preload = 2
  Quiet = FALSE
  UsingPingSocket = TRUE
  LingerTime = 2
  RttWait = 1
  OomLimit = 2
  SendErrors = {"ENOBUFS", "EAGAIN", "EINVAL", "OTHER"}
  Notices = {"notice", "foreign"}
  MaxTransmit = 4
  MaxCopies = 1
  MaxNotices = 1
SPECIFICATION Spec
INVARIANTS NeverTooMany CountMatches LingerArmed AlarmAfterLast ReportSound
  Conservation SendsAll
PROPERTIES NoSendOnceExiting ImplementsEchoRun
