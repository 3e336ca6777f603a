CONSTANTS
  Addresses = {"a", "b"}
  Unknown = "u"
  Dashed = {"-h"}
  TimesAsked = {0, 2}
  TimeoutsAsked = {0, 3, 5, 17}
  TtlsAsked = {0, 64, 300}
  MaxLinger = 4
  IntSize = 16384
  MaxTtl = 255
  MaxCalls = 3
SPECIFICATION Spec
INVARIANTS TypeOK UsageNeedsDash  AddressHonoured
CHECK_DEADLOCK FALSE
