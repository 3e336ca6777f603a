CONSTANTS
  Flags = {"interval", "flood", "device", "oversize", "adaptive"}
  Hosts = {"unicast", "broadcast", "multicast", "unknown"}
  MaxCalls = 2
  MaxReports = 4
SPECIFICATION Spec
INVARIANTS TypeOK ReadyToPing UserPaced LeakBounded
PROPERTIES ImplementsCallbacks ReturnHeard
CHECK_DEADLOCK FALSE
