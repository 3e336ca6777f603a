CONSTANTS
  Flags = {"mark"}
  Hosts = {"any", "unicast", "unknown"}
  MaxCalls = 1
  MaxReports = 4
SPECIFICATION Spec
INVARIANTS EndMeansNoError
CHECK_DEADLOCK FALSE
