CONSTANTS
  SeqMod = 8
  MaxTransmit = 20
SPECIFICATION Spec
INVARIANTS InvalidatedOnOverflow
CHECK_DEADLOCK FALSE
