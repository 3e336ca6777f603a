CONSTANTS
  SeqMod = 8
  MaxTransmit = 20
SPECIFICATION Spec
INVARIANTS TypeOK ExactWhileRecent
PROPERTIES AckShrinks
CHECK_DEADLOCK FALSE
