CONSTANTS
  SeqMod = 16
  Sec = 3
  Milli = 2
  MININTERVAL = 2
  MINUSERINTERVAL = 2
  Preload = 2
  Adaptive = {TRUE, FALSE}
  Users = {TRUE, FALSE}
  Intervals = {0, 4}
  Estimates = {0, 5}
  Starts = {30, 31, 32, 33, 34, 35}
  Jumps = {29}
  MaxNow = 10
  MaxTransmit = 5
  MaxJumps = 1
SPECIFICATION Spec
INVARIANTS TypeOK RateBound FloodBound WaitSuffices WaitBounded
CHECK_DEADLOCK FALSE
