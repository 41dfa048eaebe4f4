\* A ring of 28 bytes and frames of 8 and 9 bytes, so that records end everywhere; two
\* descriptors.  A copy that has run away stops the machine, hence no deadlock check.
SPECIFICATION Spec
CHECK_DEADLOCK FALSE
CONSTANTS
  Buses <- BusesForTLC
  MaxDevices = 3
  Descriptors = 2
  RxSize = 28
  Crc = 4
  Sizes = {8, 9}
INVARIANTS
  NicInv
  WholeFramesAreRead
  SentAsHanded
PROPERTIES
  NicProgress
