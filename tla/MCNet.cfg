\* Three hosts, one of which may change its address, for two cache entries; two connections
\* of two pieces of data, the first across the end of the sequence numbers, one byte of each
\* piece over the limit, one or both pieces under way, and two losses.  The thread may have
\* sent its last frame, and the client may have had its last connection, hence no deadlock
\* check.
SPECIFICATION Spec
CHECK_DEADLOCK FALSE
CONSTANTS
  Parts = {"arp", "tcp"}
  Hosts = {h1, h2, h3}
  CacheSize = 2
  Movers = {h1}
  MaxMoves = 1
  MaxWire = 2
  SeqMod = 16
  Conns = {1, 2}
  Isns <- IsnsForTLC
  MaxWindow = 2
  MaxItems = 2
  DataLen = 2
  PrintLimit = 1
  MaxFlight = 2
  MaxLosses = 2
INVARIANTS
  ArpInv
  AddressedToTarget
  TcpInv
PROPERTIES
  ConnectionCompletes
