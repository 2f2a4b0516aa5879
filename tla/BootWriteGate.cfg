\* Two writes, two rival clients of one thread each, one of which may reconfigure.
CONSTANTS
  w1 = w1  w2 = w2  t1 = t1  t2 = t2  p1 = p1  p2 = p2
  NoPid = NoPid
  NoDevice = NoDevice
  NoRequest = NoRequest
  Half = 8
  MaxRanges = 1
  RangeMaxBytes = 4
  MaxLength = 4
  Writes = {w1, w2}
  WriteOffset <- Offset
  WriteLength <- Length
  RangeSets <- Configurations
  Pids = {p1, p2}
  Threads = {t1, t2}
  Owner <- OneEach
  MaxRequestBytes = 3
  MaxPendingBytes = 3
  MaxPending = 2
  MaxHandles = 1
SPECIFICATION Spec
INVARIANTS
  TypeOK  ReservationSound ListSound SessionSound 
  WritesHeldExactly
