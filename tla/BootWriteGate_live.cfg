\* One write and a client of two threads, with fairness.
CONSTANTS
  w1 = w1  w2 = w2  t1 = t1  t2 = t2  p1 = p1  p2 = p2
  NoPid = NoPid
  NoDevice = NoDevice
  NoRequest = NoRequest
  Half = 8
  MaxRanges = 1
  RangeMaxBytes = 4
  MaxLength = 4
  Writes = {w1}
  WriteOffset <- Offset
  WriteLength <- Length
  RangeSets <- OneConfiguration
  Pids = {p1}
  Threads = {t1, t2}
  Owner <- BothOfOne
  MaxRequestBytes = 3
  MaxPendingBytes = 3
  MaxPending = 2
  MaxHandles = 1
SPECIFICATION FairSpec
PROPERTY HeldWritesEnd
