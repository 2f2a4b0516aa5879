\* Two threads of one process and one of an excluded process open handles to a process
\* whose id is reused by a critical one.
CONSTANTS
  s1 = s1  e1 = e1  g1 = g1  g2 = g2  c1 = c1  c2 = c2
  NoProc = NoProc
  Procs = {s1, e1, g1, g2}
  PidOf <- PidsOf
  Existing = {s1, e1, g1}
  Calls = {c1, c2}
  Pairs <- TwoActors
  Requests <- TwoRequests
  ClientPid = 1
  Guarded = {}
  Critical = {g2}
  KnownActors = {}
  Excluded = {e1}
  Signed = {e1}
  MaxSlots = 2
  TTL = 1
  MaxTime = 2
SPECIFICATION Spec
INVARIANTS TypeOK  CriticalNeedsAllow
CHECK_DEADLOCK FALSE
