\* One thread opens a handle to the protected process.
CONSTANTS
  s1 = s1  e1 = e1  g1 = g1  g2 = g2  c1 = c1  c2 = c2
  NoProc = NoProc
  Procs = {s1, g1}
  PidOf <- PidsOf
  Existing = {s1, g1}
  Calls = {c1}
  Pairs <- OneActor
  Requests <- WithTerminate
  ClientPid = 20
  Guarded = {g1}
  Critical = {}
  KnownActors = {}
  Excluded = {}
  Signed = {}
  MaxSlots = 1
  TTL = 1
  MaxTime = 1
SPECIFICATION Spec
INVARIANT TerminateNeedsAllow
CHECK_DEADLOCK FALSE
