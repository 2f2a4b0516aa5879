\* A Pending answer accepted after the wait has run out.
CONSTANTS
  c1 = c1  c2 = c2  c3 = c3  p1 = p1  p2 = p2  t1 = t1  t2 = t2  u1 = u1
  NoPid = NoPid
  NoCall = NoCall
  Calls = {c1}
  Critical = {c1}
  Pids = {p1}
  Threads = {t1}
  Owner <- One
  Pollers = {t1}
  Verdicts = {"pending"}
  MaxPending = 1
  NoiseLimit = 1
  BatchSize = 1
SPECIFICATION Spec
INVARIANT PendingFailsClosed
