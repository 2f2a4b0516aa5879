\* One critical event, every answer, a client with two threads and a rival client; every call
\* returns, whatever they do.
CONSTANTS
  c1 = c1  c2 = c2  c3 = c3  p1 = p1  p2 = p2  t1 = t1  t2 = t2  u1 = u1
  NoPid = NoPid
  NoCall = NoCall
  Calls = {c1}
  Critical = {c1}
  Pids = {p1, p2}
  Threads = {t1, t2, u1}
  Owner <- Three
  Pollers = {t1}
  Verdicts = {"allow", "block", "timeout", "pending"}
  MaxPending = 1
  NoiseLimit = 1
  BatchSize = 1
SPECIFICATION FairSpec
INVARIANTS
  CriticalAllowIsAnswered HeldFailsClosed AcceptedVerdictStands NoLostFinal 
  
PROPERTIES ImplementsReview EveryCallReturns
