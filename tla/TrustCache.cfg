\* A process id that passes from a signed image to an unsigned one, and one between two signed ones.
CONSTANTS
  a1 = a1  a2 = a2  b1 = b1  b2 = b2
  NoProc = NoProc
  Sweep = Sweep
  Procs = {a1, a2, b1, b2}
  PidOf <- PidsOf
  Existing = {a1, b1}
  Image <- Images
  MaxVerdicts = 2
  MaxWork = 2
SPECIFICATION Spec
INVARIANTS TypeOK  WorkDrained
CHECK_DEADLOCK FALSE
