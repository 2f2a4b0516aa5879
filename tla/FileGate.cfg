\* Two threads of a script host share a file object while the boot protection is switched on
\* and off, the clock runs and the process exits and comes back.
CONSTANTS
  p1 = p1  p2 = p2  t1 = t1  t2 = t2  h1 = h1  h2 = h2
  bcd = bcd  sys = sys  inf = inf  dll = dll  doc = doc
  NoPid = NoPid
  NoPath = NoPath
  NoTime = NoTime
  Pids = {p1}
  MaxSlots = 1
  Window = 2
  Threshold <- Thresholds
  MaxTime = 4
  Paths = {bcd, sys, inf, dll}
  BootConfigs <- Configs
  Critical = {dll}
  Masqueraded = {}
  Autorun = {inf}
  Ruled = {inf}
  FailClosed = {inf}
  Scannable = {sys, dll}
  Documents = {}
  SystemFiles = {sys, dll}
  SelfRefused <- SelfRefusals
  Untrusted = {p1}
  ScriptHosts = {p1}
  Threads = {t1, t2}
  Owner <- OneHost
  Handles = {h1, h2}
  Opens <- Inputs
  Targets = {bcd, dll}
SPECIFICATION Spec
CONSTRAINT Scope
INVARIANTS TypeOK  
