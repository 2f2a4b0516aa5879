\* A process opens one document after the other for writing.
CONSTANTS
  p1 = p1  p2 = p2  t1 = t1  t2 = t2  h1 = h1  h2 = h2
  bcd = bcd  sys = sys  inf = inf  dll = dll  doc = doc
  NoPid = NoPid
  NoPath = NoPath
  NoTime = NoTime
  Pids = {p1}
  MaxSlots = 1
  Window = 2
  Threshold <- Thresholds
  MaxTime = 2
  Paths = {bcd, sys, dll, doc}
  BootConfigs <- Configs
  Critical = {}
  Masqueraded = {}
  Autorun = {}
  Ruled = {}
  FailClosed = {}
  Scannable = {sys}
  Documents = {doc}
  SystemFiles = {sys}
  SelfRefused <- SelfRefusals
  Untrusted = {p1}
  ScriptHosts = {p1}
  Threads = {t1, t2}
  Owner <- OneHost
  Handles = {h1}
  Opens <- DocumentInputs
  Targets = {bcd}
SPECIFICATION Spec
INVARIANT DocumentBurstBlocked
