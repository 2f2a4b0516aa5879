\* Two threads of three processes; the client replaces one list.  A behavior ends when all
\* matches that may be counted have been, with every callback done.
CONSTANTS
  t1 = t1  t2 = t2  p1 = p1  p2 = p2  p3 = p3
  tool = tool  word = word  cmd = cmd  doc = doc  editor = editor
  NoRule = NoRule  NoKey = NoKey  NoThread = NoThread  NoSlot = NoSlot  NoCall = NoCall
  Threads = {t1, t2}
  Slots = {s1}
  RuleSets <- Sets
  Exclusions <- Lists
  RegistryConfigs <- Configs
  Calls <- CallsOf
  Initial <- First
  ScriptHosts = {cmd}
  DocumentParents = {word}
  LongNames = {"long"}
  SystemPids = {p3}
  TrustedPids = {p2}
  MaxTime = 2
  MaxConfigs = 1
  MaxHits = 3
SPECIFICATION Spec
INVARIANTS TypeOK   
 
CHECK_DEADLOCK FALSE
