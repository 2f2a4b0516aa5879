-------------------------------- MODULE FileGate --------------------------------
(***************************************************************************)
(* The file minifilter (FileProtect.c): the create, write, set-information *)
(* and cleanup callbacks, the context a file object carries from one to    *)
(* the next, the set of boot paths the client configures while they run,   *)
(* and the calls into the ransomware monitor.                              *)
(*                                                                         *)
(* A thread is in one callback at a time.  Its steps end where the code    *)
(* reads the boot configuration, waits for the client, takes the monitor's *)
(* lock or leaves the request to the file system.  The wait itself is      *)
(* EventBridge; here it returns any answer.  A request that is refused at  *)
(* once changes nothing and makes no step.  A name that cannot be had      *)
(* stands for a high IRQL and a missing instance as well.  The kill that a *)
(* rule may ask for is the Exit of the process.                            *)
(***************************************************************************)
EXTENDS RansomwareMonitor, FiniteSetsExt

CONSTANTS
  Paths,
  BootConfigs,   \* the sets of boot paths CONFIGURE requests name, {} when disabled
  Critical,      \* paths whose leaf is a critical library
  Masqueraded,   \* system binary names in user-writable directories
  Autorun,       \* paths named autorun.inf
  Ruled,         \* paths some declarative rule matches
  FailClosed,    \* those whose rule carries XDOWS_SECURITY_RULE_FLAG_FAIL_CLOSED
  Scannable,     \* executables: FileIsScannablePath
  Documents,     \* RansomIsDocumentPath
  SystemFiles,   \* RansomIsSystemDirectoryPath
  SelfRefused,   \* pairs for which SelfProtectShouldBlockFileMutation holds
  Untrusted,     \* processes that FileActorMayMutateCriticalDll refuses
  ScriptHosts,   \* BehaviorImageNameIsScriptHost
  Threads, Owner,
  Handles,       \* file objects
  Opens,         \* inputs: the pairs of a path and an access each thread opens
  Targets,       \* inputs: the names files are renamed to
  NoPath, NoTime

Accesses == {"read", "write", "delete"}

\* The extensions of the two tables in the code are disjoint.
ASSUME PathAssumption ==
  /\ Scannable \subseteq Paths /\ Documents \subseteq Paths /\ Scannable \cap Documents = {}
  /\ \A g \in BootConfigs : g \subseteq Paths
  /\ FailClosed \subseteq Ruled /\ NoPath \notin Paths /\ NoTime \notin 0..MaxTime
  /\ Targets \subseteq Paths /\ Paths \cap {"none", "dirty"} = {}
ASSUME ActorAssumption ==
  /\ Owner \in [Threads -> Pids] /\ Untrusted \subseteq Pids /\ ScriptHosts \subseteq Pids
  /\ SelfRefused \subseteq Pids \X Paths /\ Opens \in [Threads -> SUBSET (Paths \X Accesses)]

ASSUME ThreadsAssumption == IsFiniteSet(Threads)

VARIABLES
  guarded,  \* BootProtectionEnabled and BootVolumeRoots, as the paths they protect
  name,     \* the name of the file a file object is open on for writing, or NoPath
  context,  \* its stream handle context: "none", "dirty", or Path when BootProtected
  at,       \* where the thread is
  job,      \* its request
  reason,   \* why it waits for the client
  boot,     \* the completion context of a create, XDOWS_BOOT_CREATE_CONTEXT
  seen,     \* the time it has read for the monitor
  \* history
  openedAs, \* the protected path under which the file object was opened
  covered,  \* whether the path in question has been protected since the request arrived
  allowed,  \* whether the client has answered Allow to the request
  passed,   \* deletes of a process the monitor has counted and let through, by time
  deletes,  \* deletes of this process it has counted, up to the threshold
  docs      \* documents it has opened for writing at this instant, up to the threshold

monitorVars == <<tables, now>>
handleVars == <<name, context, openedAs>>
threadVars == <<at, job, reason, boot, seen, covered, allowed>>
countVars == <<passed, deletes, docs>>
vars == <<monitorVars, guarded, handleVars, threadVars, countVars>>

NoJob == [kind |-> "none", handle |-> NoPath, path |-> NoPath, to |-> NoPath,
          access |-> "read", subject |-> NoPath]
Init ==
  /\ MonitorInit
  /\ guarded = {}
  /\ name = [h \in Handles |-> NoPath] /\ context = [h \in Handles |-> "none"]
  /\ openedAs = [h \in Handles |-> NoPath]
  /\ at = [t \in Threads |-> "idle"] /\ job = [t \in Threads |-> NoJob]
  /\ reason = [t \in Threads |-> "none"] /\ boot = [t \in Threads |-> FALSE]
  /\ seen = [t \in Threads |-> NoTime]
  /\ covered = [t \in Threads |-> FALSE] /\ allowed = [t \in Threads |-> FALSE]
  /\ passed = [p \in Pids |-> [i \in 0..MaxTime |-> 0]]
  /\ deletes = [p \in Pids |-> 0] /\ docs = [p \in Pids |-> 0]

Pid(t) == Owner[t]
Path(t) == job[t].path
Handle(t) == job[t].handle
Kind(t) == job[t].kind
Subject(t) == job[t].subject

Go(t, place) == at' = [at EXCEPT ![t] = place]
Ask(t, why) == Go(t, "asking") /\ reason' = [reason EXCEPT ![t] = why]

\* A request that ends leaves nothing of the thread's own behind.
Return(t) ==
  /\ Go(t, "idle") /\ job' = [job EXCEPT ![t] = NoJob]
  /\ reason' = [reason EXCEPT ![t] = "none"] /\ boot' = [boot EXCEPT ![t] = FALSE]
  /\ seen' = [seen EXCEPT ![t] = NoTime]
  /\ covered' = [covered EXCEPT ![t] = FALSE] /\ allowed' = [allowed EXCEPT ![t] = FALSE]

\* A request arrives; its own checks come first, so that one they refuse, or one that
\* needs none, is not seen between two steps.
Begin(t, kind, h, path, to, access, subject) ==
  /\ at[t] = "idle"
  /\ job' = [job EXCEPT ![t] = [kind |-> kind, handle |-> h, path |-> path, to |-> to,
                                access |-> access, subject |-> subject]]
  /\ UNCHANGED <<boot, seen, allowed>>

Users(h) == {t \in Threads : at[t] # "idle" /\ Handle(t) = h}
\* The creation and the cleanup of a file object exclude everything else on it.
Usable(h) == name[h] # NoPath /\ \A t \in Users(h) : Kind(t) \notin {"open", "cleanup"}

SelfRefuses(p, path) == <<p, path>> \in SelfRefused
MayNotReplace(p, path) == path \in Critical /\ p \in Untrusted
MayNotCreate(p, path) == path \in Critical \cup Masqueraded /\ p \in Untrusted

----------------------------------------------------------------------------
(* FilePreCreate *)

\* What follows the name checks of a write-open.  A script host counts as one only when it
\* asks for DELETE.
CountsDelete(p, path, access) == access = "delete" /\ p \in ScriptHosts /\ path \in SystemFiles
AfterWrites(p, path, access) == IF CountsDelete(p, path, access) THEN "deletes" ELSE "rating"
AfterRules(p, path, access) ==
  IF path \notin Scannable THEN "creating"
  ELSE IF path \in Documents THEN "writes" ELSE AfterWrites(p, path, access)
\* A declarative rule fires unless its initiator is excluded or its rate is not reached.
Rules(t, p, path, access) ==
  \/ path \in Ruled /\ Ask(t, "rule")
  \/ Go(t, AfterRules(p, path, access)) /\ UNCHANGED reason

\* A file object opened to read can change nothing and is not followed.
OpenToRead(t) ==
  /\ \E path \in Paths :
       /\ <<path, "read">> \in Opens[t]
       /\ Begin(t, "open", NoPath, path, NoPath, "read", NoPath)
  /\ Go(t, "rating")
  /\ UNCHANGED <<reason, covered, monitorVars, guarded, handleVars, countVars>>
OpenUnnamed(t, h, path, access) ==
  /\ Begin(t, "open", h, path, NoPath, access, NoPath)
  /\ Go(t, "creating") /\ UNCHANGED <<reason, covered>>
OpenNamed(t, h, path, access) ==
  /\ ~SelfRefuses(Pid(t), path)
  /\ Begin(t, "open", h, path, NoPath, access, path)
  /\ covered' = [covered EXCEPT ![t] = path \in guarded]
  /\ IF path \in guarded THEN Go(t, "boot") /\ UNCHANGED reason
     ELSE /\ ~MayNotCreate(Pid(t), path)
          /\ IF path \in Autorun THEN Ask(t, "autorun") ELSE Rules(t, Pid(t), path, access)
OpenToWrite(t, h) ==
  /\ name[h] = NoPath /\ Users(h) = {}
  /\ \E path \in Paths, access \in Accesses \ {"read"} :
       /\ <<path, access>> \in Opens[t]
       /\ OpenUnnamed(t, h, path, access) \/ OpenNamed(t, h, path, access)
  /\ UNCHANGED <<monitorVars, guarded, handleVars, countVars>>

\* The completion context is allocated, or the open fails.
KeepBootContext(t) ==
  /\ at[t] = "keeping"
  /\ \/ Go(t, "creating") /\ boot' = [boot EXCEPT ![t] = TRUE]
        /\ UNCHANGED <<job, reason, seen, covered, allowed>>
     \/ Return(t)
  /\ UNCHANGED <<monitorVars, guarded, handleVars, countVars>>

\* The monitor: the clock first, then the lock.
ReadClock(t) ==
  /\ at[t] \in Tables \cup {"rating"} /\ seen[t] = NoTime
  /\ seen' = [seen EXCEPT ![t] = now]
  /\ UNCHANGED <<monitorVars, guarded, handleVars, at, job, reason, boot, covered, allowed,
                 countVars>>
Count(t) ==
  /\ at[t] \in Tables /\ seen[t] # NoTime
  /\ LET d == at[t]  table == Recorded(d, Pid(t), seen[t]) IN
     /\ tables' = [tables EXCEPT ![d] = table]
     /\ deletes' = [deletes EXCEPT ![Pid(t)] =
          IF d = "deletes" /\ @ < Threshold[d] THEN @ + 1 ELSE @]
     /\ IF Flagged(table, Pid(t)) THEN Return(t)
        ELSE /\ Go(t, IF d = "writes" THEN AfterWrites(Pid(t), Path(t), job[t].access)
                      ELSE "rating")
             /\ seen' = [seen EXCEPT ![t] = NoTime]
             /\ UNCHANGED <<job, reason, boot, covered, allowed>>
  /\ UNCHANGED <<now, guarded, handleVars, passed, docs>>
CountedDelete(t) ==
  /\ CountsDelete(Pid(t), Path(t), job[t].access)
  /\ \E s \in Slots : tables["deletes"][s].pid = Pid(t)
Rate(t) ==
  /\ at[t] = "rating" /\ seen[t] # NoTime
  /\ tables' = AfterRating(Pid(t), seen[t])
  /\ IF IsFlagged(Pid(t), seen[t]) THEN Return(t)
     ELSE /\ Go(t, "creating") /\ seen' = [seen EXCEPT ![t] = NoTime]
          /\ UNCHANGED <<job, reason, boot, covered, allowed>>
  /\ passed' = IF IsFlagged(Pid(t), seen[t]) \/ ~CountedDelete(t) THEN passed
               ELSE [passed EXCEPT ![Pid(t)][now] = @ + 1]
  /\ UNCHANGED <<now, guarded, handleVars, deletes, docs>>

\* The file system opens the file, or not.  Only a file object that can change its file is
\* followed any further.
CreateSucceeds(t) ==
  /\ at[t] = "creating"
  /\ IF job[t].access = "read" THEN UNCHANGED <<name, openedAs>>
     ELSE /\ name' = [name EXCEPT ![Handle(t)] = Path(t)]
          /\ openedAs' = [openedAs EXCEPT ![Handle(t)] = IF boot[t] THEN Path(t) ELSE NoPath]
  /\ docs' = [docs EXCEPT ![Pid(t)] =
       IF Subject(t) \in Documents /\ @ < Threshold["writes"]
       THEN @ + 1 ELSE @]
  /\ IF boot[t] THEN Go(t, "opened") /\ UNCHANGED <<job, reason, boot, seen, covered, allowed>>
     ELSE Return(t)
  /\ UNCHANGED <<monitorVars, guarded, context, passed, deletes>>
CreateFails(t) ==
  /\ at[t] = "creating"
  /\ Return(t)
  /\ UNCHANGED <<monitorVars, guarded, handleVars, countVars>>

\* FilePostCreate: the context is attached, or the open is cancelled.
CancelledMutLeftOpen(h) == UNCHANGED <<name, openedAs>>
Cancelled(h) == name' = [name EXCEPT ![h] = NoPath] /\ openedAs' = [openedAs EXCEPT ![h] = NoPath]
PostCreate(t) ==
  /\ at[t] = "opened"
  /\ \/ context' = [context EXCEPT ![Handle(t)] = Path(t)] /\ UNCHANGED <<name, openedAs>>
     \/ Cancelled(Handle(t)) /\ UNCHANGED context
  /\ Return(t)
  /\ UNCHANGED <<monitorVars, guarded, countVars>>

----------------------------------------------------------------------------
(* FilePreWrite *)

\* A file object with a context is judged by it; one without by the name of its file, if
\* that can be had.
Write(t, h) ==
  /\ Usable(h)
  /\ LET path == IF context[h] \in Paths THEN context[h] ELSE name[h] IN
     /\ Begin(t, "write", h, path, NoPath, "write", path)
     /\ covered' = [covered EXCEPT ![t] = openedAs[h] \in guarded]
     /\ \/ context[h] = "dirty" /\ Go(t, "writing")
        \/ context[h] \in Paths /\ Go(t, "boot")
        \/ context[h] = "none" /\ (Go(t, "boot") \/ Go(t, "marking"))
  /\ UNCHANGED <<reason, monitorVars, guarded, handleVars, countVars>>

\* The dirty context is attached if none has been meanwhile, and if there is memory.
Mark(t) ==
  /\ at[t] = "marking"
  /\ \/ context' = [context EXCEPT ![Handle(t)] = IF @ = "none" THEN "dirty" ELSE @]
     \/ UNCHANGED context
  /\ Go(t, "writing")
  /\ UNCHANGED <<monitorVars, guarded, name, openedAs, job, reason, boot, seen, covered, allowed,
                 countVars>>

----------------------------------------------------------------------------
(* FilePreSetInformation: a rename or a delete disposition.  A link is     *)
(* checked as a rename is, and is left out: it changes no file's name.     *)

SetInformation(t, h, kind, to) ==
  /\ Usable(h)
  /\ \/ /\ Begin(t, kind, h, name[h], to, "delete", NoPath)
        /\ Go(t, IF kind = "delete" THEN "deleting" ELSE "renaming")
        /\ UNCHANGED <<reason, covered>>
     \/ /\ ~SelfRefuses(Pid(t), name[h])
        /\ Begin(t, kind, h, name[h], to, "delete", name[h])
        /\ covered' = [covered EXCEPT ![t] = name[h] \in guarded]
        /\ IF name[h] \in guarded THEN Go(t, "boot")
           ELSE ~MayNotReplace(Pid(t), name[h])
                  /\ Go(t, IF kind = "delete" THEN "deleting" ELSE "target")
        /\ UNCHANGED reason
  /\ UNCHANGED <<monitorVars, guarded, handleVars, countVars>>

\* The destination: its name may not be had, and then the rename goes on.
TargetUnnamed(t) ==
  /\ at[t] = "target"
  /\ Go(t, "renaming") /\ job' = [job EXCEPT ![t] = [@ EXCEPT !.subject = NoPath]]
  /\ covered' = [covered EXCEPT ![t] = FALSE]
  /\ UNCHANGED <<monitorVars, guarded, handleVars, reason, boot, seen, allowed, countVars>>
CheckTarget(t) ==
  /\ at[t] = "target"
  /\ LET to == job[t].to IN
     IF SelfRefuses(Pid(t), to) \/ (to \notin guarded /\ MayNotReplace(Pid(t), to))
     THEN Return(t)
     ELSE /\ job' = [job EXCEPT ![t] = [@ EXCEPT !.subject = to]]
          /\ covered' = [covered EXCEPT ![t] = to \in guarded]
          /\ IF to \in guarded THEN Go(t, "boot") /\ UNCHANGED reason
             ELSE IF {Path(t), to} \cap Scannable # {} THEN Ask(t, "rename")
             ELSE Go(t, "renaming") /\ UNCHANGED reason
          /\ UNCHANGED <<boot, seen, allowed>>
  /\ UNCHANGED <<monitorVars, guarded, handleVars, countVars>>

\* The file system renames the file, which its other file objects see too, replacing one
\* that nobody has open; or it fails.
Rename(t) ==
  /\ at[t] = "renaming"
  /\ \/ /\ \A h \in Handles : name[h] # job[t].to
        /\ name' = [h \in Handles |-> IF name[h] = name[Handle(t)] THEN job[t].to ELSE name[h]]
     \/ UNCHANGED name
  /\ Return(t)
  /\ UNCHANGED <<monitorVars, guarded, context, openedAs, countVars>>
\* A write, and a delete disposition, change no state of the filter's.
Effect(t) ==
  /\ at[t] \in {"writing", "deleting"}
  /\ Return(t)
  /\ UNCHANGED <<monitorVars, guarded, handleVars, countVars>>

----------------------------------------------------------------------------
(* The boot configuration and the client's answers *)

\* CONFIGURE of the boot protection, and FileProtectShutdown, which disables it.
Configure(g) ==
  /\ guarded' = g
  /\ covered' = [t \in Threads |-> covered[t] /\
                  (IF Kind(t) = "write" THEN openedAs[Handle(t)] ELSE Subject(t)) \in g]
  /\ UNCHANGED <<monitorVars, handleVars, at, job, reason, boot, seen, allowed, countVars>>

\* What a request does once its boot check, or the client, has let it through.
Why(t) == IF at[t] = "boot" THEN "boot" ELSE reason[t]
Proceed(t) ==
  \/ Kind(t) = "open" /\ Why(t) = "boot" /\ Go(t, "keeping") /\ UNCHANGED reason
  \/ Kind(t) = "open" /\ Why(t) = "autorun" /\ Rules(t, Pid(t), Path(t), job[t].access)
  \/ Kind(t) = "open" /\ Why(t) = "rule"
     /\ Go(t, AfterRules(Pid(t), Path(t), job[t].access)) /\ UNCHANGED reason
  \/ Kind(t) = "write" /\ UNCHANGED reason
     /\ Go(t, IF context[Handle(t)] = "none" THEN "marking" ELSE "writing")
  \/ Kind(t) = "rename" /\ Go(t, "renaming") /\ UNCHANGED reason
  \/ Kind(t) = "delete" /\ Go(t, "deleting") /\ UNCHANGED reason
  \/ Kind(t) = "cleanup" /\ Go(t, "closing") /\ UNCHANGED reason

\* FileBootMutationMustBeBlocked reads the configuration itself, again.
CheckBoot(t) ==
  /\ at[t] = "boot"
  /\ IF Subject(t) \in guarded THEN Ask(t, "boot") ELSE Proceed(t)
  /\ UNCHANGED <<monitorVars, guarded, handleVars, job, boot, seen, covered, allowed, countVars>>

\* The client's allowed, a time-out or a failure of the bridge.
Unavailable == {"timeout", "failed"}
Answers == {"allow", "block", "pending"} \cup Unavailable
BootPasses(d) == d = "allow"
AutorunPasses(d) == d = "allow"
VerdictPasses(d) == d # "block"
RulePasses(t, d) ==
  IF d \in Unavailable THEN Path(t) \notin FailClosed ELSE d # "block"
Passes(t, d) ==
  \/ reason[t] = "boot" /\ BootPasses(d)
  \/ reason[t] = "autorun" /\ AutorunPasses(d)
  \/ reason[t] = "rule" /\ RulePasses(t, d)
  \/ reason[t] = "rename" /\ VerdictPasses(d)
  \/ reason[t] = "scan"
Answer(t, d) ==
  /\ at[t] = "asking"
  /\ IF Passes(t, d)
     THEN /\ Proceed(t) /\ allowed' = [allowed EXCEPT ![t] = d = "allow"]
          /\ UNCHANGED <<job, boot, seen, covered>>
     ELSE Return(t)
  /\ UNCHANGED <<monitorVars, guarded, handleVars, countVars>>

----------------------------------------------------------------------------
(* FilePreCleanup and FilePostCleanup, process exit, the clock *)

\* A written executable is reported to the client, whatever it answers; anything else, and
\* one whose name, size or memory cannot be had, just closes.
Forget(h) ==
  /\ name' = [name EXCEPT ![h] = NoPath] /\ context' = [context EXCEPT ![h] = "none"]
  /\ openedAs' = [openedAs EXCEPT ![h] = NoPath]
Cleanup(t, h) ==
  /\ at[t] = "idle" /\ name[h] # NoPath /\ Users(h) = {}
  /\ \/ Forget(h) /\ UNCHANGED threadVars
     \/ /\ context[h] # "none" /\ name[h] \in Scannable
        /\ context' = [context EXCEPT ![h] = "none"]
        /\ Begin(t, "cleanup", h, name[h], NoPath, "read", NoPath)
        /\ Ask(t, "scan")
        /\ UNCHANGED <<name, openedAs, covered>>
  /\ UNCHANGED <<monitorVars, guarded, countVars>>
Close(t) ==
  /\ at[t] = "closing"
  /\ Forget(Handle(t))
  /\ Return(t)
  /\ UNCHANGED <<monitorVars, guarded, countVars>>

\* ProcessNotifyRoutine; its number may be given to another process.
Exit(p) ==
  /\ \A t \in Threads : Pid(t) = p => at[t] = "idle"
  /\ tables' = AfterExit(p)
  /\ passed' = [passed EXCEPT ![p] = [i \in 0..MaxTime |-> 0]]
  /\ deletes' = [deletes EXCEPT ![p] = 0] /\ docs' = [docs EXCEPT ![p] = 0]
  /\ UNCHANGED <<now, guarded, handleVars, threadVars>>

Clock ==
  /\ Tick
  /\ docs' = [p \in Pids |-> 0]
  /\ UNCHANGED <<tables, guarded, handleVars, threadVars, passed, deletes>>

----------------------------------------------------------------------------
Next ==
  \/ \E t \in Threads, h \in Handles :
       \/ OpenToWrite(t, h) \/ Write(t, h) \/ Cleanup(t, h)
       \/ SetInformation(t, h, "delete", NoPath)
       \/ \E to \in Targets : SetInformation(t, h, "rename", to)
  \/ \E t \in Threads :
       \/ OpenToRead(t) \/ KeepBootContext(t) \/ ReadClock(t) \/ Count(t) \/ Rate(t)
       \/ CreateSucceeds(t) \/ CreateFails(t) \/ PostCreate(t) \/ Mark(t)
       \/ TargetUnnamed(t) \/ CheckTarget(t) \/ Rename(t) \/ Effect(t) \/ CheckBoot(t) \/ Close(t)
       \/ \E d \in Answers : Answer(t, d)
  \/ \E g \in BootConfigs : Configure(g)
  \/ \E p \in Pids : Exit(p)
  \/ Clock

Spec == Init /\ [][Next]_vars
----------------------------------------------------------------------------
(* Properties *)

\* Every variable has the type of the structure it stands for.
TypeOK ==
  /\ (\A d \in Tables : tables[d] \in [Slots -> Slot(d)])
  /\ now \in 0..MaxTime /\ guarded \in SUBSET Paths
  /\ name \in [Handles -> Paths \cup {NoPath}]
  /\ context \in [Handles -> Paths \cup {"none", "dirty"}]
  /\ openedAs \in [Handles -> Paths \cup {NoPath}]
  /\ at \in [Threads -> Tables \cup
       {"idle", "boot", "asking", "keeping", "rating", "creating", "opened", "writing", "marking",
        "target", "renaming", "deleting", "closing"}]
  /\ seen \in [Threads -> 0..MaxTime \cup {NoTime}]
  /\ boot \in [Threads -> BOOLEAN] /\ covered \in [Threads -> BOOLEAN]
  /\ reason \in [Threads -> {"none", "boot", "autorun", "rule", "rename", "scan"}]
  /\ allowed \in [Threads -> BOOLEAN]

\* A write through a file object that was opened under boot protection, and a rename or a
\* delete whose name is known, reaches a file that has been protected since the request
\* arrived only if the client has allowed this very request: the protection outlives the
\* open, whatever fails on the way.
BootMutationsAllowed ==
  \A t \in Threads : at[t] \in {"writing", "renaming", "deleting"} /\ covered[t] =>
    allowed[t]

\* A process is blocked for deletes of its own: its flag means that this process, and no
\* earlier one of the same number, has made as many as the threshold.
FlagIsOwn ==
  \A p \in Pids : Flagged(tables["deletes"], p) => deletes[p] >= Threshold["deletes"]

\* In no span of one window does a script host open more files for deletion under the
\* Windows directory than twice one less than the threshold, and two more for each further
\* thread: the windows of the monitor do not slide, so a burst may straddle two of them; a
\* thread may act late on a count of an older window; and one that has read the clock in a
\* window may count in it after another one has cleared its flag.
Ours(p) == {t \in Threads : Owner[t] = p}
InSpan(p, from) ==
  MapThenSumSet(LAMBDA i : passed[p][i], {i \in 0..MaxTime : from <= i /\ i < from + Window})
BurstBounded ==
  \A p \in Pids, from \in 0..MaxTime :
    InSpan(p, from) <= 2 * (Threshold["deletes"] - 1) + 2 * (Cardinality(Ours(p)) - 1)

\* The monitor blocks no process for the deletes of another, and lets no burst through.
MonitorSound == FlagIsOwn /\ BurstBounded

\* RansomwareMonitor.h: a process that exceeds the write-count threshold for documents
\* within the window is flagged, and its next write-open is blocked.
DocumentBurstBlocked == \A p \in Pids : docs[p] < Threshold["writes"]
=============================================================================
