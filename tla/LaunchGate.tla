------------------------------ MODULE LaunchGate -------------------------------
(***************************************************************************)
(* Process launches (ProcessProtect.c): a command line or a parent chain   *)
(* the driver knows, or else a declarative rule, makes the launch a        *)
(* behavior, which is held for the client's decision; any other launch is  *)
(* an ordinary scan.  What a launch comes to when the bridge gives no      *)
(* decision depends on which of them it was.  An open file (FileProtect.c)  *)
(* is checked against the declarative rules alone.                         *)
(*                                                                         *)
(* BehaviorProtectIsEnabled is true whenever this runs: the modules        *)
(* start the behavior module before the process module, and stop it after. *)
(***************************************************************************)
EXTENDS BehaviorRules

CONSTANTS
  ScriptHosts,     \* images
  DocumentParents  \* images

\* QueueEventAndWait: a decision, an expired wait, a bridge that fails.
Outages == {"timeout", "failed"}

----------------------------------------------------------------------------
(* BehaviorInspectCommandLine, BehaviorInspectParentChain *)

PowerShells == {"powershell", "pwsh"}
WithPowerShell(switches) == {{shell, switch} : shell \in PowerShells, switch \in switches}

\* Each rule: the sets of strings that all occur in the command lines it is about.
BuiltIn == <<
  [type |-> "vss deletion",
   about |-> {{"vssadmin", "delete", "shadow"}, {"shadowcopy", "delete"},
              {"wbadmin", "delete", "catalog"}}],
  [type |-> "hidden powershell",
   about |-> WithPowerShell({"-windowstyle hidden", "-w hidden", "-win hidden"})],
  [type |-> "encoded command", about |-> WithPowerShell({"-enc ", "-encodedcommand "})],
  [type |-> "policy bypass",
   about |-> WithPowerShell({"-executionpolicy bypass", "-ep bypass", "-epbypass"})],
  [type |-> "download execute",
   about |-> {{s} : s \in {"downloadstring", "downloadfile", "invoke-webrequest",
                           "net.webclient", "start-bitstransfer"}}],
  [type |-> "lolbin abuse",
   about |-> {{"certutil", "-urlcache"}, {"rundll32", "javascript:"}}
             \cup {{"mshta", s} : s \in {"http", "javascript", "vbscript"}}],
  [type |-> "directory delete",
   about |-> {{"/s", "/q", s} : s \in {"rd /", "rd/", "rmdir /", "rmdir/"}}],
  [type |-> "ownership escalation", about |-> {{"takeown"}, {"icacls"}}],
  [type |-> "system control", about |-> {{"shutdown"}, {"net user"}}],
  [type |-> "efi mount", about |-> {{"mountvol", "/s"}}],
  [type |-> "oobe reset", about |-> {{"sysprep", s} : s \in {"/oobe", "/generalize", "/audit"}}]
>>

About(terms) == {i \in DOMAIN BuiltIn : \E all \in BuiltIn[i].about : all \subseteq terms}
InspectCommandLine(terms) ==
  IF About(terms) = {} THEN "none"
  ELSE BuiltIn[CHOOSE i \in About(terms) : \A j \in About(terms) : i <= j].type
InspectParentChain(c) ==
  IF c.image \in ScriptHosts /\ c.parent \in DocumentParents THEN "parent chain" ELSE "none"

Inspect(c) ==
  IF InspectCommandLine(c.terms) # "none" THEN InspectCommandLine(c.terms)
  ELSE InspectParentChain(c)

----------------------------------------------------------------------------
(* ProcessApplyBehaviorPolicy, ProcessNotifyRoutine *)

\* The new process is its own actor: its id, its image and its path.
BeginLaunch(t, c) ==
  /\ Begin(t, c, IF Inspect(c) # "none" THEN "known"
                 ELSE IF Excluded(exclusions, c, "process") THEN "unruled" ELSE "matching")
  /\ UNCHANGED <<rateVars, ruleVars, now>>

FailsOpenMutOnlyCustom(t) == at[t] = "ruled" /\ ~Rule(t).closed
FailsOpen(t) ==
  \/ at[t] = "ruled" /\ ~Rule(t).closed
  \/ at[t] = "known" /\ Inspect(call[t]) \in {"ownership escalation", "system control",
                                              "directory delete"}

Launching(t) == at[t] # "idle" /\ call[t].op = "launch"
Held(t) == Launching(t) /\ at[t] \in {"known", "ruled"}
Scanned(t) == Launching(t) /\ at[t] = "unruled"

\* What a launch comes to: a held one needs a decision, a scanned one is blocked only by one.
HeldBlocked(t, answer) == answer = "block" \/ (answer \in Outages /\ ~FailsOpen(t))
ScanBlocked(answer) == answer = "block"
LaunchBlocked(t, answer) == IF Held(t) THEN HeldBlocked(t, answer) ELSE ScanBlocked(answer)

----------------------------------------------------------------------------
(* FilePreCreate's use of the rules: its callback goes on to what FileGate models, *)
(* with a rule that has fired or without.  An excluded initiator leaves no trace.  *)

BeginFile(t, c) ==
  /\ c.op \in FileOperations
  /\ ~Excluded(exclusions, c, "file")
  /\ Begin(t, c, "matching")
  /\ UNCHANGED <<rateVars, ruleVars, now>>
=============================================================================
