----------------------------- MODULE RegistryGate ------------------------------
(***************************************************************************)
(* Registry protection (RegistryProtect.c): a change to a key the client   *)
(* has listed, to a key below it or, for changes that take a whole subtree *)
(* along, to a key above it, is decided by the client unless its actor is  *)
(* exempt.  The client replaces the list and its switch under a push lock; *)
(* a callback takes that lock once to see the switch and again for each    *)
(* match, and a rename matches its source twice.                           *)
(*                                                                         *)
(* A key is the sequence of the names on its path.  A change whose path    *)
(* cannot be had is let through before any state is read, and left out.    *)
(***************************************************************************)
EXTENDS BehaviorRules, SequencesExt

CONSTANTS
  RegistryConfigs,  \* the lists and switches the client may send
  LongNames,        \* new names that make a path too long
  SystemPids,       \* ids up to 4, and the registered client
  TrustedPids       \* processes whose signature is valid, and known to be some time

VARIABLES
  registry,  \* g_RegistryGuard: Enabled, RulePaths
  listed     \* history: the values of registry since a thread's callback began

registryVars == <<registry, listed>>

RegistryInit(config) == registry = config /\ listed = [t \in Threads |-> {}]

\* RegistryProtectConfigure.
ConfigureRegistry(config) ==
  /\ configs < MaxConfigs /\ configs' = configs + 1
  /\ registry' = config
  /\ listed' = [t \in Threads |-> IF t \in Busy THEN listed[t] \cup {config} ELSE {}]
  /\ UNCHANGED <<rateVars, rules, exclusions, generation, wiping, threadVars, now, at>>

PathMatchesMutNoAncestor(config, path, ancestors) ==
  config.enabled /\ \E rule \in config.paths : IsPrefix(rule, path)
PathMatches(config, path, ancestors) ==
  /\ config.enabled
  /\ \E rule \in config.paths : IsPrefix(rule, path) \/ (ancestors /\ IsPrefix(path, rule))

\* Restoring, replacing, unloading, deleting or renaming a key takes its subtree along.
ChangesOfOneKey == {"create key", "set value", "delete value"}
IncludesAncestors(change) == change \notin ChangesOfOneKey

\* The new path of a renamed key, if it is not longer than the buffer for it.
Destination(c) == Append(Front(c.path), c.newName)
Fits(c) == c.newName \notin LongNames

\* RegistryCallback sees the switch; what it leaves alone at once is not seen.
BeginChange(t, c) ==
  /\ c.op = "registry" /\ registry.enabled
  /\ Begin(t, c, IF c.change = "rename key" THEN "renaming" ELSE "deciding")
  /\ listed' = [listed EXCEPT ![t] = {registry}]
  /\ UNCHANGED <<rateVars, ruleVars, now, registry>>

LetThrough(t) == Finish(t) /\ listed' = [listed EXCEPT ![t] = {}]

\* RegistryDecideRename: the source if it is protected, else the new name, if there is room
\* for it.
RenameDecides(t) ==
  IF PathMatches(registry, call[t].path, TRUE) THEN "deciding" ELSE "deciding new name"
RenameSource(t) ==
  /\ at[t] = "renaming"
  /\ IF RenameDecides(t) = "deciding new name" /\ ~Fits(call[t]) THEN LetThrough(t)
     ELSE Go(t, RenameDecides(t)) /\ UNCHANGED <<threadVars, listed>>
  /\ UNCHANGED <<rateVars, ruleVars, now, registry>>

\* RegistryDecideMutation: the match, then the exemptions, the signature's as far as it is
\* known, then the exclusions.  Only a block of the client then denies the change.
Decided(t) == IF at[t] = "deciding new name" THEN Destination(call[t]) ELSE call[t].path
DecideMutation(t) ==
  /\ at[t] \in {"deciding", "deciding new name"}
  /\ LET taken == /\ PathMatches(registry, Decided(t), IncludesAncestors(call[t].change))
                  /\ call[t].pid \notin SystemPids IN
     \/ taken /\ Go(t, "sparing") /\ UNCHANGED <<threadVars, listed>>
     \/ (taken => call[t].pid \in TrustedPids) /\ LetThrough(t)
  /\ UNCHANGED <<rateVars, ruleVars, now, registry>>
Spare(t) ==
  /\ at[t] = "sparing"
  /\ IF Excluded(exclusions, call[t], "registry") THEN LetThrough(t)
     ELSE Go(t, "consulting") /\ UNCHANGED <<threadVars, listed>>
  /\ UNCHANGED <<rateVars, ruleVars, now, registry>>

RegistryStep(t) == RenameSource(t) \/ DecideMutation(t) \/ Spare(t)
=============================================================================
