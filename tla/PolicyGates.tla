----------------------------- MODULE PolicyGates -------------------------------
(***************************************************************************)
(* The callbacks that apply what the client has configured, together: each *)
(* thread launches a process, opens a file or changes a registry key, and  *)
(* the client replaces the rules, the exclusions and the registry list     *)
(* between any two of their steps.                                         *)
(***************************************************************************)
EXTENDS LaunchGate, RegistryGate

CONSTANTS
  Calls,   \* the callbacks each thread may enter
  Initial  \* the lists the client has sent first: records of one of each
ASSUME LimitsAssumption == MaxTime \in Nat \ {0} /\ MaxConfigs \in Nat /\ MaxHits \in Nat
ASSUME ThreadsAssumption == IsFiniteSet(Threads) /\ NoThread \notin Threads
ASSUME CallsAssumption == \A t \in Threads : \A c \in Calls[t] : c # NoCall
ASSUME RuleAssumption ==
  \A set \in RuleSets : \A i \in DOMAIN set : set[i].threshold \in Nat /\ set[i].window \in Nat \ {0}
ASSUME InitialAssumption ==
  Initial \subseteq [rules : RuleSets, exclusions : Exclusions, registry : RegistryConfigs]

vars == <<behaviorVars, registryVars>>

Init == \E i \in Initial : BehaviorInit(i.rules, i.exclusions) /\ RegistryInit(i.registry)

\* Bounds: no more launches and file callbacks begin than can be counted; a launch or a
\* registry change begins only while nothing has been counted and no callback of the other
\* kinds is under way, whose state it does not touch.
Kind(c) == IF c.op \in FileOperations THEN "file" ELSE c.op
MayBegin(c) ==
  /\ Kind(c) # "registry" => Len(hits) + Cardinality(Busy) < MaxHits
  /\ Kind(c) # "file" => hits = <<>> /\ \A t \in Busy : Kind(call[t]) = Kind(c)

Enter(t) ==
  \E c \in Calls[t] :
    /\ MayBegin(c)
    /\ \/ c.op = "launch" /\ BeginLaunch(t, c) /\ UNCHANGED registryVars
       \/ BeginFile(t, c) /\ UNCHANGED registryVars
       \/ BeginChange(t, c)

\* The bridge answers, or not.  A launch that had no decision keeps its result for a step.
LaunchAnswered(t) ==
  /\ Held(t) \/ Scanned(t)
  /\ \/ \E answer \in Outages :
          /\ Go(t, IF LaunchBlocked(t, answer) THEN "failed closed" ELSE "failed open")
          /\ UNCHANGED <<threadVars, listed>>
     \/ LetThrough(t)
  /\ UNCHANGED <<rateVars, ruleVars, now, registry>>
Return(t) ==
  /\ at[t] \in {"failed closed", "failed open", "consulting"}
  /\ LetThrough(t)
  /\ UNCHANGED <<rateVars, ruleVars, now, registry>>

ThreadStep(t) ==
  \/ Enter(t) \/ LaunchAnswered(t) \/ Return(t) \/ RegistryStep(t)
  \/ RuleStep(t) /\ UNCHANGED registryVars

\* Bounds: the rules are replaced by different ones, and only while registry changes, which do
\* not look at them, are let alone; the exclusions and the registry list only while a registry
\* change is under way, since to the other callbacks, which look at the exclusions first of
\* all, a list that comes later comes before the next one.
Changing == \E t \in Busy : call[t].op = "registry"
Request ==
  \/ /\ ~registry.enabled /\ \E set \in RuleSets \ {rules} : ConfigureRules(set)
     /\ UNCHANGED registryVars
  \/ Changing /\ \E list \in Exclusions : ConfigureExclusions(list) /\ UNCHANGED registryVars
  \/ Changing /\ \E config \in RegistryConfigs : ConfigureRegistry(config)
  \/ (Tick \/ \E s \in Slots, g \in Granules : Zero(s, g)) /\ UNCHANGED registryVars

Next == (\E t \in Threads : ThreadStep(t)) \/ Request

Spec == Init /\ [][Next]_vars

----------------------------------------------------------------------------
(* Properties *)

Places == {"idle", "known", "matching", "reading clock", "locking", "counting",
           "ruled", "unruled", "renaming", "deciding", "deciding new name", "sparing",
           "consulting", "failed closed", "failed open"}
Rules == UNION {{set[i] : i \in DOMAIN set} : set \in RuleSets}
ASSUME RulesAssumption == RuleSets \subseteq Seq(Rules)
AllCalls == UNION {Calls[t] : t \in Threads}
Keys == [rule : {r.id : r \in Rules},
         pid : {c.pid : c \in {d \in AllCalls : d.op # "registry"}}]
ASSUME KeysAssumption == NoKey \notin Keys

\* Every variable has the type of the structure it stands for; the rate lock has a holder
\* exactly while a match is counted, its holder has a slot, and no two slots have one key.
TypeOK ==
  /\ rules \in RuleSets /\ exclusions \in Exclusions
  /\ generation \in 0..MaxConfigs /\ configs \in 0..MaxConfigs
  /\ key \in [Slots -> Keys \cup {NoKey}] /\ count \in [Slots -> 0..MaxHits]
  /\ start \in [Slots -> Times \cup {0}] /\ flagged \in [Slots -> BOOLEAN]
  /\ wiping \subseteq Slots \X Granules /\ now \in Times
  /\ at \in [Threads -> Places] /\ call \in [Threads -> AllCalls \cup {NoCall}]
  /\ match \in [Threads -> {NoMatch} \cup [rule : Rules, generation : 0..MaxConfigs]]
  /\ stamp \in [Threads -> Times \cup {0}] /\ slot \in [Threads -> Slots \cup {NoSlot}]
  /\ \A t \in Threads : (rateLock = t) = (at[t] = "counting")
  /\ \A t \in Threads : at[t] = "counting" => slot[t] \in Slots
  /\ \A s, r \in Slots : key[s] = key[r] /\ key[s] # NoKey => s = r
  /\ registry \in RegistryConfigs

\* The hits of one process on the rules of one id that fall, between reading the clock and
\* being counted, into the window of their rule that begins at s; and whether they are as many
\* as one of them needs to fire.
KeyOf(h) == [rule |-> h.rule.id, pid |-> h.pid]
Window(k, s) == {j \in DOMAIN hits : /\ KeyOf(hits[j]) = k
                                     /\ hits[j].from < s + hits[j].rule.window /\ hits[j].to >= s}
Enough(set) == \E j \in set : Cardinality(set) >= hits[j].rule.threshold

\* A rule with a threshold fires only for a process that has matched it that often within
\* one window, under the rules now in force: matches under the rules before count only
\* when a match of theirs was counted while the rules were being replaced, and then also
\* for their own threshold.
BurstNeeded ==
  \A i \in DOMAIN hits : hits[i].fired =>
    \E s \in Times :
      LET all == Window(KeyOf(hits[i]), s)
          own == {j \in all : hits[j].generation = hits[i].generation}
          raced == \E j \in all : hits[j].raced IN
      i \in all /\ (Enough(own) \/ (raced /\ Enough(all)))

\* Of twice as many matches within less than a window, less one, not all are let through,
\* wherever the counting window begins; unless the process has found no slot, or matches
\* were counted while the rules were being replaced, or for another rule of the same id.
BurstCaught ==
  \A i \in DOMAIN hits :
    LET first == hits[i]
        end == first.from + first.rule.window
        within == {j \in DOMAIN hits : /\ KeyOf(hits[j]) = KeyOf(first)
                                       /\ hits[j].from < end /\ hits[j].to >= first.from}
        unfired == {j \in within : /\ hits[j].generation = first.generation
                                   /\ hits[j].from >= first.from /\ hits[j].to < end
                                   /\ ~hits[j].fired} IN
    (\A j \in within : ~hits[j].raced /\ hits[j].rule = first.rule) =>
      Cardinality(unfired) < 2 * first.rule.threshold - 1

\* In an outage a launch is let go or blocked as the behavior it was held for says: it is
\* blocked only if something that fails closed matched it, and let go only if something that
\* fails open did or nothing did; a rule counts if it was in force at any time since the
\* launch began, and an exclusion too.
FailsClosed(i) ==
  BuiltIn[i].type \notin {"ownership escalation", "system control", "directory delete"}
Chained(c) == c.image \in ScriptHosts /\ c.parent \in DocumentParents
MayFailClosed(t) ==
  \/ \E i \in About(call[t].terms) : FailsClosed(i)
  \/ Chained(call[t])
  \/ \E set \in sent[t] : \E i \in Matching(set, call[t]) : set[i].closed
MustFailClosed(t) ==
  \/ About(call[t].terms) # {} /\ \A i \in About(call[t].terms) : FailsClosed(i)
  \/ About(call[t].terms) = {} /\ Chained(call[t])
  \/ /\ About(call[t].terms) = {} /\ ~Chained(call[t])
     /\ \A list \in spared[t] : ~Excluded(list, call[t], "process")
     /\ \A set \in sent[t] :
          LET first == FirstMatch(set, call[t]) IN
          first # NoRule /\ first.closed /\ first.threshold <= 1
OutageFailsAsConfigured ==
  \A t \in Threads : Launching(t) =>
    /\ at[t] = "failed closed" => MayFailClosed(t)
    /\ at[t] = "failed open" => ~MustFailClosed(t)

\* The keys a change reaches, and those a registry list stands for.
AllPaths ==
  (UNION {config.paths : config \in RegistryConfigs})
  \cup UNION {{c.path, Destination(c)} : c \in {d \in AllCalls : d.op = "registry"}}
Names == UNION {Range(path) : path \in AllPaths}
ASSUME PathsAssumption == AllPaths \subseteq Seq(Names)
Reached(change, path) ==
  {k \in AllPaths : IF change \in ChangesOfOneKey THEN k = path ELSE IsPrefix(path, k)}
Standing(config) ==
  IF config.enabled THEN {k \in AllPaths : \E rule \in config.paths : IsPrefix(rule, k)} ELSE {}
Touches(t, path, config) == Reached(call[t].change, path) \cap Standing(config) # {}

\* A change by an ordinary process that reaches a listed key, for as long as the change is
\* under way, is not let through without asking the client, be the key the one it names, one
\* below it or the new one of a rename; unless an exclusion has spared the process.
MustConsult(t) ==
  /\ call[t].op = "registry" /\ call[t].pid \notin SystemPids \cup TrustedPids
  /\ \A list \in spared[t] : ~Excluded(list, call[t], "registry")
  /\ \/ \A config \in listed[t] : Touches(t, call[t].path, config)
     \/ /\ call[t].change = "rename key" /\ Fits(call[t])
        /\ \A config \in listed[t] :
             ~Touches(t, call[t].path, config) /\ Touches(t, Destination(call[t]), config)
ProtectedMutationDecided ==
  [][\A t \in Threads :
       at[t] # "idle" /\ MustConsult(t) /\ at'[t] = "idle" => at[t] = "consulting"]_vars
=============================================================================
