----------------------------- MODULE BehaviorRules -----------------------------
(***************************************************************************)
(* The declarative rules and the initiator exclusions (BehaviorRules.c).   *)
(* The client replaces either list as a whole under a push lock; a         *)
(* callback tests the exclusions and matches the rules in two sections of  *)
(* that lock, and counts the match of a rule that has a threshold under a  *)
(* spin lock, with a clock it has read before.  Replacing the rules ends   *)
(* with zeroing the counters, which is under neither lock: it is one step  *)
(* for each aligned word of each slot, in any order, and may fall between  *)
(* the read and the write of a counter.  A slot is never given back.       *)
(*                                                                         *)
(* A command line is the set of the strings it contains; a target axis is  *)
(* the set of paths its terms select, whatever the kind of match.          *)
(***************************************************************************)
EXTENDS Naturals, Sequences, FiniteSets

CONSTANTS
  Threads,     \* threads inside a callback
  Slots,       \* of the rate table
  RuleSets,    \* the sequences of rules the client may send, <<>> among them
  Exclusions,  \* the exclusion lists it may send, {} among them
  MaxTime,     \* bound: the last instant of the clock
  MaxConfigs,  \* bound: how often the client replaces a list
  MaxHits,     \* bound: how many matches are counted
  NoRule, NoKey, NoThread, NoSlot, NoCall

\* Time is counted from 1: a zeroed WindowStart is centuries ago.
Times == 1..MaxTime
Granules == {"key", "count", "start", "flag"}

VARIABLES
  rules,       \* g_BehaviorRules
  exclusions,  \* g_InitiatorExclusions
  generation,  \* history: how often the rules have been replaced
  configs,     \* history: how often any list has been replaced
  key,         \* of each slot of g_BehaviorRateSlots: RuleId and ProcessId, or NoKey,
  count,       \*   Count,
  start,       \*   WindowStart,
  flagged,     \*   Flagged
  wiping,      \* the words of the slots RtlZeroMemory has still to zero
  rateLock,    \* the thread in g_BehaviorRateLock
  now,         \* the system time
  at,          \* where each thread's callback is
  call,        \* what its callback is about
  match,       \* the rule it has matched, and when that rule was sent
  stamp,       \* the time it has read
  slot,        \* the slot it counts in
  hits,        \* history: the matches that were counted, in order
  sent,        \* history: the rule sequences in force since the callback began
  spared       \* history: the exclusion lists in force since the callback began

rateVars == <<key, count, start, flagged, rateLock, hits>>
ruleVars == <<rules, exclusions, generation, configs, wiping>>
threadVars == <<call, match, stamp, slot, sent, spared>>
behaviorVars == <<rateVars, ruleVars, threadVars, now, at>>

NoMatch == [rule |-> NoRule, generation |-> 0]

\* BehaviorProtectInitialize, and the lists the client has sent before the first callback.
BehaviorInit(set, list) ==
  /\ rules = set /\ exclusions = list /\ generation = 0 /\ configs = 0
  /\ key = [s \in Slots |-> NoKey] /\ count = [s \in Slots |-> 0]
  /\ start = [s \in Slots |-> 0] /\ flagged = [s \in Slots |-> FALSE]
  /\ wiping = {} /\ rateLock = NoThread /\ now = 1
  /\ at = [t \in Threads |-> "idle"] /\ call = [t \in Threads |-> NoCall]
  /\ match = [t \in Threads |-> NoMatch]
  /\ stamp = [t \in Threads |-> 0] /\ slot = [t \in Threads |-> NoSlot]
  /\ hits = <<>>
  /\ sent = [t \in Threads |-> {}] /\ spared = [t \in Threads |-> {}]

Busy == {t \in Threads : at[t] # "idle"}
Go(t, place) == at' = [at EXCEPT ![t] = place]

\* A callback begins with its first look at what is configured, and ends with nothing of its
\* own left.
Begin(t, c, place) ==
  /\ at[t] = "idle" /\ Go(t, place)
  /\ call' = [call EXCEPT ![t] = c]
  /\ sent' = [sent EXCEPT ![t] = {rules}] /\ spared' = [spared EXCEPT ![t] = {exclusions}]
  /\ UNCHANGED <<match, stamp, slot>>
Finish(t) ==
  /\ Go(t, "idle")
  /\ call' = [call EXCEPT ![t] = NoCall] /\ match' = [match EXCEPT ![t] = NoMatch]
  /\ stamp' = [stamp EXCEPT ![t] = 0] /\ slot' = [slot EXCEPT ![t] = NoSlot]
  /\ sent' = [sent EXCEPT ![t] = {}] /\ spared' = [spared EXCEPT ![t] = {}]

----------------------------------------------------------------------------
(* Matching.  A launch gives its command line and its actor's path, a file operation *)
(* its target.                                                                       *)

FileOperations == {"create", "write", "delete"}

\* A pattern is an image name or, with byPath, the end of an image path.
Selects(pattern, c) == pattern.image = c.image /\ (pattern.byPath => c.op = "launch")

Excluded(list, c, scope) == \E e \in list : scope \in e.scopes /\ Selects(e, c)

\* An axis without terms does not constrain.
InitiatorMatches(rule, c) == rule.initiators = {} \/ \E p \in rule.initiators : Selects(p, c)
CommandMatches(rule, c) == rule.terms \subseteq c.terms
TargetMatches(rule, c) == rule.targets = {} \/ c.target \in rule.targets
Matches(rule, c) ==
  /\ c.op \in rule.operations
  /\ InitiatorMatches(rule, c) /\ CommandMatches(rule, c) /\ TargetMatches(rule, c)

\* The first rule that matches hides the later ones, also when its rate is not reached.
Matching(set, c) == {i \in DOMAIN set : Matches(set[i], c)}
FirstMatch(set, c) ==
  IF Matching(set, c) = {} THEN NoRule
  ELSE set[CHOOSE i \in Matching(set, c) : \A j \in Matching(set, c) : i <= j]

\* What the rules say ends their part in a file callback; a launch goes on.
Say(t, said) ==
  IF call[t].op \in FileOperations THEN Finish(t)
  ELSE Go(t, said) /\ UNCHANGED <<call, match, stamp, slot, sent, spared>>

\* The first half of BehaviorEvaluateCustomRules.
Match(t) ==
  /\ at[t] = "matching"
  /\ LET rule == FirstMatch(rules, call[t]) IN
     IF rule = NoRule THEN Say(t, "unruled")
     ELSE IF rule.threshold <= 1 /\ call[t].op \in FileOperations THEN Finish(t)
     ELSE /\ match' = [match EXCEPT ![t] = [rule |-> rule, generation |-> generation]]
          /\ Go(t, IF rule.threshold <= 1 THEN "ruled" ELSE "reading clock")
          /\ UNCHANGED <<call, stamp, slot, sent, spared>>
  /\ UNCHANGED <<rateVars, ruleVars, now>>

----------------------------------------------------------------------------
(* BehaviorRuleRateAllows *)

Rule(t) == match[t].rule
Key(t) == [rule |-> Rule(t).id, pid |-> call[t].pid]

ReadClock(t) ==
  /\ at[t] = "reading clock" /\ Go(t, "locking")
  /\ stamp' = [stamp EXCEPT ![t] = now]
  /\ UNCHANGED <<rateVars, ruleVars, call, match, slot, sent, spared, now>>

\* The slot of the rule and the process, or a free one, or none: then the rule does not fire.
Found(k) == {s \in Slots : key[s] = k}
Free == {s \in Slots : key[s] = NoKey}
FindSlot(t) ==
  /\ at[t] = "locking" /\ rateLock = NoThread
  /\ rateLock' = t /\ Go(t, "counting")
  /\ \E s \in Found(Key(t)) : slot' = [slot EXCEPT ![t] = s]
  /\ UNCHANGED <<key, count, start, flagged, hits, ruleVars, call, match, stamp, sent, spared, now>>
ClaimSlot(t) ==
  /\ at[t] = "locking" /\ rateLock = NoThread /\ Found(Key(t)) = {}
  /\ rateLock' = t /\ Go(t, "counting")
  /\ \E s \in Free :
       /\ slot' = [slot EXCEPT ![t] = s]
       /\ key' = [key EXCEPT ![s] = Key(t)] /\ count' = [count EXCEPT ![s] = 0]
       /\ start' = [start EXCEPT ![s] = stamp[t]] /\ flagged' = [flagged EXCEPT ![s] = FALSE]
  /\ UNCHANGED <<hits, ruleVars, call, match, stamp, sent, spared, now>>
NoSlotLeftMutKeepsLock(t) ==
  /\ at[t] = "locking" /\ rateLock = NoThread /\ Found(Key(t)) = {} /\ Free = {}
  /\ Say(t, "unruled") /\ rateLock' = t
  /\ UNCHANGED <<key, count, start, flagged, hits, ruleVars, now>>
NoSlotLeft(t) ==
  /\ at[t] = "locking" /\ rateLock = NoThread /\ Found(Key(t)) = {} /\ Free = {}
  /\ Say(t, "unruled")
  /\ UNCHANGED <<rateVars, ruleVars, now>>

\* A clock that was read before the window began has seen nothing of it pass.
WindowOverMutLate(t, s) == start[s] = 0 \/ stamp[t] > start[s] + Rule(t).window
WindowOver(t, s) == start[s] = 0 \/ stamp[t] >= start[s] + Rule(t).window
CountedMutKeeps(t, s) == IF WindowOver(t, s) THEN 1 ELSE count[s]
Counted(t, s) == IF WindowOver(t, s) THEN 1 ELSE IF flagged[s] THEN count[s] ELSE count[s] + 1
Fires(t, s) == ~WindowOver(t, s) /\ (flagged[s] \/ count[s] + 1 >= Rule(t).threshold)

Raced(t) == wiping # {} \/ match[t].generation # generation
Hit(t, s) == [rule |-> Rule(t), pid |-> call[t].pid, generation |-> match[t].generation,
              from |-> stamp[t], to |-> now, fired |-> Fires(t, s), raced |-> Raced(t)]
\* Of a word the counting both reads and writes, a zero stored in between is lost.
Written(t, s) == IF WindowOver(t, s) THEN {"count", "start", "flag"}
                 ELSE IF flagged[s] THEN {}
                 ELSE {"count"} \cup (IF Fires(t, s) THEN {"flag"} ELSE {})
Count(t) ==
  /\ at[t] = "counting"
  /\ LET s == slot[t] IN
     /\ count' = [count EXCEPT ![s] = Counted(t, s)]
     /\ start' = [start EXCEPT ![s] = IF WindowOver(t, s) THEN stamp[t] ELSE @]
     /\ flagged' = [flagged EXCEPT ![s] = Fires(t, s)]
     /\ hits' = Append(hits, Hit(t, s))
     /\ Say(t, IF Fires(t, s) THEN "ruled" ELSE "unruled")
     /\ \E lost \in SUBSET Written(t, s) : wiping' = wiping \ ({s} \X lost)
  /\ rateLock' = NoThread
  /\ UNCHANGED <<key, rules, exclusions, generation, configs, now>>

----------------------------------------------------------------------------
(* The client's requests *)

\* BehaviorConfigureRules: the swap under the lock, then the zeroing.
ConfigureRules(set) ==
  /\ configs < MaxConfigs /\ configs' = configs + 1
  /\ rules' = set /\ generation' = generation + 1
  /\ wiping' = Slots \X Granules
  /\ sent' = [t \in Threads |-> IF t \in Busy THEN sent[t] \cup {set} ELSE {}]
  /\ UNCHANGED <<rateVars, exclusions, now, at, call, match, stamp, slot, spared>>
Zero(s, g) ==
  /\ <<s, g>> \in wiping /\ wiping' = wiping \ {<<s, g>>}
  /\ key' = IF g = "key" THEN [key EXCEPT ![s] = NoKey] ELSE key
  /\ count' = IF g = "count" THEN [count EXCEPT ![s] = 0] ELSE count
  /\ start' = IF g = "start" THEN [start EXCEPT ![s] = 0] ELSE start
  /\ flagged' = IF g = "flag" THEN [flagged EXCEPT ![s] = FALSE] ELSE flagged
  /\ UNCHANGED <<rules, exclusions, generation, configs, rateLock, hits, threadVars, now, at>>

\* BehaviorConfigureInitiatorExclusions.
ConfigureExclusions(list) ==
  /\ configs < MaxConfigs /\ configs' = configs + 1
  /\ exclusions' = list
  /\ spared' = [t \in Threads |-> IF t \in Busy THEN spared[t] \cup {list} ELSE {}]
  /\ UNCHANGED <<rateVars, rules, generation, wiping, now, at, call, match, stamp, slot, sent>>

Tick ==
  /\ now < MaxTime /\ now' = now + 1
  /\ UNCHANGED <<rateVars, ruleVars, threadVars, at>>

RuleStep(t) ==
  \/ Match(t)
  \/ ReadClock(t) \/ FindSlot(t) \/ ClaimSlot(t) \/ NoSlotLeft(t) \/ Count(t)
=============================================================================
