-------------------------- MODULE PolicyGates_proofs ---------------------------
(***************************************************************************)
(* Proofs about PolicyGates for all threads, rules, exclusions, registry   *)
(* lists and calls, and every size of the rate table.                      *)
(*                                                                         *)
(* A callback steps through its places while the client replaces the       *)
(* lists.  What a place says of the callback is an existence among the     *)
(* lists in force since it began, which no replacement takes away: the     *)
(* matched rule was the first of some sequence, the source of a rename was *)
(* protected by some list.                                                 *)
(*                                                                         *)
(* Of the rate table, RateInv says who holds it and that it does not       *)
(* outgrow its bounds, NeedInv what a slot's count and flag are worth: so  *)
(* many hits of its key lie in its window.  CatchInv is the reverse: how   *)
(* many hits a span of one window may have let through, by what the slot   *)
(* of their key says now.                                                  *)
(***************************************************************************)
EXTENDS PolicyGates, LibraryLemmas, TLAPS

----------------------------------------------------------------------------
(* The first match *)

\* The first match of a sequence is one of its matches.
LEMMA FirstIsMatch ==
  ASSUME NEW set \in RuleSets, NEW c, FirstMatch(set, c) # NoRule
  PROVE  \E i \in Matching(set, c) : FirstMatch(set, c) = set[i]
<1> DEFINE M == Matching(set, c)
<1>1. M # {} /\ FirstMatch(set, c) = set[CHOOSE i \in M : \A j \in M : i <= j]
  BY DEF FirstMatch
<1>2. M \subseteq Nat
  BY RulesAssumption DEF Matching
<1>3. \E i \in M : \A j \in M : i <= j
  BY <1>1, <1>2, Least
<1> HIDE DEF M
<1>4. (CHOOSE i \in M : \A j \in M : i <= j) \in M
  BY <1>3
<1> QED BY <1>1, <1>4 DEF M

\* The built-in rules: the least one a command line is about names the behavior.
LEMMA InspectFacts ==
  ASSUME NEW c
  PROVE  /\ Inspect(c) = "none" => About(c.terms) = {} /\ ~Chained(c)
         /\ About(c.terms) # {} =>
              \E i \in About(c.terms) : Inspect(c) = BuiltIn[i].type
         /\ About(c.terms) = {} /\ Inspect(c) # "none" =>
              Chained(c) /\ Inspect(c) = "parent chain"
<1> DEFINE A == About(c.terms)
<1>1. A \subseteq DOMAIN BuiltIn /\ DOMAIN BuiltIn \subseteq Nat
  <2>1. A \subseteq DOMAIN BuiltIn
    BY DEF About
  <2>2. DOMAIN BuiltIn \subseteq Nat
    BY DEF BuiltIn
  <2> QED BY <2>1, <2>2
<1>2. \A i \in DOMAIN BuiltIn : BuiltIn[i].type # "none"
  <2>1. DOMAIN BuiltIn = {1, 2, 3, 4, 5, 6, 7, 8, 9, 10, 11}
    BY DEF BuiltIn
  <2>2. /\ BuiltIn[1].type # "none" /\ BuiltIn[2].type # "none" /\ BuiltIn[3].type # "none"
        /\ BuiltIn[4].type # "none" /\ BuiltIn[5].type # "none" /\ BuiltIn[6].type # "none"
        /\ BuiltIn[7].type # "none" /\ BuiltIn[8].type # "none" /\ BuiltIn[9].type # "none"
        /\ BuiltIn[10].type # "none" /\ BuiltIn[11].type # "none"
    BY DEF BuiltIn
  <2> QED BY <2>1, <2>2
<1>3. ASSUME A # {}
      PROVE  \E i \in A : InspectCommandLine(c.terms) = BuiltIn[i].type
  <2>1. \E i \in A : \A j \in A : i <= j
    BY <1>1, <1>3, Least
  <2> HIDE DEF A
  <2>2. (CHOOSE i \in A : \A j \in A : i <= j) \in A
    BY <2>1
  <2> QED BY <1>3, <2>2 DEF A, InspectCommandLine
<1>4. A # {} => InspectCommandLine(c.terms) # "none"
  BY <1>1, <1>2, <1>3
<1>5. A = {} => InspectCommandLine(c.terms) = "none"
  BY DEF InspectCommandLine
<1> HIDE DEF A
<1> QED BY <1>3, <1>4, <1>5 DEF A, Inspect, InspectParentChain, Chained

----------------------------------------------------------------------------
(* Prefixes *)

LEMMA PrefixOfItself ==
  ASSUME NEW S, NEW s \in Seq(S)
  PROVE  IsPrefix(s, s)
BY DEF IsPrefix

LEMMA PrefixElements ==
  ASSUME NEW S, NEW s \in Seq(S), NEW t \in Seq(S)
  PROVE  IsPrefix(s, t) <=> Len(s) <= Len(t) /\ \A i \in 1..Len(s) : s[i] = t[i]
<1>1. ASSUME Len(s) <= Len(t) PROVE SubSeq(t, 1, Len(s)) = [i \in 1..Len(s) |-> t[i]]
  BY <1>1
<1>2. SubSeq(s, 1, Len(s)) = s
  OBVIOUS
<1>3. s = [i \in 1..Len(s) |-> s[i]]
  OBVIOUS
<1> QED BY <1>1, <1>2, <1>3 DEF IsPrefix

\* Of two prefixes of one sequence, one is a prefix of the other.
LEMMA PrefixesComparable ==
  ASSUME NEW S, NEW s \in Seq(S), NEW t \in Seq(S), NEW k \in Seq(S),
         IsPrefix(s, k), IsPrefix(t, k)
  PROVE  IsPrefix(s, t) \/ IsPrefix(t, s)
<1>1. Len(s) \in Nat /\ Len(t) \in Nat
  OBVIOUS
<1>2. CASE Len(s) <= Len(t)
  BY <1>1, <1>2, PrefixElements
<1>3. CASE Len(t) <= Len(s)
  BY <1>1, <1>3, PrefixElements
<1> QED BY <1>1, <1>2, <1>3

----------------------------------------------------------------------------
(* What a registry list protects *)

Touching(c, path, config) == Reached(c.change, path) \cap Standing(config) # {}

LEMMA ListedPaths ==
  ASSUME NEW config \in RegistryConfigs
  PROVE  \A rule \in config.paths : rule \in AllPaths /\ rule \in Seq(Names)
<1>1. \A rule \in config.paths : rule \in AllPaths
  BY DEF AllPaths
<1> QED BY <1>1, PathsAssumption

LEMMA CallPaths ==
  ASSUME NEW c \in AllCalls, c.op = "registry"
  PROVE  /\ c.path \in AllPaths /\ c.path \in Seq(Names)
         /\ Destination(c) \in AllPaths /\ Destination(c) \in Seq(Names)
<1> DEFINE Changes == {d \in AllCalls : d.op = "registry"}
           Pair(d) == {d.path, Destination(d)}
<1>1. c.path \in AllPaths /\ Destination(c) \in AllPaths
  <2>1. Pair(c) \in {Pair(d) : d \in Changes}
    OBVIOUS
  <2>2. c.path \in Pair(c) /\ Destination(c) \in Pair(c)
    OBVIOUS
  <2> DEFINE Listed == UNION {config.paths : config \in RegistryConfigs}
             Named == UNION {Pair(d) : d \in Changes}
  <2>3. c.path \in Named /\ Destination(c) \in Named
    <3> HIDE DEF Pair, Changes
    <3> QED BY <2>1, <2>2
  <2>4. AllPaths = Listed \cup Named
    BY DEF AllPaths
  <2> HIDE DEF Listed, Named
  <2> QED BY <2>3, <2>4
<1> QED BY <1>1, PathsAssumption

\* A list that does not match a path protects nothing that the change reaches.
LEMMA UnmatchedUntouched ==
  ASSUME NEW c, NEW path \in AllPaths, NEW config \in RegistryConfigs,
         NEW ancestors \in BOOLEAN, IncludesAncestors(c.change) => ancestors,
         ~PathMatches(config, path, ancestors)
  PROVE  ~Touching(c, path, config)
<1> SUFFICES ASSUME NEW k \in Reached(c.change, path), k \in Standing(config) PROVE FALSE
  BY DEF Touching
<1>1. config.enabled /\ k \in AllPaths /\ \E rule \in config.paths : IsPrefix(rule, k)
  BY DEF Standing
<1>2. PICK rule \in config.paths : IsPrefix(rule, k)
  BY <1>1
<1>3. rule \in Seq(Names) /\ path \in Seq(Names) /\ k \in Seq(Names)
  BY <1>1, ListedPaths, PathsAssumption
<1>4. CASE c.change \in ChangesOfOneKey
  BY <1>1, <1>2, <1>4 DEF Reached, PathMatches
<1>5. CASE c.change \notin ChangesOfOneKey
  <2>1. IsPrefix(path, k) /\ ancestors = TRUE
    BY <1>5 DEF Reached, IncludesAncestors
  <2>2. IsPrefix(rule, path) \/ IsPrefix(path, rule)
    BY <1>2, <1>3, <2>1, PrefixesComparable
  <2> QED BY <1>1, <2>1, <2>2 DEF PathMatches
<1> QED BY <1>4, <1>5

\* A list that matches the path of a rename protects something the rename reaches.
LEMMA MatchedTouched ==
  ASSUME NEW c, c.change = "rename key", NEW path \in AllPaths,
         NEW config \in RegistryConfigs, PathMatches(config, path, TRUE)
  PROVE  Touching(c, path, config)
<1>1. PICK rule \in config.paths : IsPrefix(rule, path) \/ IsPrefix(path, rule)
  BY DEF PathMatches
<1>2. config.enabled /\ rule \in AllPaths /\ rule \in Seq(Names) /\ path \in Seq(Names)
  BY ListedPaths, PathsAssumption DEF PathMatches
<1>3. c.change \notin ChangesOfOneKey
  BY DEF ChangesOfOneKey
<1>4. CASE IsPrefix(rule, path)
  <2>1. path \in Reached(c.change, path) /\ path \in Standing(config)
    BY <1>2, <1>3, <1>4, PrefixOfItself DEF Reached, Standing
  <2> QED BY <2>1 DEF Touching
<1>5. CASE IsPrefix(path, rule)
  <2>1. rule \in Reached(c.change, path) /\ rule \in Standing(config)
    BY <1>2, <1>3, <1>5, PrefixOfItself DEF Reached, Standing
  <2> QED BY <2>1 DEF Touching
<1> QED BY <1>1, <1>4, <1>5

----------------------------------------------------------------------------
(* The invariant *)

\* May and must a launch that matched these rules under these exclusions fail closed?
MayClose(c, sets) ==
  \/ \E i \in About(c.terms) : FailsClosed(i)
  \/ Chained(c)
  \/ \E set \in sets : \E i \in Matching(set, c) : set[i].closed
Slow(rule) == ~(rule.threshold <= 1)
FailsOpenFirst(set, c) ==
  LET first == FirstMatch(set, c) IN first = NoRule \/ ~first.closed \/ Slow(first)
MustClose(c, sets, lists) ==
  \/ About(c.terms) # {} /\ \A i \in About(c.terms) : FailsClosed(i)
  \/ About(c.terms) = {} /\ Chained(c)
  \/ /\ About(c.terms) = {} /\ ~Chained(c)
     /\ \A list \in lists : ~Excluded(list, c, "process")
     /\ \A set \in sets : ~FailsOpenFirst(set, c)

\* Whose places the places are.
PlaceOk(place, c) ==
  /\ (place \in {"known", "ruled", "unruled", "failed closed", "failed open"}
        => c.op = "launch")
  /\ (place \in {"matching", "reading clock", "locking", "counting"}
        => c.op \in FileOperations \cup {"launch"})
  /\ (place \in {"renaming", "deciding", "deciding new name", "sparing", "consulting"}
        => c.op = "registry")

\* What a place says of a launch.
LaunchOk(place, c, rule, sets, lists) ==
  /\ (place = "known" => Inspect(c) # "none")
  /\ (place \in {"matching", "reading clock", "locking", "counting", "ruled", "unruled"}
           /\ c.op = "launch" => Inspect(c) = "none")
  /\ (place \in {"reading clock", "locking", "counting", "ruled"}
        => \E set \in sets : rule = FirstMatch(set, c) /\ rule # NoRule)
  /\ (place \in {"reading clock", "locking", "counting"} /\ c.op = "launch" => Slow(rule))
  /\ (place = "unruled" => \/ \E list \in lists : Excluded(list, c, "process")
                           \/ \E set \in sets : FailsOpenFirst(set, c))
  /\ (place = "failed closed" => MayClose(c, sets))
  /\ (place = "failed open" => ~MustClose(c, sets, lists))

\* What a place says of a registry change.
RegistryOk(place, c, lists) ==
  /\ (place = "renaming" => c.change = "rename key")
  /\ (place = "deciding" /\ c.change = "rename key"
        => \E config \in lists : PathMatches(config, c.path, TRUE))
  /\ (place = "deciding new name"
        => /\ c.change = "rename key"
           /\ \E config \in lists : ~PathMatches(config, c.path, TRUE))

ThreadOk(t) ==
  at[t] # "idle" =>
    /\ call[t] \in AllCalls
    /\ rules \in sent[t] /\ exclusions \in spared[t]
    /\ (call[t].op = "registry" => registry \in listed[t])
    /\ PlaceOk(at[t], call[t])
    /\ LaunchOk(at[t], call[t], match[t].rule, sent[t], spared[t])
    /\ RegistryOk(at[t], call[t], listed[t])

Typed ==
  /\ rules \in RuleSets /\ exclusions \in Exclusions /\ registry \in RegistryConfigs
  /\ at \in [Threads -> Places] /\ call \in [Threads -> AllCalls \cup {NoCall}]
  /\ match = [t \in Threads |-> match[t]]
  /\ sent \in [Threads -> SUBSET RuleSets] /\ spared \in [Threads -> SUBSET Exclusions]
  /\ listed \in [Threads -> SUBSET RegistryConfigs]

IInv == Typed /\ \A t \in Threads : ThreadOk(t)

LEMMA InitIInv == Init => IInv
<1> SUFFICES ASSUME Init PROVE IInv
  OBVIOUS
<1>1. PICK i \in Initial : BehaviorInit(i.rules, i.exclusions) /\ RegistryInit(i.registry)
  BY DEF Init
<1>2. /\ i.rules \in RuleSets /\ i.exclusions \in Exclusions
      /\ i.registry \in RegistryConfigs
  BY InitialAssumption
<1>3. Typed
  BY <1>1, <1>2 DEF BehaviorInit, RegistryInit, Typed, Places
<1>4. \A t \in Threads : at[t] = "idle"
  BY <1>1 DEF BehaviorInit
<1> QED BY <1>3, <1>4 DEF IInv, ThreadOk

\* What holds of a launch or a change still holds when there have been more lists.
LEMMA LaunchGrows ==
  ASSUME NEW place, NEW c, NEW rule, NEW sets, NEW lists, NEW sets2, NEW lists2,
         LaunchOk(place, c, rule, sets, lists), sets \subseteq sets2, lists \subseteq lists2
  PROVE  LaunchOk(place, c, rule, sets2, lists2)
<1>1. MayClose(c, sets) => MayClose(c, sets2)
  BY DEF MayClose
<1>2. MustClose(c, sets2, lists2) => MustClose(c, sets, lists)
  BY DEF MustClose
<1> QED BY <1>1, <1>2 DEF LaunchOk

LEMMA RegistryGrows ==
  ASSUME NEW place, NEW c, NEW lists, NEW lists2,
         RegistryOk(place, c, lists), lists \subseteq lists2
  PROVE  RegistryOk(place, c, lists2)
BY DEF RegistryOk

----------------------------------------------------------------------------
(* What a step leaves alone *)

\* A step of a thread changes no list, and nothing of another thread.
OthersSame(t) ==
  /\ UNCHANGED <<rules, exclusions, registry>>
  /\ \A u \in Threads \ {t} :
       /\ at'[u] = at[u] /\ call'[u] = call[u] /\ match'[u] = match[u]
       /\ sent'[u] = sent[u] /\ spared'[u] = spared[u] /\ listed'[u] = listed[u]

LEMMA OthersOk ==
  ASSUME IInv, NEW t \in Threads, OthersSame(t), NEW u \in Threads \ {t}
  PROVE  ThreadOk(u)'
<1>1. ThreadOk(u)
  BY DEF IInv
<1> QED BY <1>1 DEF ThreadOk, OthersSame

\* A callback that goes on to another place of which what it says is true.
LEMMA GoesOn ==
  ASSUME IInv, NEW t \in Threads, at[t] # "idle", NEW place \in Places, Go(t, place),
         UNCHANGED <<rules, exclusions, registry, call, sent, spared, listed>>,
         NEW rule, match'[t].rule = rule,
         match' = [u \in Threads |-> match'[u]],
         \A u \in Threads \ {t} : match'[u] = match[u],
         PlaceOk(place, call[t]), LaunchOk(place, call[t], rule, sent[t], spared[t]),
         RegistryOk(place, call[t], listed[t])
  PROVE  IInv'
<1>1. Typed'
  BY DEF IInv, Typed, Go
<1>2. at'[t] = place /\ OthersSame(t)
  BY DEF IInv, Typed, Go, OthersSame
<1>3. ThreadOk(t)'
  BY <1>2 DEF IInv, ThreadOk
<1> QED BY <1>1, <1>2, <1>3, OthersOk DEF IInv

\* A callback that ends.
LEMMA Ends ==
  ASSUME IInv, NEW t \in Threads, Finish(t), UNCHANGED <<rules, exclusions, registry>>,
         listed' \in {listed, [listed EXCEPT ![t] = {}]}
  PROVE  IInv'
<1>1. Typed'
  BY DEF IInv, Typed, Finish, Go, Places
<1>2. at'[t] = "idle" /\ OthersSame(t)
  BY DEF IInv, Typed, Finish, Go, OthersSame
<1> QED BY <1>1, <1>2, OthersOk DEF IInv, ThreadOk

\* A callback that begins.
LEMMA Begins ==
  ASSUME IInv, NEW t \in Threads, NEW c \in Calls[t], NEW place \in Places, place # "idle",
         Begin(t, c, place), UNCHANGED <<rules, exclusions, registry>>,
         listed' = listed \/ listed' = [listed EXCEPT ![t] = {registry}],
         c.op = "registry" => listed' = [listed EXCEPT ![t] = {registry}],
         PlaceOk(place, c), RegistryOk(place, c, listed'[t]),
         \A rule : LaunchOk(place, c, rule, {rules}, {exclusions})
  PROVE  IInv'
<1>1. c \in AllCalls
  BY DEF AllCalls
<1>2. Typed'
  BY <1>1 DEF IInv, Typed, Begin, Go
<1>3. at'[t] = place /\ OthersSame(t)
  BY DEF IInv, Typed, Begin, Go, OthersSame
<1>4. call'[t] = c /\ sent'[t] = {rules} /\ spared'[t] = {exclusions}
  BY DEF IInv, Typed, Begin
<1>5. c.op = "registry" => registry \in listed'[t]
  BY DEF IInv, Typed
<1>6. ThreadOk(t)'
  BY <1>1, <1>3, <1>4, <1>5 DEF ThreadOk, OthersSame
<1> QED BY <1>2, <1>3, <1>6, OthersOk DEF IInv

----------------------------------------------------------------------------
(* The steps of the rules *)

LEMMA SaidOk ==
  ASSUME IInv, NEW t \in Threads, at[t] \in {"matching", "locking", "counting"},
         NEW said \in {"ruled", "unruled"}, Say(t, said),
         UNCHANGED <<rules, exclusions, registry, listed>>,
         call[t].op = "launch" =>
           LaunchOk(said, call[t], match[t].rule, sent[t], spared[t])
  PROVE  IInv'
<1>1. CASE call[t].op \in FileOperations
  BY <1>1, Ends DEF Say
<1>2. CASE call[t].op \notin FileOperations
  <2>1. call[t].op = "launch"
    BY <1>2 DEF IInv, ThreadOk, PlaceOk
  <2>2. Go(t, said) /\ UNCHANGED <<call, match, sent, spared>>
    BY <1>2 DEF Say
  <2>3. PlaceOk(said, call[t]) /\ RegistryOk(said, call[t], listed[t])
    BY <2>1 DEF PlaceOk, RegistryOk
  <2>4. said \in Places /\ at[t] # "idle"
    BY DEF Places
  <2>5. match' = [u \in Threads |-> match'[u]] /\ \A u \in Threads : match'[u] = match[u]
    BY <2>2 DEF IInv, Typed
  <2> QED BY <2>1, <2>2, <2>3, <2>4, <2>5, GoesOn
<1> QED BY <1>1, <1>2

\* In the places where a match is counted, some sequence has the rule first.
LEMMA CountedIsSlow ==
  ASSUME IInv, NEW t \in Threads, at[t] \in {"reading clock", "locking", "counting"}
  PROVE  /\ call[t].op = "launch" =>
              /\ Inspect(call[t]) = "none" /\ Slow(Rule(t))
              /\ \E set \in sent[t] : FailsOpenFirst(set, call[t])
         /\ \E set \in sent[t] : Rule(t) = FirstMatch(set, call[t]) /\ Rule(t) # NoRule
<1>1. LaunchOk(at[t], call[t], Rule(t), sent[t], spared[t])
  BY DEF IInv, ThreadOk, Rule
<1> QED BY <1>1 DEF LaunchOk, FailsOpenFirst

LEMMA MatchStep ==
  ASSUME IInv, NEW t \in Threads, Match(t), UNCHANGED registryVars
  PROVE  IInv'
<1> DEFINE rule == FirstMatch(rules, call[t])
<1>1. at[t] = "matching" /\ UNCHANGED <<rules, exclusions, registry, listed>>
  BY DEF Match, ruleVars, registryVars
<1>2. /\ rules \in sent[t] /\ PlaceOk(at[t], call[t])
      /\ (call[t].op = "launch" => Inspect(call[t]) = "none")
  BY <1>1 DEF IInv, ThreadOk, LaunchOk
<1>3. CASE rule = NoRule
  <2>1. LaunchOk("unruled", call[t], match[t].rule, sent[t], spared[t])
        \/ call[t].op # "launch"
    BY <1>2, <1>3 DEF LaunchOk, FailsOpenFirst
  <2> QED BY <1>1, <1>3, <2>1, SaidOk DEF Match
<1>4. CASE rule # NoRule /\ rule.threshold <= 1 /\ call[t].op \in FileOperations
  BY <1>1, <1>4, Ends DEF Match
<1>5. CASE rule # NoRule /\ ~(rule.threshold <= 1 /\ call[t].op \in FileOperations)
  <2> DEFINE place == IF rule.threshold <= 1 THEN "ruled" ELSE "reading clock"
  <2>1. /\ match' = [match EXCEPT ![t] = [rule |-> rule, generation |-> generation]]
        /\ Go(t, place) /\ UNCHANGED <<call, sent, spared>>
    BY <1>5 DEF Match
  <2>2. place \in Places /\ at[t] # "idle"
    BY <1>1 DEF Places
  <2>3. /\ match'[t].rule = rule /\ match' = [u \in Threads |-> match'[u]]
        /\ \A u \in Threads \ {t} : match'[u] = match[u]
    BY <2>1 DEF IInv, Typed
  <2>4. PlaceOk(place, call[t])
    BY <1>1, <1>2, <1>5 DEF PlaceOk
  <2>5. LaunchOk(place, call[t], rule, sent[t], spared[t])
    BY <1>2, <1>5 DEF LaunchOk, Slow
  <2>6. RegistryOk(place, call[t], listed[t])
    BY DEF RegistryOk
  <2> HIDE DEF place, rule
  <2> QED BY <1>1, <2>1, <2>2, <2>3, <2>4, <2>5, <2>6, GoesOn
<1> QED BY <1>3, <1>4, <1>5

\* A step on the way to being counted keeps the match.
LEMMA CountingGoesOn ==
  ASSUME IInv, NEW t \in Threads, at[t] \in {"reading clock", "locking"},
         NEW place \in {"locking", "counting"}, Go(t, place),
         UNCHANGED <<rules, exclusions, registry, listed, call, match, sent, spared>>
  PROVE  IInv'
<1>1. /\ PlaceOk(at[t], call[t])
      /\ LaunchOk(at[t], call[t], match[t].rule, sent[t], spared[t])
  BY DEF IInv, ThreadOk
<1>2. PlaceOk(place, call[t]) /\ RegistryOk(place, call[t], listed[t])
  BY <1>1 DEF PlaceOk, RegistryOk
<1>3. LaunchOk(place, call[t], match[t].rule, sent[t], spared[t])
  BY <1>1 DEF LaunchOk
<1>4. place \in Places /\ at[t] # "idle"
  BY DEF Places
<1>5. match' = [u \in Threads |-> match'[u]] /\ \A u \in Threads : match'[u] = match[u]
  BY DEF IInv, Typed
<1> QED BY <1>2, <1>3, <1>4, <1>5, GoesOn

LEMMA RuleSteps ==
  ASSUME IInv, NEW t \in Threads, RuleStep(t), UNCHANGED registryVars
  PROVE  IInv'
<1> USE DEF ruleVars, registryVars
<1>1. CASE Match(t)
  BY <1>1, MatchStep
<1>2. CASE ReadClock(t)
  BY <1>2, CountingGoesOn DEF ReadClock
<1>3. CASE FindSlot(t)
  BY <1>3, CountingGoesOn DEF FindSlot
<1>4. CASE ClaimSlot(t)
  BY <1>4, CountingGoesOn DEF ClaimSlot
<1>5. CASE NoSlotLeft(t)
  <2>1. LaunchOk("unruled", call[t], match[t].rule, sent[t], spared[t])
        \/ call[t].op # "launch"
    BY <1>5, CountedIsSlow DEF NoSlotLeft, LaunchOk
  <2> QED BY <1>5, <2>1, SaidOk DEF NoSlotLeft
<1>6. CASE Count(t)
  <2> DEFINE said == IF Fires(t, slot[t]) THEN "ruled" ELSE "unruled"
  <2>1. at[t] = "counting" /\ Say(t, said) /\ UNCHANGED <<rules, exclusions>>
    BY <1>6 DEF Count
  <2>2. LaunchOk(said, call[t], match[t].rule, sent[t], spared[t]) \/ call[t].op # "launch"
    BY <2>1, CountedIsSlow DEF LaunchOk, Rule
  <2>3. said \in {"ruled", "unruled"}
    OBVIOUS
  <2> HIDE DEF said
  <2> QED BY <2>1, <2>2, <2>3, SaidOk
<1> QED BY <1>1, <1>2, <1>3, <1>4, <1>5, <1>6 DEF RuleStep

----------------------------------------------------------------------------
(* The steps of a launch *)

\* A behavior is of a type that fails open, or closed, as a built-in rule the launch is
\* about; a parent chain fails closed.
OpenTypes == {"ownership escalation", "system control", "directory delete"}
LEMMA OpenKinds ==
  ASSUME NEW c, Inspect(c) \in OpenTypes
  PROVE  \E i \in About(c.terms) : ~FailsClosed(i)
<1>1. Inspect(c) # "none" /\ Inspect(c) # "parent chain"
  BY DEF OpenTypes
<1>2. PICK i \in About(c.terms) : Inspect(c) = BuiltIn[i].type
  BY <1>1, InspectFacts
<1> QED BY <1>2 DEF FailsClosed, OpenTypes

LEMMA ClosedKinds ==
  ASSUME NEW c, Inspect(c) # "none", Inspect(c) \notin OpenTypes
  PROVE  \A sets : MayClose(c, sets)
<1>1. CASE About(c.terms) = {}
  BY <1>1, InspectFacts DEF MayClose
<1>2. CASE About(c.terms) # {}
  <2>1. PICK i \in About(c.terms) : Inspect(c) = BuiltIn[i].type
    BY <1>2, InspectFacts
  <2>2. FailsClosed(i)
    BY <2>1 DEF FailsClosed, OpenTypes
  <2> QED BY <2>2 DEF MayClose
<1> QED BY <1>1, <1>2

\* Without a decision a held launch fails as what held it says, and a scanned one open.
LEMMA OutageOk ==
  ASSUME IInv, NEW t \in Threads, Held(t) \/ Scanned(t), NEW answer \in Outages
  PROVE  /\ (LaunchBlocked(t, answer) => MayClose(call[t], sent[t]))
         /\ (~LaunchBlocked(t, answer) => ~MustClose(call[t], sent[t], spared[t]))
<1>1. /\ call[t].op = "launch" /\ sent[t] \subseteq RuleSets
      /\ LaunchOk(at[t], call[t], Rule(t), sent[t], spared[t])
  BY DEF IInv, Typed, ThreadOk, Held, Scanned, Launching, Rule
<1>2. answer # "block"
  BY DEF Outages
<1>3. CASE at[t] = "known"
  <2>1. Held(t) /\ Inspect(call[t]) # "none"
    BY <1>1, <1>3 DEF LaunchOk, Held, Scanned
  <2>2. CASE FailsOpen(t)
    <3>1. Inspect(call[t]) \in OpenTypes
      BY <1>3, <2>2 DEF FailsOpen, OpenTypes
    <3>2. \E i \in About(call[t].terms) : ~FailsClosed(i)
      BY <3>1, OpenKinds
    <3> QED BY <1>2, <2>1, <2>2, <3>2 DEF LaunchBlocked, HeldBlocked, MustClose
  <2>3. CASE ~FailsOpen(t)
    BY <1>2, <1>3, <2>1, <2>3, ClosedKinds
       DEF FailsOpen, OpenTypes, LaunchBlocked, HeldBlocked
  <2> QED BY <2>2, <2>3
<1>4. CASE at[t] = "ruled"
  <2>1. Held(t) /\ About(call[t].terms) = {} /\ ~Chained(call[t])
    BY <1>1, <1>4, InspectFacts DEF LaunchOk, Held, Scanned
  <2>2. PICK set \in sent[t] : Rule(t) = FirstMatch(set, call[t]) /\ Rule(t) # NoRule
    BY <1>1, <1>4 DEF LaunchOk
  <2>3. CASE Rule(t).closed
    <3>1. \E i \in Matching(set, call[t]) : set[i].closed
      BY <1>1, <2>2, <2>3, FirstIsMatch
    <3> QED BY <1>2, <1>4, <2>1, <2>3, <3>1
            DEF FailsOpen, LaunchBlocked, HeldBlocked, MayClose
  <2>4. CASE ~Rule(t).closed
    <3>1. FailsOpenFirst(set, call[t])
      BY <2>2, <2>4 DEF FailsOpenFirst
    <3> QED BY <1>2, <1>4, <2>1, <2>4, <3>1
            DEF FailsOpen, LaunchBlocked, HeldBlocked, MustClose
  <2> QED BY <2>3, <2>4
<1>5. CASE at[t] = "unruled"
  <2>1. ~Held(t) /\ About(call[t].terms) = {} /\ ~Chained(call[t])
    BY <1>1, <1>5, InspectFacts DEF LaunchOk, Held
  <2>2. ~MustClose(call[t], sent[t], spared[t])
    BY <1>1, <1>5, <2>1 DEF LaunchOk, MustClose
  <2> QED BY <1>2, <2>1, <2>2 DEF LaunchBlocked, ScanBlocked
<1> QED BY <1>3, <1>4, <1>5 DEF Held, Scanned

LEMMA LaunchBegins ==
  ASSUME IInv, NEW t \in Threads, NEW c \in Calls[t], c.op = "launch", BeginLaunch(t, c),
         UNCHANGED registryVars
  PROVE  IInv'
<1> DEFINE place == IF Inspect(c) # "none" THEN "known"
                    ELSE IF Excluded(exclusions, c, "process") THEN "unruled" ELSE "matching"
<1>1. Begin(t, c, place) /\ UNCHANGED <<rules, exclusions, registry, listed>>
  BY DEF BeginLaunch, ruleVars, registryVars
<1>2. \A rule : LaunchOk(place, c, rule, {rules}, {exclusions})
  BY DEF LaunchOk
<1>3. PlaceOk(place, c) /\ RegistryOk(place, c, listed'[t])
  BY DEF PlaceOk, RegistryOk
<1>4. place \in Places /\ place # "idle"
  BY DEF Places
<1> HIDE DEF place
<1> QED BY <1>1, <1>2, <1>3, <1>4, Begins

LEMMA FileBegins ==
  ASSUME IInv, NEW t \in Threads, NEW c \in Calls[t], BeginFile(t, c), UNCHANGED registryVars
  PROVE  IInv'
<1>1. /\ Begin(t, c, "matching") /\ c.op \in FileOperations
      /\ UNCHANGED <<rules, exclusions, registry, listed>>
  BY DEF BeginFile, ruleVars, registryVars
<1>2. c.op # "launch" /\ c.op # "registry"
  BY <1>1 DEF FileOperations
<1>3. \A rule : LaunchOk("matching", c, rule, {rules}, {exclusions})
  BY <1>2 DEF LaunchOk
<1>4. PlaceOk("matching", c) /\ RegistryOk("matching", c, listed'[t])
  BY <1>1 DEF PlaceOk, RegistryOk
<1>5. "matching" \in Places
  BY DEF Places
<1> QED BY <1>1, <1>2, <1>3, <1>4, <1>5, Begins

LEMMA AnswerStep ==
  ASSUME IInv, NEW t \in Threads, LaunchAnswered(t)
  PROVE  IInv'
<1>1. (Held(t) \/ Scanned(t)) /\ UNCHANGED <<rules, exclusions, registry>>
  BY DEF LaunchAnswered, ruleVars
<1>2. CASE LetThrough(t)
  BY <1>1, <1>2, Ends DEF LetThrough
<1>3. ASSUME NEW answer \in Outages, UNCHANGED <<threadVars, listed>>,
             Go(t, IF LaunchBlocked(t, answer) THEN "failed closed" ELSE "failed open")
      PROVE  IInv'
  <2> DEFINE place == IF LaunchBlocked(t, answer) THEN "failed closed" ELSE "failed open"
  <2>1. Go(t, place) /\ UNCHANGED <<call, match, sent, spared, listed>>
    BY <1>3 DEF threadVars
  <2>2. LaunchOk(place, call[t], match[t].rule, sent[t], spared[t])
    BY <1>1, OutageOk DEF LaunchOk
  <2>3. PlaceOk(place, call[t]) /\ RegistryOk(place, call[t], listed[t])
    BY <1>1 DEF PlaceOk, RegistryOk, Held, Scanned, Launching
  <2>4. place \in Places /\ at[t] # "idle"
    BY <1>1 DEF Places, Held, Scanned, Launching
  <2>5. match' = [u \in Threads |-> match'[u]] /\ \A u \in Threads : match'[u] = match[u]
    BY <2>1 DEF IInv, Typed
  <2> HIDE DEF place
  <2> QED BY <1>1, <2>1, <2>2, <2>3, <2>4, <2>5, GoesOn
<1> QED BY <1>2, <1>3 DEF LaunchAnswered

LEMMA ReturnStep ==
  ASSUME IInv, NEW t \in Threads, Return(t)
  PROVE  IInv'
BY Ends DEF Return, LetThrough, ruleVars

----------------------------------------------------------------------------
(* The steps of a registry change *)

LEMMA ChangeBegins ==
  ASSUME IInv, NEW t \in Threads, NEW c \in Calls[t], BeginChange(t, c)
  PROVE  IInv'
<1> DEFINE place == IF c.change = "rename key" THEN "renaming" ELSE "deciding"
<1>1. /\ c.op = "registry" /\ Begin(t, c, place)
      /\ listed' = [listed EXCEPT ![t] = {registry}]
      /\ UNCHANGED <<rules, exclusions, registry>>
  BY DEF BeginChange, ruleVars
<1>2. \A rule : LaunchOk(place, c, rule, {rules}, {exclusions})
  BY DEF LaunchOk
<1>3. PlaceOk(place, c) /\ RegistryOk(place, c, listed'[t])
  BY <1>1 DEF PlaceOk, RegistryOk
<1>4. place \in Places /\ place # "idle"
  BY DEF Places
<1> HIDE DEF place
<1> QED BY <1>1, <1>2, <1>3, <1>4, Begins

\* A registry change that goes on, of which what the new place says is true.
LEMMA ChangeGoesOn ==
  ASSUME IInv, NEW t \in Threads, call[t].op = "registry", at[t] # "idle",
         NEW place \in {"deciding", "deciding new name", "sparing", "consulting"},
         Go(t, place), UNCHANGED <<rules, exclusions, registry, threadVars, listed>>,
         RegistryOk(place, call[t], listed[t])
  PROVE  IInv'
<1>1. UNCHANGED <<call, match, sent, spared, listed>>
  BY DEF threadVars
<1>2. LaunchOk(place, call[t], match[t].rule, sent[t], spared[t])
  BY DEF LaunchOk
<1>3. PlaceOk(place, call[t]) /\ place \in Places
  BY DEF PlaceOk, Places
<1>4. match' = [u \in Threads |-> match'[u]] /\ \A u \in Threads : match'[u] = match[u]
  BY <1>1 DEF IInv, Typed
<1> QED BY <1>1, <1>2, <1>3, <1>4, GoesOn

LEMMA RegistrySteps ==
  ASSUME IInv, NEW t \in Threads, RegistryStep(t)
  PROVE  IInv'
<1>1. /\ at[t] \in {"renaming", "deciding", "deciding new name", "sparing"}
      /\ UNCHANGED <<rules, exclusions, registry>>
  BY DEF RegistryStep, RenameSource, DecideMutation, Spare, ruleVars
<1>2. call[t].op = "registry" /\ registry \in listed[t]
      /\ RegistryOk(at[t], call[t], listed[t])
  BY <1>1 DEF IInv, ThreadOk, PlaceOk
<1>3. CASE LetThrough(t)
  BY <1>1, <1>3, Ends DEF LetThrough
<1>4. CASE RenameSource(t) /\ ~LetThrough(t)
  <2>1. Go(t, RenameDecides(t)) /\ UNCHANGED <<threadVars, listed>>
    BY <1>4 DEF RenameSource
  <2>2. /\ RenameDecides(t) \in {"deciding", "deciding new name"}
        /\ RegistryOk(RenameDecides(t), call[t], listed[t])
    BY <1>2, <1>4 DEF RenameDecides, RegistryOk, RenameSource
  <2> QED BY <1>1, <1>2, <2>1, <2>2, ChangeGoesOn
<1>5. CASE DecideMutation(t) /\ ~LetThrough(t)
  <2>1. Go(t, "sparing") /\ UNCHANGED <<threadVars, listed>>
    BY <1>5 DEF DecideMutation
  <2>2. RegistryOk("sparing", call[t], listed[t])
    BY DEF RegistryOk
  <2> QED BY <1>1, <1>2, <2>1, <2>2, ChangeGoesOn
<1>6. CASE Spare(t) /\ ~LetThrough(t)
  <2>1. Go(t, "consulting") /\ UNCHANGED <<threadVars, listed>>
    BY <1>6 DEF Spare
  <2>2. RegistryOk("consulting", call[t], listed[t])
    BY DEF RegistryOk
  <2> QED BY <1>1, <1>2, <2>1, <2>2, ChangeGoesOn
<1> QED BY <1>3, <1>4, <1>5, <1>6 DEF RegistryStep

----------------------------------------------------------------------------
(* The client's requests *)

LEMMA RequestStep == IInv /\ Request => IInv'
<1> SUFFICES ASSUME IInv, Request PROVE IInv'
  OBVIOUS
<1> USE DEF IInv
<1>1. ASSUME NEW set \in RuleSets, ConfigureRules(set), UNCHANGED registryVars PROVE IInv'
  <2>1. /\ rules' = set /\ UNCHANGED <<exclusions, registry, at, call, match, spared, listed>>
        /\ sent' = [t \in Threads |-> IF t \in Busy THEN sent[t] \cup {set} ELSE {}]
    BY <1>1 DEF ConfigureRules, registryVars
  <2>2. Typed'
    BY <2>1 DEF Typed
  <2>3. ASSUME NEW t \in Threads PROVE ThreadOk(t)'
    <3>1. ThreadOk(t)
      OBVIOUS
    <3>2. CASE at[t] # "idle"
      <4>1. sent'[t] = sent[t] \cup {set}
        BY <2>1, <3>2 DEF Busy
      <4>2. LaunchOk(at[t], call[t], match[t].rule, sent'[t], spared[t])
        BY <3>1, <3>2, <4>1, LaunchGrows DEF ThreadOk
      <4> QED BY <2>1, <3>1, <3>2, <4>1, <4>2 DEF ThreadOk
    <3> QED BY <2>1, <3>2 DEF ThreadOk
  <2> QED BY <2>2, <2>3
<1>2. ASSUME NEW list \in Exclusions, ConfigureExclusions(list), UNCHANGED registryVars
      PROVE  IInv'
  <2>1. /\ exclusions' = list /\ UNCHANGED <<rules, registry, at, call, match, sent, listed>>
        /\ spared' = [t \in Threads |-> IF t \in Busy THEN spared[t] \cup {list} ELSE {}]
    BY <1>2 DEF ConfigureExclusions, registryVars
  <2>2. Typed'
    BY <2>1 DEF Typed
  <2>3. ASSUME NEW t \in Threads PROVE ThreadOk(t)'
    <3>1. ThreadOk(t)
      OBVIOUS
    <3>2. CASE at[t] # "idle"
      <4>1. spared'[t] = spared[t] \cup {list}
        BY <2>1, <3>2 DEF Busy
      <4>2. LaunchOk(at[t], call[t], match[t].rule, sent[t], spared'[t])
        BY <3>1, <3>2, <4>1, LaunchGrows DEF ThreadOk
      <4> QED BY <2>1, <3>1, <3>2, <4>1, <4>2 DEF ThreadOk
    <3> QED BY <2>1, <3>2 DEF ThreadOk
  <2> QED BY <2>2, <2>3
<1>3. ASSUME NEW config \in RegistryConfigs, ConfigureRegistry(config) PROVE IInv'
  <2>1. /\ registry' = config /\ UNCHANGED <<rules, exclusions, at, call, match, sent, spared>>
        /\ listed' = [t \in Threads |-> IF t \in Busy THEN listed[t] \cup {config} ELSE {}]
    BY <1>3 DEF ConfigureRegistry, threadVars
  <2>2. Typed'
    BY <2>1 DEF Typed
  <2>3. ASSUME NEW t \in Threads PROVE ThreadOk(t)'
    <3>1. ThreadOk(t)
      OBVIOUS
    <3>2. CASE at[t] # "idle"
      <4>1. listed'[t] = listed[t] \cup {config}
        BY <2>1, <3>2 DEF Busy
      <4>2. RegistryOk(at[t], call[t], listed'[t])
        BY <3>1, <3>2, <4>1, RegistryGrows DEF ThreadOk
      <4> QED BY <2>1, <3>1, <3>2, <4>1, <4>2 DEF ThreadOk
    <3> QED BY <2>1, <3>2 DEF ThreadOk
  <2> QED BY <2>2, <2>3
<1>4. ASSUME Tick \/ \E s \in Slots, g \in Granules : Zero(s, g), UNCHANGED registryVars
      PROVE  IInv'
  <2>1. UNCHANGED <<rules, exclusions, registry, at, call, match, sent, spared, listed>>
    BY <1>4 DEF Tick, Zero, ruleVars, threadVars, registryVars
  <2> QED BY <2>1 DEF Typed, ThreadOk
<1> QED BY <1>1, <1>2, <1>3, <1>4 DEF Request

----------------------------------------------------------------------------
(* The theorems *)

LEMMA NextIInv == IInv /\ [Next]_vars => IInv'
<1> SUFFICES ASSUME IInv, [Next]_vars PROVE IInv'
  OBVIOUS
<1>1. CASE UNCHANGED vars
  BY <1>1 DEF vars, behaviorVars, registryVars, ruleVars, threadVars, IInv, Typed, ThreadOk
<1>2. CASE Request
  BY <1>2, RequestStep
<1>3. ASSUME NEW t \in Threads, ThreadStep(t) PROVE IInv'
  <2>1. CASE Enter(t)
    BY <2>1, LaunchBegins, FileBegins, ChangeBegins DEF Enter
  <2> QED BY <1>3, <2>1, AnswerStep, ReturnStep, RegistrySteps, RuleSteps DEF ThreadStep
<1> QED BY <1>1, <1>2, <1>3 DEF Next

LEMMA Invariant == Spec => []IInv
BY InitIInv, NextIInv, PTL DEF Spec

LEMMA MayIsMay ==
  ASSUME NEW t \in Threads
  PROVE  /\ MayFailClosed(t) <=> MayClose(call[t], sent[t])
         /\ MustFailClosed(t) <=> MustClose(call[t], sent[t], spared[t])
<1>1. MayFailClosed(t) <=> MayClose(call[t], sent[t])
  BY DEF MayFailClosed, MayClose
<1>2. ASSUME NEW set
      PROVE  ~FailsOpenFirst(set, call[t]) <=>
               LET first == FirstMatch(set, call[t]) IN
               first # NoRule /\ first.closed /\ first.threshold <= 1
  BY DEF FailsOpenFirst, Slow
<1>3. MustFailClosed(t) <=> MustClose(call[t], sent[t], spared[t])
  BY <1>2 DEF MustFailClosed, MustClose
<1> QED BY <1>1, <1>3

\* However many lists the client sends while a launch is under way: in an outage the launch
\* is blocked only for something that fails closed, and let go only for something that fails
\* open or for nothing.
THEOREM OutagesFailAsConfigured == Spec => []OutageFailsAsConfigured
<1>1. ASSUME IInv, NEW t \in Threads, Launching(t)
      PROVE  /\ at[t] = "failed closed" => MayFailClosed(t)
             /\ at[t] = "failed open" => ~MustFailClosed(t)
  <2>1. LaunchOk(at[t], call[t], match[t].rule, sent[t], spared[t])
    BY <1>1 DEF IInv, ThreadOk, Launching
  <2> QED BY <2>1, MayIsMay DEF LaunchOk
<1>2. IInv => OutageFailsAsConfigured
  BY <1>1 DEF OutageFailsAsConfigured
<1> QED BY <1>2, Invariant, PTL

\* No step moves two threads.
LEMMA StepMovesOne ==
  ASSUME NEW u \in Threads, ThreadStep(u)
  PROVE  \E place : Go(u, place)
<1>1. ASSUME NEW said, Say(u, said) PROVE \E place : Go(u, place)
  BY <1>1 DEF Say, Finish
<1>2. CASE Enter(u)
  BY <1>2 DEF Enter, BeginLaunch, BeginFile, BeginChange, Begin
<1>3. CASE LaunchAnswered(u) \/ Return(u)
  BY <1>3 DEF LaunchAnswered, Return, LetThrough, Finish
<1>4. CASE RegistryStep(u)
  BY <1>4 DEF RegistryStep, RenameSource, DecideMutation, Spare, LetThrough, Finish
<1>5. CASE RuleStep(u)
  <2>1. CASE Match(u)
    BY <1>1, <2>1 DEF Match, Finish
  <2>2. CASE Count(u)
    BY <1>1, <2>2 DEF Count
  <2>3. CASE NoSlotLeft(u)
    BY <1>1, <2>3 DEF NoSlotLeft
  <2> QED BY <1>5, <2>1, <2>2, <2>3 DEF RuleStep, ReadClock, FindSlot, ClaimSlot
<1> QED BY <1>2, <1>3, <1>4, <1>5 DEF ThreadStep

\* Only the steps of a registry change, or the client's answer, end it.
LEMMA WhatEndsAChange ==
  ASSUME IInv, [Next]_vars, NEW t \in Threads, at[t] # "idle", at'[t] = "idle",
         call[t].op = "registry", at[t] # "consulting"
  PROVE  RegistryStep(t)
<1>1. ~Request
  BY DEF Request, ConfigureRules, ConfigureExclusions, ConfigureRegistry, Tick, Zero
<1>2. ~(UNCHANGED vars)
  BY DEF vars, behaviorVars
<1>3. PICK u \in Threads : ThreadStep(u)
  BY <1>1, <1>2 DEF Next
<1>4. u = t
  BY <1>3, StepMovesOne DEF Go, IInv, Typed
<1>5. PlaceOk(at[t], call[t])
  BY DEF IInv, ThreadOk
<1>6. ~Enter(t)
  BY DEF Enter, BeginLaunch, BeginFile, BeginChange, Begin
<1>7. ~LaunchAnswered(t) /\ ~Return(t)
  BY <1>5 DEF LaunchAnswered, Return, Held, Scanned, Launching, PlaceOk
<1>8. ~RuleStep(t)
  <2>1. at[t] \notin {"matching", "reading clock", "locking", "counting"}
    BY <1>5 DEF PlaceOk, FileOperations
  <2> QED BY <2>1 DEF RuleStep, Match, ReadClock, FindSlot, ClaimSlot, NoSlotLeft, Count
<1> QED BY <1>3, <1>4, <1>6, <1>7, <1>8 DEF ThreadStep

\* However the client's lists come and go: a change that every list in force since it began
\* asks about is not let through without asking the client.
THEOREM ProtectedMutationsAreDecided == Spec => ProtectedMutationDecided
<1> DEFINE Decides == \A t \in Threads :
                        at[t] # "idle" /\ MustConsult(t) /\ at'[t] = "idle" => at[t] = "consulting"
<1>1. ASSUME IInv, [Next]_vars PROVE Decides
  <2> SUFFICES ASSUME NEW t \in Threads, at[t] # "idle", at'[t] = "idle", at[t] # "consulting"
               PROVE  ~MustConsult(t)
    OBVIOUS
  <2> DEFINE c == call[t]
  <2>1. CASE c.op # "registry"
    BY <2>1 DEF MustConsult
  <2>2. CASE c.op = "registry"
    <3>1. /\ c \in AllCalls /\ registry \in listed[t] /\ exclusions \in spared[t]
          /\ RegistryOk(at[t], c, listed[t]) /\ listed[t] \subseteq RegistryConfigs
          /\ registry \in RegistryConfigs
      BY <1>1, <2>2 DEF IInv, ThreadOk, Typed
    <3>2. /\ c.path \in AllPaths /\ Destination(c) \in AllPaths
      BY <2>2, <3>1, CallPaths
    <3>3. \A path, config : Touches(t, path, config) <=> Touching(c, path, config)
      BY DEF Touches, Touching
    <3>4. c.change = "rename key" => IncludesAncestors(c.change)
      BY DEF IncludesAncestors, ChangesOfOneKey
    <3> HIDE DEF c
    <3>5. CASE RenameSource(t)
      <4>1. RenameDecides(t) = "deciding new name" /\ ~Fits(c)
        BY <1>1, <3>5 DEF RenameSource, RenameDecides, Go, c, IInv, Typed
      <4>2. ~PathMatches(registry, c.path, TRUE)
        BY <4>1 DEF RenameDecides, c
      <4>3. ~Touching(c, c.path, registry)
        BY <3>1, <3>2, <4>2, UnmatchedUntouched
      <4> QED BY <3>1, <3>3, <4>1, <4>3 DEF MustConsult, c
    <3>6. CASE DecideMutation(t)
      <4>1. /\ at[t] \in {"deciding", "deciding new name"}
            /\ \/ ~PathMatches(registry, Decided(t), IncludesAncestors(c.change))
               \/ c.pid \in SystemPids \cup TrustedPids
        BY <1>1, <3>6 DEF DecideMutation, Go, c, IInv, Typed
      <4>2. CASE c.pid \in SystemPids \cup TrustedPids
        BY <4>2 DEF MustConsult, c
      <4>3. CASE /\ at[t] = "deciding"
                 /\ ~PathMatches(registry, c.path, IncludesAncestors(c.change))
        <5>1. ~Touching(c, c.path, registry)
          BY <3>1, <3>2, <4>3, UnmatchedUntouched DEF IncludesAncestors
        <5>2. c.change = "rename key" =>
                \E config \in listed[t] : Touching(c, c.path, config)
          BY <3>1, <3>2, <4>3, MatchedTouched DEF RegistryOk
        <5> QED BY <3>1, <3>3, <5>1, <5>2 DEF MustConsult, c
      <4>4. CASE /\ at[t] = "deciding new name"
                 /\ ~PathMatches(registry, Destination(c), IncludesAncestors(c.change))
        <5>1. ~Touching(c, Destination(c), registry)
          BY <3>1, <3>2, <4>4, UnmatchedUntouched DEF IncludesAncestors
        <5>2. \E config \in listed[t] : ~Touching(c, c.path, config)
          BY <3>1, <3>2, <4>4, UnmatchedUntouched DEF RegistryOk
        <5> QED BY <3>1, <3>3, <5>1, <5>2 DEF MustConsult, c
      <4> QED BY <4>1, <4>2, <4>3, <4>4 DEF Decided, c
    <3>7. CASE Spare(t)
      <4>1. Excluded(exclusions, c, "registry")
        BY <1>1, <3>7 DEF Spare, Go, c, IInv, Typed
      <4> QED BY <3>1, <4>1 DEF MustConsult, c
    <3>8. RenameSource(t) \/ DecideMutation(t) \/ Spare(t)
      BY <1>1, <2>2, WhatEndsAChange DEF RegistryStep, c
    <3> QED BY <3>5, <3>6, <3>7, <3>8
  <2> QED BY <2>1, <2>2
<1>2. IInv /\ [Next]_vars => [Decides]_vars
  BY <1>1
<1> QED BY <1>2, Invariant, PTL DEF Spec, ProtectedMutationDecided

----------------------------------------------------------------------------
(* The types of the rate table, and how often a match is counted *)

MatchKinds == {NoMatch} \cup [rule : Rules, generation : 0..MaxConfigs]
HitKinds == [rule : Rules, pid : {c.pid : c \in AllCalls}, generation : 0..MaxConfigs,
             from : Times, to : Times, fired : BOOLEAN, raced : BOOLEAN]

TableTyped ==
  /\ hits \in Seq(HitKinds) /\ now \in Times
  /\ configs \in 0..MaxConfigs /\ generation \in 0..configs
  /\ key \in [Slots -> Keys \cup {NoKey}] /\ count \in [Slots -> Nat]
  /\ start \in [Slots -> Nat] /\ flagged \in [Slots -> BOOLEAN]
  /\ wiping \subseteq Slots \X Granules
  /\ \A s \in Slots : count[s] <= Len(hits) /\ start[s] <= now
  /\ \A s, r \in Slots : key[s] = key[r] /\ key[s] # NoKey => s = r

\* The clock a counting thread has read, and its slot, whose key only a zero takes away.
Stage(t) ==
  /\ at[t] \in {"locking", "counting"} => stamp[t] # 0
  /\ at[t] = "counting" => slot[t] \in Slots /\ key[slot[t]] \in {Key(t), NoKey}
ThreadsTyped ==
  /\ match \in [Threads -> MatchKinds] /\ stamp \in [Threads -> Nat]
  /\ slot \in [Threads -> Slots \cup {NoSlot}]
  /\ \A t \in Threads : stamp[t] <= now /\ Stage(t)
  /\ \A t \in Threads : (rateLock = t) = (at[t] = "counting")

\* The threads whose match may still be counted, and the room there is for it.
CountPlaces == {"matching", "reading clock", "locking", "counting"}
Owing == {t \in Threads : at[t] \in CountPlaces}
Reserved == Len(hits) + Cardinality(Owing) <= MaxHits

RateInv == TableTyped /\ ThreadsTyped /\ Reserved

LEMMA RulesAre ==
  /\ \A set \in RuleSets : set \in Seq(Rules)
  /\ \A r \in Rules : r.threshold \in Nat /\ r.window \in Nat \ {0}
<1>1. ASSUME NEW r \in Rules PROVE r.threshold \in Nat /\ r.window \in Nat \ {0}
  <2>1. PICK set \in RuleSets : r \in {set[i] : i \in DOMAIN set}
    BY DEF Rules
  <2> QED BY <2>1, RuleAssumption
<1> QED BY <1>1, RulesAssumption

LEMMA FirstIsRule ==
  ASSUME NEW set \in RuleSets, NEW c, FirstMatch(set, c) # NoRule
  PROVE  FirstMatch(set, c) \in Rules
<1>1. PICK i \in Matching(set, c) : FirstMatch(set, c) = set[i]
  BY FirstIsMatch
<1>2. i \in DOMAIN set
  BY DEF Matching
<1> QED BY <1>1, <1>2, RulesAre

\* A thread whose match is about to be counted has matched a rule, with a call that has a key.
LEMMA CountedHasKey ==
  ASSUME IInv, NEW t \in Threads, at[t] \in {"reading clock", "locking", "counting"}
  PROVE  /\ Rule(t) \in Rules /\ call[t] \in AllCalls
         /\ Key(t) \in Keys
<1>1. PICK set \in sent[t] : Rule(t) = FirstMatch(set, call[t]) /\ Rule(t) # NoRule
  BY CountedIsSlow
<1>2. set \in RuleSets /\ call[t] \in AllCalls
  BY DEF IInv, Typed, ThreadOk
<1>3. Rule(t) \in Rules
  BY <1>1, <1>2, FirstIsRule
<1>4. call[t].op # "registry"
  BY DEF IInv, ThreadOk, PlaceOk, FileOperations
<1>5. Key(t) \in Keys
  <2>1. Rule(t).id \in {r.id : r \in Rules}
    BY <1>3
  <2>2. call[t].pid \in {c.pid : c \in {d \in AllCalls : d.op # "registry"}}
    BY <1>2, <1>4
  <2> QED BY <2>1, <2>2 DEF Key, Keys
<1> QED BY <1>2, <1>3, <1>5

LEMMA InitRate == Init => RateInv
<1> SUFFICES ASSUME Init PROVE RateInv
  OBVIOUS
<1>1. PICK i \in Initial : BehaviorInit(i.rules, i.exclusions) /\ RegistryInit(i.registry)
  BY DEF Init
<1> USE <1>1 DEF BehaviorInit
<1>2. MaxTime \in Nat \ {0} /\ MaxConfigs \in Nat /\ MaxHits \in Nat
  BY LimitsAssumption DEF LimitsAssumption
<1>3. TableTyped
  BY <1>2 DEF TableTyped, Times
<1>4. \A t \in Threads : Stage(t)
  BY DEF Stage
<1>5. \A t \in Threads : (rateLock = t) = (at[t] = "counting")
  BY ThreadsAssumption DEF ThreadsAssumption
<1>6. ThreadsTyped
  BY <1>2, <1>4, <1>5 DEF ThreadsTyped, MatchKinds
<1>7. Owing = {}
  BY DEF Owing, CountPlaces
<1>8. Reserved
  BY <1>2, <1>7, FS_EmptySet DEF Reserved
<1> QED BY <1>3, <1>6, <1>8 DEF RateInv

----------------------------------------------------------------------------
(* A step of a thread that leaves the rate table alone *)

TableSame == UNCHANGED <<rateVars, generation, configs, wiping, now>>
OthersKept(t) ==
  \A u \in Threads \ {t} : /\ match'[u] = match[u] /\ call'[u] = call[u]
                           /\ stamp'[u] = stamp[u] /\ slot'[u] = slot[u]
\* What it has matched, it keeps or has just matched, and counts it only for a rate.
MatchKept(t, place) ==
  /\ match'[t] = match[t] \/ match'[t].generation <= generation
  /\ place = "reading clock" => Slow(match'[t].rule)
Sidestep(t, place) ==
  /\ at[t] # "counting" /\ place \notin {"locking", "counting"} /\ Go(t, place)
  /\ place \in CountPlaces =>
       at[t] \in CountPlaces \/ (at[t] = "idle" /\ Len(hits) + Cardinality(Busy) < MaxHits)
  /\ TableSame /\ OthersKept(t) /\ MatchKept(t, place)
  /\ match' \in [Threads -> MatchKinds]
  /\ stamp' \in {stamp, [stamp EXCEPT ![t] = 0]}
  /\ slot' \in {slot, [slot EXCEPT ![t] = NoSlot]}

\* A finite set with one more element.
LEMMA AddsOne ==
  ASSUME NEW S, NEW x, IsFiniteSet(S)
  PROVE  /\ IsFiniteSet(S \cup {x}) /\ Cardinality(S) \in Nat /\ Cardinality(S \cup {x}) \in Nat
         /\ Cardinality(S \cup {x}) <= Cardinality(S) + 1
         /\ x \notin S => Cardinality(S \cup {x}) = Cardinality(S) + 1
<1> DEFINE n == Cardinality(S)  m == Cardinality(S \cup {x})
<1>1. IsFiniteSet(S \cup {x}) /\ m = (IF x \in S THEN n ELSE n + 1)
  BY FS_AddElement
<1>2. n \in Nat /\ m \in Nat
  BY <1>1, FS_CardinalityType
<1> HIDE DEF n, m
<1>3. m <= n + 1 /\ (x \notin S => m = n + 1)
  BY <1>1, <1>2
<1> QED BY <1>1, <1>2, <1>3 DEF n, m

\* A thread that begins to owe a match adds one, any other step none.
LEMMA OwingGrows ==
  ASSUME NEW t \in Threads, NEW place, at \in [Threads -> Places], Go(t, place)
  PROVE  /\ IsFiniteSet(Owing) /\ IsFiniteSet(Owing')
         /\ Cardinality(Owing) \in Nat /\ Cardinality(Owing') \in Nat
         /\ Cardinality(Owing') <= Cardinality(Owing) + 1
         /\ place \notin CountPlaces \/ at[t] \in CountPlaces =>
              Cardinality(Owing') <= Cardinality(Owing)
         /\ place \notin CountPlaces /\ at[t] \in CountPlaces =>
              Cardinality(Owing') = Cardinality(Owing) - 1
<1>1. IsFiniteSet(Threads)
  BY ThreadsAssumption DEF ThreadsAssumption
<1>2. Owing \subseteq Threads /\ Owing' \subseteq Threads
  BY DEF Owing
<1>3. IsFiniteSet(Owing) /\ IsFiniteSet(Owing')
  BY <1>1, <1>2, FS_Subset
<1>4. Cardinality(Owing) \in Nat /\ Cardinality(Owing') \in Nat
  BY <1>3, FS_CardinalityType
<1>5. /\ Owing' \subseteq Owing \cup {t}
      /\ (place \notin CountPlaces \/ at[t] \in CountPlaces) => Owing' \subseteq Owing
      /\ place \notin CountPlaces /\ at[t] \in CountPlaces =>
           t \in Owing /\ Owing' = Owing \ {t}
  BY DEF Owing, Go
<1>6. /\ IsFiniteSet(Owing \cup {t}) /\ Cardinality(Owing \cup {t}) <= Cardinality(Owing) + 1
  BY <1>3, AddsOne
<1>7. Cardinality(Owing') <= Cardinality(Owing \cup {t})
  BY <1>5, <1>6, FS_Subset
<1>8. Cardinality(Owing \cup {t}) \in Nat
  BY <1>6, FS_CardinalityType
<1>9. (place \notin CountPlaces \/ at[t] \in CountPlaces) =>
        Cardinality(Owing') <= Cardinality(Owing)
  BY <1>3, <1>5, FS_Subset
<1>10. t \in Owing => Cardinality(Owing \ {t}) = Cardinality(Owing) - 1
  BY <1>3, FS_RemoveElement
<1>11. t \in Owing <=> at[t] \in CountPlaces
  BY DEF Owing
<1>12. place \notin CountPlaces /\ at[t] \in CountPlaces =>
         Cardinality(Owing') = Cardinality(Owing) - 1
  BY <1>5, <1>10, <1>11
<1> DEFINE before == Cardinality(Owing)  after == Cardinality(Owing')
           room == Cardinality(Owing \cup {t})
<1>13. after <= before + 1
  <2> HIDE DEF before, after, room
  <2>1. after <= room /\ room <= before + 1 /\ after \in Nat /\ before \in Nat /\ room \in Nat
    BY <1>4, <1>6, <1>7, <1>8 DEF before, after, room
  <2> QED BY <2>1
<1> QED BY <1>3, <1>4, <1>9, <1>12, <1>13

LEMMA SidestepRate ==
  ASSUME IInv, RateInv, NEW t \in Threads, NEW place, Sidestep(t, place)
  PROVE  RateInv'
<1> USE DEF Sidestep
<1>1. UNCHANGED <<key, count, start, flagged, rateLock, hits, generation, configs, wiping, now>>
  BY DEF TableSame, rateVars
<1>2. TableTyped'
  BY <1>1 DEF RateInv, TableTyped
<1>3. at \in [Threads -> Places] /\ at' = [at EXCEPT ![t] = place]
  BY DEF IInv, Typed, Go
<1>4. \A u \in Threads \ {t} : Stage(u)'
  <2> TAKE u \in Threads \ {t}
  <2>1. at'[u] = at[u] /\ stamp'[u] = stamp[u] /\ slot'[u] = slot[u]
    BY <1>3 DEF OthersKept
  <2>2. Key(u)' = Key(u)
    BY DEF OthersKept, Key, Rule
  <2>3. Stage(u)
    BY DEF RateInv, ThreadsTyped
  <2> QED BY <1>1, <2>1, <2>2, <2>3 DEF Stage
<1>5. Stage(t)'
  BY <1>3 DEF Stage
<1>6. stamp' \in [Threads -> Nat] /\ \A u \in Threads : stamp'[u] <= now
  <2>1. /\ stamp \in [Threads -> Nat] /\ (\A u \in Threads : stamp[u] <= now)
        /\ now \in Nat
    BY DEF RateInv, TableTyped, ThreadsTyped, Times
  <2> QED BY <2>1
<1>7. slot' \in [Threads -> Slots \cup {NoSlot}]
  BY DEF RateInv, ThreadsTyped
<1>8. \A u \in Threads : (rateLock' = u) = (at'[u] = "counting")
  BY <1>1, <1>3 DEF RateInv, ThreadsTyped
<1>9. ThreadsTyped'
  BY <1>1, <1>4, <1>5, <1>6, <1>7, <1>8 DEF ThreadsTyped, RateInv
<1>10. Reserved'
  <2>1. Len(hits) \in Nat /\ MaxHits \in Nat
    BY LimitsAssumption DEF LimitsAssumption, RateInv, TableTyped
  <2>2. CASE place \notin CountPlaces \/ at[t] \in CountPlaces
    BY <1>1, <1>3, <2>1, <2>2, OwingGrows DEF RateInv, Reserved
  <2>3. CASE Len(hits) + Cardinality(Busy) < MaxHits
    <3>1. Owing \subseteq Busy
      BY DEF Owing, Busy, CountPlaces
    <3>2. IsFiniteSet(Busy)
      BY FS_Subset, ThreadsAssumption DEF ThreadsAssumption, Busy
    <3>3. Cardinality(Busy) \in Nat /\ Cardinality(Owing) <= Cardinality(Busy)
      BY <3>1, <3>2, FS_Subset, FS_CardinalityType
    <3> QED BY <1>1, <1>3, <2>1, <2>3, <3>3, OwingGrows DEF Reserved
  <2> QED BY <2>2, <2>3
<1> QED BY <1>2, <1>9, <1>10 DEF RateInv

\* Which steps these are.
AsideStep(t) ==
  \/ Enter(t) \/ LaunchAnswered(t) \/ Return(t) \/ RegistryStep(t)
  \/ (Match(t) \/ NoSlotLeft(t)) /\ UNCHANGED registryVars

LEMMA EnterSide ==
  ASSUME IInv, RateInv, NEW t \in Threads, Enter(t)
  PROVE  \E place : Sidestep(t, place)
<1>1. PICK c \in Calls[t] :
        /\ MayBegin(c)
        /\ \/ c.op = "launch" /\ BeginLaunch(t, c) /\ UNCHANGED registryVars
           \/ BeginFile(t, c) /\ UNCHANGED registryVars
           \/ BeginChange(t, c)
  BY DEF Enter
<1>2. UNCHANGED <<rateVars, ruleVars, now>>
  BY <1>1 DEF BeginLaunch, BeginFile, BeginChange
<1>3. TableSame
  BY <1>2 DEF TableSame, ruleVars
<1>4. PICK place : Begin(t, c, place) /\ place \notin {"reading clock", "locking", "counting"}
                   /\ (place \in CountPlaces => c.op # "registry")
  <2>1. CASE c.op = "launch" /\ BeginLaunch(t, c)
    BY <2>1 DEF BeginLaunch
  <2>2. CASE BeginFile(t, c)
    BY <2>2 DEF BeginFile, FileOperations
  <2>3. CASE BeginChange(t, c)
    <3> DEFINE to == IF c.change = "rename key" THEN "renaming" ELSE "deciding"
    <3>1. Begin(t, c, to)
      BY <2>3 DEF BeginChange
    <3>2. to \notin {"reading clock", "locking", "counting"} /\ to \notin CountPlaces
      BY DEF CountPlaces
    <3> QED BY <3>1, <3>2
  <2> QED BY <1>1, <2>1, <2>2, <2>3
<1>5. OthersKept(t) /\ Go(t, place) /\ at[t] = "idle" /\ UNCHANGED <<match, stamp, slot>>
  BY <1>4 DEF Begin, OthersKept, IInv, Typed
<1>6. place \in CountPlaces => Len(hits) + Cardinality(Busy) < MaxHits
  BY <1>1, <1>4 DEF MayBegin, Kind
<1>7. MatchKept(t, place)
  BY <1>4, <1>5 DEF MatchKept
<1> QED BY <1>3, <1>4, <1>5, <1>6, <1>7 DEF Sidestep, RateInv, ThreadsTyped

\* A callback that ends, or goes on to another place with the match it has.
LEMMA EndsSide ==
  ASSUME IInv, RateInv, NEW t \in Threads, at[t] # "counting", TableSame,
         \/ Finish(t)
         \/ \E place : /\ place \notin CountPlaces /\ Go(t, place)
                       /\ UNCHANGED <<call, match, stamp, slot>>
  PROVE  \E place : Sidestep(t, place)
<1>1. CASE Finish(t)
  <2>1. match' \in [Threads -> MatchKinds] /\ OthersKept(t)
    BY <1>1 DEF Finish, IInv, Typed, RateInv, ThreadsTyped, MatchKinds, OthersKept
  <2>2. MatchKept(t, "idle")
    <3>1. match'[t] = NoMatch /\ generation \in Nat
      BY <1>1, LimitsAssumption DEF Finish, RateInv, TableTyped, ThreadsTyped, LimitsAssumption
    <3> QED BY <3>1 DEF MatchKept, NoMatch
  <2>3. Sidestep(t, "idle")
    BY <1>1, <2>1, <2>2 DEF Sidestep, Finish, CountPlaces
  <2> QED BY <2>3
<1>2. ASSUME NEW place, place \notin CountPlaces, Go(t, place),
             UNCHANGED <<call, match, stamp, slot>>
      PROVE  Sidestep(t, place)
  BY <1>2 DEF Sidestep, OthersKept, MatchKept, CountPlaces, RateInv, ThreadsTyped
<1> QED BY <1>1, <1>2

LEMMA TimesAre ==
  Times \subseteq Nat \ {0} /\ \A n \in Nat, m \in Times : n <= m => n \in Times \cup {0}
BY LimitsAssumption DEF LimitsAssumption, Times

LEMMA MatchSide ==
  ASSUME IInv, RateInv, NEW t \in Threads, Match(t)
  PROVE  \E place : Sidestep(t, place)
<1> DEFINE rule == FirstMatch(rules, call[t])
           slow == IF rule.threshold <= 1 THEN "ruled" ELSE "reading clock"
<1>1. at[t] = "matching" /\ TableSame
  BY DEF Match, TableSame, ruleVars
<1>2. CASE rule = NoRule \/ (rule.threshold <= 1 /\ call[t].op \in FileOperations)
  <2>1. Finish(t) \/ (Go(t, "unruled") /\ UNCHANGED <<call, match, stamp, slot>>)
    BY <1>2 DEF Match, Say
  <2>2. "unruled" \notin CountPlaces
    BY DEF CountPlaces
  <2> QED BY <1>1, <2>1, <2>2, EndsSide
<1>3. CASE rule # NoRule /\ ~(rule.threshold <= 1 /\ call[t].op \in FileOperations)
  <2>1. /\ match' = [match EXCEPT ![t] = [rule |-> rule, generation |-> generation]]
        /\ Go(t, slow) /\ UNCHANGED <<call, stamp, slot>>
    BY <1>3 DEF Match
  <2>2. rule \in Rules
    BY <1>3, FirstIsRule DEF IInv, Typed
  <2>3. generation \in 0..MaxConfigs
    BY LimitsAssumption DEF LimitsAssumption, RateInv, TableTyped
  <2>4. match' \in [Threads -> MatchKinds] /\ \A u \in Threads \ {t} : match'[u] = match[u]
    <3> HIDE DEF rule
    <3>1. [rule |-> rule, generation |-> generation] \in MatchKinds
      BY <2>2, <2>3 DEF MatchKinds
    <3> QED BY <2>1, <3>1 DEF RateInv, ThreadsTyped
  <2>5. slow \notin {"locking", "counting"} /\ at[t] \in CountPlaces
    BY <1>1 DEF CountPlaces
  <2>6. MatchKept(t, slow)
    <3> HIDE DEF rule
    <3>1. match'[t] = [rule |-> rule, generation |-> generation]
      BY <2>1 DEF RateInv, ThreadsTyped
    <3>2. generation \in Nat
      BY <2>3
    <3> QED BY <3>1, <3>2 DEF MatchKept, Slow, slow
  <2> HIDE DEF slow, rule
  <2> QED BY <1>1, <2>1, <2>4, <2>5, <2>6 DEF Sidestep, OthersKept
<1> QED BY <1>2, <1>3

LEMMA AsideSteps ==
  ASSUME IInv, RateInv, NEW t \in Threads, AsideStep(t)
  PROVE  \E place : Sidestep(t, place)
<1> USE DEF TableSame, ruleVars
<1>1. CASE Enter(t)
  BY <1>1, EnterSide
<1>2. CASE LaunchAnswered(t) \/ Return(t)
  <2> DEFINE ends == {"failed closed", "failed open"}
  <2>1. at[t] # "counting"
    BY <1>2 DEF LaunchAnswered, Return, Held, Scanned
  <2>2. TableSame
    BY <1>2 DEF LaunchAnswered, Return
  <2>3. Finish(t) \/ \E place \in ends : Go(t, place) /\ UNCHANGED <<call, match, stamp, slot>>
    BY <1>2 DEF LaunchAnswered, Return, LetThrough, threadVars
  <2>4. \A place \in ends : place \notin CountPlaces
    BY DEF CountPlaces
  <2> QED BY <2>1, <2>2, <2>3, <2>4, EndsSide
<1>3. CASE RegistryStep(t)
  <2> DEFINE ends == {"deciding", "deciding new name", "sparing", "consulting"}
  <2>1. at[t] # "counting" /\ TableSame
    BY <1>3 DEF RegistryStep, RenameSource, DecideMutation, Spare
  <2>2. RenameDecides(t) \in ends
    BY DEF RenameDecides
  <2>3. Finish(t) \/ \E place \in ends : Go(t, place) /\ UNCHANGED <<call, match, stamp, slot>>
    BY <1>3, <2>2 DEF RegistryStep, RenameSource, DecideMutation, Spare, LetThrough, threadVars
  <2>4. \A place \in ends : place \notin CountPlaces
    BY DEF CountPlaces
  <2> QED BY <2>1, <2>3, <2>4, EndsSide
<1>4. CASE Match(t)
  BY <1>4, MatchSide
<1>5. CASE NoSlotLeft(t)
  <2>1. at[t] # "counting" /\ TableSame
        /\ (Finish(t) \/ (Go(t, "unruled") /\ UNCHANGED <<call, match, stamp, slot>>))
    BY <1>5 DEF NoSlotLeft, Say
  <2>2. "unruled" \notin CountPlaces
    BY DEF CountPlaces
  <2> QED BY <2>1, <2>2, EndsSide
<1> QED BY <1>1, <1>2, <1>3, <1>4, <1>5 DEF AsideStep

----------------------------------------------------------------------------
(* The steps that count *)

\* A step between two of the places where a thread owes a match leaves the room for it.
LEMMA StillReserved ==
  ASSUME IInv, RateInv, NEW t \in Threads, NEW place, Go(t, place), at[t] \in CountPlaces,
         UNCHANGED hits
  PROVE  Reserved'
<1>1. Cardinality(Owing') <= Cardinality(Owing) /\ Cardinality(Owing) \in Nat
      /\ Cardinality(Owing') \in Nat
  BY OwingGrows DEF IInv, Typed
<1>2. Len(hits) \in Nat /\ MaxHits \in Nat
  BY LimitsAssumption DEF LimitsAssumption, RateInv, TableTyped
<1> QED BY <1>1, <1>2 DEF RateInv, Reserved

LEMMA ReadClockRate ==
  ASSUME IInv, RateInv, NEW t \in Threads, ReadClock(t)
  PROVE  RateInv'
<1> USE DEF ReadClock, rateVars, ruleVars
<1>1. TableTyped'
  BY DEF RateInv, TableTyped
<1>2. now \in Nat \ {0}
  BY TimesAre DEF RateInv, TableTyped
<1>3. at' = [at EXCEPT ![t] = "locking"] /\ at \in [Threads -> Places]
  BY DEF Go, IInv, Typed
<1>4. stamp' \in [Threads -> Nat] /\ \A u \in Threads : stamp'[u] <= now
  <2>1. stamp \in [Threads -> Nat] /\ \A u \in Threads : stamp[u] <= now
    BY DEF RateInv, ThreadsTyped
  <2>2. stamp' = [stamp EXCEPT ![t] = now]
    OBVIOUS
  <2> HIDE DEF ReadClock
  <2> QED BY <1>2, <2>1, <2>2
<1>5. ASSUME NEW u \in Threads PROVE Stage(u)'
  <2>1. Key(u)' = Key(u) /\ UNCHANGED <<slot, key>>
    BY DEF Key, Rule
  <2>2. Stage(u) /\ stamp \in [Threads -> Nat] /\ stamp' = [stamp EXCEPT ![t] = now]
    BY DEF RateInv, ThreadsTyped
  <2> HIDE DEF ReadClock
  <2>3. CASE u = t
    BY <1>2, <1>3, <2>2, <2>3 DEF Stage
  <2>4. CASE u # t
    BY <1>3, <2>1, <2>2, <2>4 DEF Stage
  <2> QED BY <2>3, <2>4
<1>6. \A u \in Threads : (rateLock' = u) = (at'[u] = "counting")
  BY <1>3 DEF RateInv, ThreadsTyped
<1>7. ThreadsTyped'
  BY <1>4, <1>5, <1>6 DEF ThreadsTyped, RateInv
<1>8. Reserved'
  BY StillReserved DEF CountPlaces
<1> QED BY <1>1, <1>7, <1>8 DEF RateInv

\* Taking the rate lock with a slot in hand.
LEMMA LockTaken ==
  ASSUME IInv, RateInv, NEW t \in Threads, at[t] = "locking", rateLock = NoThread, rateLock' = t,
         Go(t, "counting"), NEW s \in Slots, slot' = [slot EXCEPT ![t] = s],
         UNCHANGED <<call, match, stamp, now, hits>>, key'[s] = Key(t)
  PROVE  ThreadsTyped' /\ Reserved'
<1>1. at' = [at EXCEPT ![t] = "counting"] /\ at \in [Threads -> Places]
  BY DEF Go, IInv, Typed
<1>2. \A u \in Threads : at[u] # "counting"
  BY ThreadsAssumption DEF ThreadsAssumption, RateInv, ThreadsTyped
<1>3. \A u \in Threads : (rateLock' = u) = (at'[u] = "counting")
  BY <1>1, <1>2
<1>4. slot' \in [Threads -> Slots \cup {NoSlot}] /\ slot'[t] = s
  BY DEF RateInv, ThreadsTyped
<1>5. ASSUME NEW u \in Threads PROVE Stage(u)'
  <2>1. Key(u)' = Key(u)
    BY DEF Key, Rule
  <2>2. Stage(u)
    BY DEF RateInv, ThreadsTyped
  <2> QED BY <1>1, <1>2, <1>4, <2>1, <2>2 DEF Stage
<1>6. ThreadsTyped'
  BY <1>3, <1>4, <1>5 DEF RateInv, ThreadsTyped
<1>7. Reserved'
  BY StillReserved DEF CountPlaces
<1> QED BY <1>6, <1>7

LEMMA FindSlotRate ==
  ASSUME IInv, RateInv, NEW t \in Threads, FindSlot(t)
  PROVE  RateInv'
<1>1. PICK s \in Found(Key(t)) : slot' = [slot EXCEPT ![t] = s]
  BY DEF FindSlot
<1>2. s \in Slots /\ key'[s] = Key(t)
  BY DEF FindSlot, Found
<1>3. TableTyped'
  BY DEF FindSlot, RateInv, TableTyped, ruleVars
<1>4. ThreadsTyped' /\ Reserved'
  BY <1>1, <1>2, LockTaken DEF FindSlot
<1> QED BY <1>3, <1>4 DEF RateInv

LEMMA ClaimSlotRate ==
  ASSUME IInv, RateInv, NEW t \in Threads, ClaimSlot(t)
  PROVE  RateInv'
<1>1. PICK s \in Free :
       /\ slot' = [slot EXCEPT ![t] = s]
       /\ key' = [key EXCEPT ![s] = Key(t)] /\ count' = [count EXCEPT ![s] = 0]
       /\ start' = [start EXCEPT ![s] = stamp[t]] /\ flagged' = [flagged EXCEPT ![s] = FALSE]
  BY DEF ClaimSlot
<1>2. s \in Slots /\ key[s] = NoKey
  BY DEF Free
<1>3. at[t] = "locking" /\ Found(Key(t)) = {} /\ UNCHANGED <<hits, ruleVars, now>>
  BY DEF ClaimSlot
<1>4. Key(t) \in Keys
  BY <1>3, CountedHasKey
<1>5. stamp[t] \in Nat /\ stamp[t] <= now
  BY DEF RateInv, ThreadsTyped
<1>6. TableTyped'
  <2> USE DEF RateInv, TableTyped
  <2>1. /\ key' \in [Slots -> Keys \cup {NoKey}] /\ count' \in [Slots -> Nat]
        /\ start' \in [Slots -> Nat] /\ flagged' \in [Slots -> BOOLEAN]
    BY <1>1, <1>4, <1>5
  <2>2. \A r \in Slots : count'[r] <= Len(hits) /\ start'[r] <= now
    BY <1>1, <1>5
  <2>3. \A r, q \in Slots : key'[r] = key'[q] /\ key'[r] # NoKey => r = q
    <3>1. \A r \in Slots : key[r] # Key(t)
      BY <1>3 DEF Found
    <3> QED BY <1>1, <3>1
  <2> QED BY <1>3, <2>1, <2>2, <2>3 DEF ruleVars
<1>7. key'[s] = Key(t)
  BY <1>1, <1>2 DEF RateInv, TableTyped
<1>8. ThreadsTyped' /\ Reserved'
  BY <1>1, <1>2, <1>7, LockTaken DEF ClaimSlot
<1> QED BY <1>6, <1>8 DEF RateInv

\* What a thread has in hand that counts its match.
LEMMA InHand ==
  ASSUME IInv, RateInv, NEW t \in Threads, at[t] = "counting"
  PROVE  /\ slot[t] \in Slots /\ key[slot[t]] \in {Key(t), NoKey}
         /\ stamp[t] \in Times /\ stamp[t] <= now /\ now \in Times
         /\ Rule(t) \in Rules /\ Rule(t).threshold \in Nat /\ Rule(t).window \in Nat \ {0}
         /\ match[t].generation \in 0..MaxConfigs
         /\ Hit(t, slot[t]) \in HitKinds
         /\ \A u \in Threads \ {t} : at[u] # "counting"
<1>1. slot[t] \in Slots /\ key[slot[t]] \in {Key(t), NoKey} /\ stamp[t] # 0 /\ stamp[t] <= now
  BY DEF RateInv, ThreadsTyped, Stage
<1>2. stamp[t] \in Nat /\ now \in Times
  BY DEF RateInv, ThreadsTyped, TableTyped
<1>3. stamp[t] \in Times
  BY <1>1, <1>2, TimesAre
<1>4. Rule(t) \in Rules /\ call[t] \in AllCalls
  BY CountedHasKey
<1>5. Rule(t).threshold \in Nat /\ Rule(t).window \in Nat \ {0}
  BY <1>4, RulesAre
<1>6. match[t].generation \in 0..MaxConfigs
  <2>1. match[t] \in MatchKinds /\ 0 \in 0..MaxConfigs
    BY LimitsAssumption DEF LimitsAssumption, RateInv, ThreadsTyped
  <2> QED BY <2>1 DEF MatchKinds, NoMatch
<1>7. Fires(t, slot[t]) \in BOOLEAN /\ Raced(t) \in BOOLEAN
  BY DEF Fires, Raced
<1>8. call[t].pid \in {c.pid : c \in AllCalls}
  BY <1>4
<1>9. Hit(t, slot[t]) \in HitKinds
  BY <1>2, <1>3, <1>4, <1>6, <1>7, <1>8 DEF Hit, HitKinds
<1>10. \A u \in Threads \ {t} : at[u] # "counting"
  BY DEF RateInv, ThreadsTyped
<1> QED BY <1>1, <1>2, <1>3, <1>4, <1>5, <1>6, <1>9, <1>10

LEMMA CountTable ==
  ASSUME IInv, RateInv, NEW t \in Threads, Count(t)
  PROVE  TableTyped'
<1> DEFINE s == slot[t]
<1>1. /\ at[t] = "counting" /\ count' = [count EXCEPT ![s] = Counted(t, s)]
      /\ start' = [start EXCEPT ![s] = IF WindowOver(t, s) THEN stamp[t] ELSE start[s]]
      /\ flagged' = [flagged EXCEPT ![s] = Fires(t, s)]
      /\ hits' = Append(hits, Hit(t, s)) /\ UNCHANGED <<key, generation, configs, now>>
      /\ \E lost : wiping' = wiping \ ({s} \X lost)
  BY DEF Count
<1>2. /\ s \in Slots /\ stamp[t] \in Times /\ stamp[t] <= now /\ Hit(t, s) \in HitKinds
  BY <1>1, InHand
<1> HIDE DEF s
<1> USE DEF RateInv, TableTyped
<1>3. hits' \in Seq(HitKinds) /\ Len(hits') = Len(hits) + 1 /\ Len(hits) \in Nat
  BY <1>1, <1>2
<1>4. /\ Counted(t, s) \in Nat /\ Counted(t, s) <= Len(hits) + 1
  <2>1. count[s] \in Nat /\ count[s] <= Len(hits)
    BY <1>2
  <2> QED BY <1>3, <2>1 DEF Counted
<1>5. Fires(t, s) \in BOOLEAN
  BY DEF Fires
<1>6. count' \in [Slots -> Nat] /\ \A r \in Slots : count'[r] <= Len(hits')
  BY <1>1, <1>2, <1>3, <1>4
<1>7. start' \in [Slots -> Nat] /\ \A r \in Slots : start'[r] <= now
  <2>1. stamp[t] \in Nat /\ start \in [Slots -> Nat] /\ \A r \in Slots : start[r] <= now
    BY <1>2, TimesAre
  <2> QED BY <1>1, <1>2, <2>1
<1>8. flagged' \in [Slots -> BOOLEAN]
  BY <1>1, <1>2, <1>5
<1>9. wiping' \subseteq Slots \X Granules
  BY <1>1
<1> QED BY <1>1, <1>3, <1>6, <1>7, <1>8, <1>9

LEMMA CountThreads ==
  ASSUME IInv, RateInv, NEW t \in Threads, Count(t)
  PROVE  ThreadsTyped' /\ Reserved'
<1> DEFINE said == IF Fires(t, slot[t]) THEN "ruled" ELSE "unruled"
<1>1. /\ at[t] = "counting" /\ Say(t, said) /\ rateLock' = NoThread
      /\ hits' = Append(hits, Hit(t, slot[t])) /\ UNCHANGED <<key, now>>
  BY DEF Count
<1>2. PICK place : place \notin CountPlaces /\ Go(t, place)
  BY <1>1 DEF Say, Finish, CountPlaces
<1>3. /\ OthersKept(t) /\ match' \in [Threads -> MatchKinds]
      /\ stamp' \in {stamp, [stamp EXCEPT ![t] = 0]}
      /\ slot' \in {slot, [slot EXCEPT ![t] = NoSlot]}
  BY <1>1 DEF Say, Finish, OthersKept, MatchKinds, RateInv, ThreadsTyped, IInv, Typed
<1>4. at' = [at EXCEPT ![t] = place] /\ at \in [Threads -> Places]
  BY <1>2 DEF Go, IInv, Typed
<1>5. \A u \in Threads \ {t} : at[u] # "counting"
  BY <1>1, InHand
<1>6. ASSUME NEW u \in Threads PROVE Stage(u)'
  <2>1. CASE u = t
    BY <1>2, <1>4, <2>1 DEF Stage, CountPlaces
  <2>2. CASE u # t
    <3>1. at'[u] = at[u] /\ stamp'[u] = stamp[u] /\ Stage(u)
      BY <1>3, <1>4, <2>2 DEF OthersKept, RateInv, ThreadsTyped
    <3> QED BY <1>5, <2>2, <3>1 DEF Stage
  <2> QED BY <2>1, <2>2
<1>7. \A u \in Threads : (rateLock' = u) = (at'[u] = "counting")
  BY <1>1, <1>2, <1>4, <1>5, ThreadsAssumption DEF ThreadsAssumption, CountPlaces
<1>8. stamp' \in [Threads -> Nat] /\ \A u \in Threads : stamp'[u] <= now
  <2>1. stamp \in [Threads -> Nat] /\ (\A u \in Threads : stamp[u] <= now) /\ now \in Nat
    BY TimesAre DEF RateInv, ThreadsTyped, TableTyped
  <2> QED BY <1>3, <2>1
<1>9. slot' \in [Threads -> Slots \cup {NoSlot}]
  BY <1>3 DEF RateInv, ThreadsTyped
<1>10. ThreadsTyped'
  BY <1>1, <1>3, <1>6, <1>7, <1>8, <1>9 DEF ThreadsTyped
<1>11. Reserved'
  <2>1. at[t] \in CountPlaces
    BY <1>1 DEF CountPlaces
  <2>2. /\ Cardinality(Owing') = Cardinality(Owing) - 1 /\ Cardinality(Owing) \in Nat
        /\ Cardinality(Owing') \in Nat
    BY <1>2, <1>4, <2>1, OwingGrows
  <2>3. Len(hits') = Len(hits) + 1 /\ Len(hits) \in Nat /\ MaxHits \in Nat
    BY <1>1, InHand, LimitsAssumption DEF LimitsAssumption, RateInv, TableTyped
  <2> QED BY <2>2, <2>3 DEF RateInv, Reserved
<1> QED BY <1>10, <1>11

----------------------------------------------------------------------------
(* The client's requests and the clock *)

\* Nothing of the threads changes.
LEMMA ThreadsKept ==
  ASSUME IInv, RateInv, UNCHANGED <<rateLock, hits, at, call, match, stamp, slot>>,
         now' \in Nat, now <= now',
         \A s \in Slots : key'[s] \in {key[s], NoKey}
  PROVE  ThreadsTyped' /\ Reserved'
<1>1. ASSUME NEW u \in Threads PROVE Stage(u)' /\ stamp'[u] <= now'
  <2>1. Key(u)' = Key(u)
    BY DEF Key, Rule
  <2>2. Stage(u) /\ stamp[u] <= now /\ stamp[u] \in Nat /\ now \in Nat
    BY TimesAre DEF RateInv, ThreadsTyped, TableTyped
  <2> QED BY <2>1, <2>2 DEF Stage
<1>2. ThreadsTyped'
  BY <1>1 DEF RateInv, ThreadsTyped
<1>3. Owing' = Owing
  BY DEF Owing
<1> QED BY <1>2, <1>3 DEF RateInv, Reserved

LEMMA RequestRate ==
  ASSUME IInv, RateInv, Request
  PROVE  RateInv'
<1> USE DEF threadVars, registryVars, rateVars, ruleVars
<1>0. /\ configs \in Nat /\ generation \in Nat /\ MaxConfigs \in Nat /\ now \in Nat
      /\ generation <= configs /\ MaxTime \in Nat
  BY TimesAre, LimitsAssumption DEF LimitsAssumption, RateInv, TableTyped
<1>1. ASSUME NEW set \in RuleSets, ConfigureRules(set) PROVE RateInv'
  <2>1. TableTyped'
    BY <1>0, <1>1 DEF ConfigureRules, RateInv, TableTyped
  <2> QED BY <1>0, <1>1, <2>1, ThreadsKept DEF ConfigureRules, RateInv
<1>2. ASSUME NEW list \in Exclusions, ConfigureExclusions(list) PROVE RateInv'
  <2>1. TableTyped'
    BY <1>0, <1>2 DEF ConfigureExclusions, RateInv, TableTyped
  <2> QED BY <1>0, <1>2, <2>1, ThreadsKept DEF ConfigureExclusions, RateInv
<1>3. ASSUME NEW config \in RegistryConfigs, ConfigureRegistry(config) PROVE RateInv'
  <2>1. TableTyped'
    BY <1>0, <1>3 DEF ConfigureRegistry, RateInv, TableTyped
  <2> QED BY <1>0, <1>3, <2>1, ThreadsKept DEF ConfigureRegistry, RateInv
<1>4. CASE Tick
  <2>1. now' \in Times /\ now' = now + 1
    BY <1>0, <1>4 DEF Tick, Times
  <2>2. \A s \in Slots : start[s] <= now + 1
    BY <1>0 DEF RateInv, TableTyped
  <2>3. TableTyped'
    BY <1>4, <2>1, <2>2 DEF Tick, RateInv, TableTyped
  <2> QED BY <1>0, <1>4, <2>1, <2>3, ThreadsKept DEF Tick, RateInv
<1>5. ASSUME NEW s \in Slots, NEW g \in Granules, Zero(s, g) PROVE RateInv'
  <2>1. /\ key' \in {key, [key EXCEPT ![s] = NoKey]} /\ count' \in {count, [count EXCEPT ![s] = 0]}
        /\ start' \in {start, [start EXCEPT ![s] = 0]}
        /\ flagged' \in {flagged, [flagged EXCEPT ![s] = FALSE]}
        /\ UNCHANGED <<hits, now, generation, configs>> /\ wiping' \subseteq wiping
    BY <1>5 DEF Zero
  <2>2. TableTyped'
    <3> USE DEF RateInv, TableTyped
    <3>1. key' \in [Slots -> Keys \cup {NoKey}]
          /\ \A q, r \in Slots : key'[q] = key'[r] /\ key'[q] # NoKey => q = r
      BY <2>1
    <3>2. count' \in [Slots -> Nat] /\ \A r \in Slots : count'[r] <= Len(hits)
      <4>1. /\ count \in [Slots -> Nat] /\ (\A r \in Slots : count[r] <= Len(hits))
            /\ Len(hits) \in Nat
        OBVIOUS
      <4> HIDE DEF TableTyped
      <4> QED BY <2>1, <4>1
    <3>3. start' \in [Slots -> Nat] /\ \A r \in Slots : start'[r] <= now
      <4>1. start \in [Slots -> Nat] /\ \A r \in Slots : start[r] <= now
        OBVIOUS
      <4> HIDE DEF TableTyped
      <4> QED BY <1>0, <2>1, <4>1
    <3>4. flagged' \in [Slots -> BOOLEAN]
      BY <2>1
    <3> QED BY <2>1, <3>1, <3>2, <3>3, <3>4
  <2>3. \A r \in Slots : key'[r] \in {key[r], NoKey}
    BY <2>1 DEF RateInv, TableTyped
  <2> QED BY <1>0, <1>5, <2>2, <2>3, ThreadsKept DEF Zero, RateInv
<1> QED BY <1>1, <1>2, <1>3, <1>4, <1>5 DEF Request

----------------------------------------------------------------------------
(* The types, for every step *)

LEMMA NextRate == IInv /\ RateInv /\ [Next]_vars => RateInv'
<1> SUFFICES ASSUME IInv, RateInv, [Next]_vars PROVE RateInv'
  OBVIOUS
<1>1. CASE UNCHANGED vars
  <2> USE <1>1 DEF vars, behaviorVars, registryVars, ruleVars, threadVars, rateVars
  <2>1. TableTyped'
    BY DEF RateInv, TableTyped
  <2>2. now \in Nat /\ now' = now
    BY TimesAre DEF RateInv, TableTyped
  <2> QED BY <2>1, <2>2, ThreadsKept DEF RateInv
<1>2. CASE Request
  BY <1>2, RequestRate
<1>3. ASSUME NEW t \in Threads, ThreadStep(t) PROVE RateInv'
  <2>1. \/ AsideStep(t) \/ ReadClock(t) \/ FindSlot(t) \/ ClaimSlot(t) \/ Count(t)
    BY <1>3 DEF ThreadStep, AsideStep, RuleStep
  <2>2. CASE AsideStep(t)
    BY <2>2, AsideSteps, SidestepRate
  <2>3. CASE Count(t)
    BY <2>3, CountTable, CountThreads DEF RateInv
  <2> QED BY <2>1, <2>2, <2>3, ReadClockRate, FindSlotRate, ClaimSlotRate
<1> QED BY <1>1, <1>2, <1>3 DEF Next

LEMMA RateInvariant == Spec => []RateInv
BY InitRate, NextRate, Invariant, PTL DEF Spec

\* For any number of threads and slots, any rules and calls: every variable keeps its type, no
\* more matches are counted than the bound, the rate lock is held exactly by the thread that
\* counts, which has a slot, and no two slots are taken for one rule and process.
THEOREM TypeCorrect == Spec => []TypeOK
<1>1. IInv /\ RateInv => TypeOK
  <2> SUFFICES ASSUME IInv, RateInv PROVE TypeOK
    OBVIOUS
  <2>1. /\ rules \in RuleSets /\ exclusions \in Exclusions /\ registry \in RegistryConfigs
        /\ at \in [Threads -> Places] /\ call \in [Threads -> AllCalls \cup {NoCall}]
    BY DEF IInv, Typed
  <2>2. /\ key \in [Slots -> Keys \cup {NoKey}] /\ flagged \in [Slots -> BOOLEAN]
        /\ wiping \subseteq Slots \X Granules /\ now \in Times
        /\ match \in [Threads -> {NoMatch} \cup [rule : Rules, generation : 0..MaxConfigs]]
        /\ slot \in [Threads -> Slots \cup {NoSlot}]
        /\ \A s, r \in Slots : key[s] = key[r] /\ key[s] # NoKey => s = r
        /\ \A t \in Threads : (rateLock = t) = (at[t] = "counting")
    BY DEF RateInv, TableTyped, ThreadsTyped, MatchKinds
  <2>3. generation \in 0..MaxConfigs /\ configs \in 0..MaxConfigs
    BY LimitsAssumption DEF LimitsAssumption, RateInv, TableTyped
  <2>4. count \in [Slots -> 0..MaxHits]
    <3>1. Cardinality(Owing) \in Nat
      BY FS_Subset, FS_CardinalityType, ThreadsAssumption DEF ThreadsAssumption, Owing
    <3>2. Len(hits) \in Nat /\ Len(hits) + Cardinality(Owing) <= MaxHits /\ MaxHits \in Nat
          /\ count \in [Slots -> Nat] /\ \A s \in Slots : count[s] <= Len(hits)
      BY LimitsAssumption DEF LimitsAssumption, RateInv, TableTyped, Reserved
    <3> QED BY <3>1, <3>2
  <2>5. start \in [Slots -> Times \cup {0}] /\ stamp \in [Threads -> Times \cup {0}]
    <3>1. /\ start \in [Slots -> Nat] /\ \A s \in Slots : start[s] <= now
          /\ stamp \in [Threads -> Nat] /\ \A t \in Threads : stamp[t] <= now
      BY DEF RateInv, TableTyped, ThreadsTyped
    <3>2. \A n \in Nat : n <= now => n \in Times \cup {0}
      BY <2>2, TimesAre
    <3> QED BY <3>1, <3>2
  <2>6. \A t \in Threads : at[t] = "counting" => slot[t] \in Slots
    BY DEF RateInv, ThreadsTyped, Stage
  <2> QED BY <2>1, <2>2, <2>3, <2>4, <2>5, <2>6 DEF TypeOK
<1> QED BY <1>1, Invariant, RateInvariant, PTL

----------------------------------------------------------------------------
(* What a rate slot is backed by *)

\* Window and Enough of any sequence of hits; those of a window that are of one generation.
At(h, k, a) == {j \in DOMAIN h : /\ KeyOf(h[j]) = k
                                /\ h[j].from < a + h[j].rule.window /\ h[j].to >= a}
EnoughOf(h, set) == \E j \in set : Cardinality(set) >= h[j].rule.threshold
OwnOf(h, set, g) == {j \in set : h[j].generation = g}

\* The hits of key k back a slot that says start a, count c and flag f: they are as many as it
\* says, and those of the generation g are, unless a hit among them was raced or the word is
\* still to be zeroed.
Backed(h, k, a, c, f, g, wipesCount, wipesFlag) ==
  a # 0 =>
    LET all == At(h, k, a)
        own == OwnOf(h, all, g) IN
    /\ c <= Cardinality(all) /\ (f => EnoughOf(h, all))
    /\ \/ \E j \in all : h[j].raced
       \/ /\ wipesCount \/ c <= Cardinality(own)
          /\ wipesFlag \/ (f => EnoughOf(h, own))

Justified(h, i) ==
  \E s \in Times :
    LET all == At(h, KeyOf(h[i]), s)
        own == OwnOf(h, all, h[i].generation)
        raced == \E j \in all : h[j].raced IN
    i \in all /\ (EnoughOf(h, own) \/ (raced /\ EnoughOf(h, all)))

LEMMA AtFinite ==
  ASSUME NEW h \in Seq(HitKinds), NEW k, NEW a, NEW g
  PROVE  /\ At(h, k, a) \subseteq DOMAIN h
         /\ IsFiniteSet(At(h, k, a)) /\ Cardinality(At(h, k, a)) \in Nat
         /\ IsFiniteSet(OwnOf(h, At(h, k, a), g)) /\ Cardinality(OwnOf(h, At(h, k, a), g)) \in Nat
<1>1. DOMAIN h = 1..Len(h) /\ Len(h) \in Nat
  OBVIOUS
<1>2. IsFiniteSet(DOMAIN h)
  BY <1>1, FS_Interval
<1>3. At(h, k, a) \subseteq DOMAIN h /\ OwnOf(h, At(h, k, a), g) \subseteq DOMAIN h
  BY DEF At, OwnOf
<1> QED BY <1>2, <1>3, FS_Subset, FS_CardinalityType

\* One more hit is one more element of each window it falls into.
LEMMA AtGrows ==
  ASSUME NEW h \in Seq(HitKinds), NEW e \in HitKinds, NEW k, NEW a, NEW g
  PROVE  LET i == Append(h, e)
             n == Len(h) + 1
             falls == KeyOf(e) = k /\ e.from < a + e.rule.window /\ e.to >= a IN
         /\ i \in Seq(HitKinds) /\ n \in DOMAIN i /\ n \notin DOMAIN h /\ i[n] = e
         /\ \A j \in DOMAIN h : j \in DOMAIN i /\ i[j] = h[j]
         /\ At(i, k, a) = At(h, k, a) \cup (IF falls THEN {n} ELSE {})
         /\ OwnOf(i, At(i, k, a), g)
              = OwnOf(h, At(h, k, a), g) \cup (IF falls /\ e.generation = g THEN {n} ELSE {})
<1> DEFINE i == Append(h, e)  n == Len(h) + 1
           falls == KeyOf(e) = k /\ e.from < a + e.rule.window /\ e.to >= a
<1>1. /\ i \in Seq(HitKinds) /\ DOMAIN i = 1..n /\ n \in Nat /\ DOMAIN h = 1..(n - 1)
      /\ i[n] = e /\ \A j \in DOMAIN h : i[j] = h[j]
  OBVIOUS
<1>2. n \in DOMAIN i /\ n \notin DOMAIN h /\ DOMAIN i = DOMAIN h \cup {n}
  <2> HIDE DEF i, n
  <2>1. 1..n = 1..(n - 1) \cup {n} /\ n \notin 1..(n - 1) /\ n \in 1..n
    <3>1. n >= 1
      BY DEF n
    <3> QED BY <1>1, <3>1
  <2> QED BY <1>1, <2>1
<1> HIDE DEF i, n, falls
<1>3. \A j : j \in At(i, k, a) <=> j \in At(h, k, a) \/ (falls /\ j = n)
  BY <1>1, <1>2 DEF At, falls
<1>4. At(i, k, a) = At(h, k, a) \cup (IF falls THEN {n} ELSE {})
  BY <1>3
<1>5. \A j : j \in OwnOf(i, At(i, k, a), g) <=>
        j \in OwnOf(h, At(h, k, a), g) \/ (falls /\ e.generation = g /\ j = n)
  <2>1. At(h, k, a) \subseteq DOMAIN h
    BY AtFinite
  <2> QED BY <1>1, <1>2, <1>3, <2>1 DEF OwnOf
<1>6. OwnOf(i, At(i, k, a), g)
        = OwnOf(h, At(h, k, a), g) \cup (IF falls /\ e.generation = g THEN {n} ELSE {})
  BY <1>5
<1> QED BY <1>1, <1>2, <1>4, <1>6 DEF i, n, falls

LEMMA EnoughGrows ==
  ASSUME NEW h, NEW i, NEW set, NEW more, set \subseteq more, IsFiniteSet(more),
         \A j \in set : i[j] = h[j] /\ h[j].rule.threshold \in Nat, EnoughOf(h, set)
  PROVE  EnoughOf(i, more)
<1>1. PICK j \in set : Cardinality(set) >= h[j].rule.threshold
  BY DEF EnoughOf
<1>2. IsFiniteSet(set) /\ Cardinality(set) <= Cardinality(more)
  BY FS_Subset
<1>3. Cardinality(set) \in Nat /\ Cardinality(more) \in Nat
  BY <1>2, FS_CardinalityType
<1>4. Cardinality(more) >= i[j].rule.threshold
  <2> DEFINE a == Cardinality(set)  b == Cardinality(more)  c == h[j].rule.threshold
  <2>1. a \in Nat /\ b \in Nat /\ c \in Nat /\ a <= b /\ a >= c
    BY <1>1, <1>2, <1>3
  <2>2. i[j].rule.threshold = c
    OBVIOUS
  <2> HIDE DEF a, b, c
  <2>3. b >= c
    BY <2>1
  <2> QED BY <2>2, <2>3 DEF b
<1> QED BY <1>1, <1>4 DEF EnoughOf

LEMMA HitRules ==
  ASSUME NEW h \in Seq(HitKinds), NEW j \in DOMAIN h
  PROVE  /\ h[j] \in HitKinds /\ h[j].rule \in Rules
         /\ h[j].rule.threshold \in Nat /\ h[j].rule.window \in Nat \ {0}
         /\ h[j].from \in Nat /\ h[j].to \in Nat
<1>1. h[j] \in HitKinds
  OBVIOUS
<1>2. h[j].rule \in Rules /\ h[j].from \in Times /\ h[j].to \in Times
  BY <1>1 DEF HitKinds
<1> QED BY <1>1, <1>2, RulesAre, TimesAre

\* More hits still back a slot and justify a hit.
LEMMA MoreHits ==
  ASSUME NEW h \in Seq(HitKinds), NEW e \in HitKinds, NEW k, NEW a, NEW g
  PROVE  LET i == Append(h, e)
             all == At(h, k, a)
             more == At(i, k, a) IN
         /\ all \subseteq more /\ OwnOf(h, all, g) \subseteq OwnOf(i, more, g)
         /\ Cardinality(all) <= Cardinality(more)
         /\ Cardinality(OwnOf(h, all, g)) <= Cardinality(OwnOf(i, more, g))
         /\ EnoughOf(h, all) => EnoughOf(i, more)
         /\ EnoughOf(h, OwnOf(h, all, g)) => EnoughOf(i, OwnOf(i, more, g))
         /\ (\E j \in all : h[j].raced) => \E j \in more : i[j].raced
<1> DEFINE i == Append(h, e)  all == At(h, k, a)  more == At(i, k, a)
           own == OwnOf(h, all, g)  owned == OwnOf(i, more, g)
<1>1. /\ i \in Seq(HitKinds) /\ all \subseteq more /\ own \subseteq owned
      /\ \A j \in DOMAIN h : i[j] = h[j]
  BY AtGrows
<1> HIDE DEF i
<1>2. IsFiniteSet(more) /\ IsFiniteSet(owned) /\ all \subseteq DOMAIN h
  BY <1>1, AtFinite
<1>3. own \subseteq all
  BY DEF OwnOf
<1> HIDE DEF all, more, own, owned
<1>4. \A j \in all : i[j] = h[j] /\ h[j].rule.threshold \in Nat
  BY <1>1, <1>2, HitRules
<1>5. EnoughOf(h, all) => EnoughOf(i, more)
  BY <1>1, <1>2, <1>4, EnoughGrows
<1>6. EnoughOf(h, own) => EnoughOf(i, owned)
  <2>1. \A j \in own : i[j] = h[j] /\ h[j].rule.threshold \in Nat
    BY <1>3, <1>4
  <2> QED BY <1>1, <1>2, <2>1, EnoughGrows
<1>7. Cardinality(all) <= Cardinality(more) /\ Cardinality(own) <= Cardinality(owned)
  BY <1>1, <1>2, FS_Subset
<1>8. (\E j \in all : h[j].raced) => \E j \in more : i[j].raced
  BY <1>1, <1>4
<1> QED BY <1>1, <1>5, <1>6, <1>7, <1>8 DEF i, all, more, own, owned

LEMMA BackedGrows ==
  ASSUME NEW h \in Seq(HitKinds), NEW e \in HitKinds, NEW k, NEW a, NEW c \in Nat,
         NEW f \in BOOLEAN, NEW g, NEW wc \in BOOLEAN, NEW wf \in BOOLEAN,
         Backed(h, k, a, c, f, g, wc, wf)
  PROVE  Backed(Append(h, e), k, a, c, f, g, wc, wf)
<1> DEFINE i == Append(h, e)  all == At(h, k, a)  more == At(i, k, a)
           own == OwnOf(h, all, g)  owned == OwnOf(i, more, g)
<1>1. /\ EnoughOf(h, all) => EnoughOf(i, more)
      /\ EnoughOf(h, own) => EnoughOf(i, owned)
      /\ (\E j \in all : h[j].raced) => \E j \in more : i[j].raced
      /\ Cardinality(all) <= Cardinality(more) /\ Cardinality(own) <= Cardinality(owned)
  BY MoreHits
<1>2. /\ Cardinality(all) \in Nat /\ Cardinality(own) \in Nat
      /\ Cardinality(more) \in Nat /\ Cardinality(owned) \in Nat
  <2>1. i \in Seq(HitKinds)
    OBVIOUS
  <2> QED BY <2>1, AtFinite
<1>3. a # 0 =>
        /\ c <= Cardinality(all) /\ (f => EnoughOf(h, all))
        /\ \/ \E j \in all : h[j].raced
           \/ (wc \/ c <= Cardinality(own)) /\ (wf \/ (f => EnoughOf(h, own)))
  BY DEF Backed
<1>4. a # 0 =>
        /\ c <= Cardinality(more) /\ (f => EnoughOf(i, more))
        /\ \/ \E j \in more : i[j].raced
           \/ (wc \/ c <= Cardinality(owned)) /\ (wf \/ (f => EnoughOf(i, owned)))
  <2> HIDE DEF i, all, more, own, owned
  <2> QED BY <1>1, <1>2, <1>3
<1> QED BY <1>4 DEF Backed

\* Zeroing a word, or marking words to be zeroed, keeps what is there backed.
LEMMA BackedZeroed ==
  ASSUME NEW h \in Seq(HitKinds), NEW k, NEW a, NEW c \in Nat, NEW f \in BOOLEAN, NEW g,
         NEW wc \in BOOLEAN, NEW wf \in BOOLEAN, NEW b, NEW d, NEW l \in BOOLEAN,
         NEW vc \in BOOLEAN, NEW vf \in BOOLEAN,
         Backed(h, k, a, c, f, g, wc, wf), b \in {a, 0}, d \in {c, 0}, l => f,
         wc => vc \/ d = 0, wf => vf \/ ~l
  PROVE  Backed(h, k, b, d, l, g, vc, vf)
<1> SUFFICES ASSUME b # 0 PROVE Backed(h, k, b, d, l, g, vc, vf)
  BY DEF Backed
<1> DEFINE all == At(h, k, a)  own == OwnOf(h, all, g)
<1>1. b = a /\ a # 0
  OBVIOUS
<1>2. Cardinality(all) \in Nat /\ Cardinality(own) \in Nat
  BY AtFinite
<1>3. /\ c <= Cardinality(all) /\ (f => EnoughOf(h, all))
      /\ \/ \E j \in all : h[j].raced
         \/ (wc \/ c <= Cardinality(own)) /\ (wf \/ (f => EnoughOf(h, own)))
  BY <1>1 DEF Backed
<1>4. /\ d <= Cardinality(all) /\ (l => EnoughOf(h, all))
      /\ \/ \E j \in all : h[j].raced
         \/ (vc \/ d <= Cardinality(own)) /\ (vf \/ (l => EnoughOf(h, own)))
  <2> HIDE DEF all, own
  <2> QED BY <1>2, <1>3
<1> QED BY <1>1, <1>4 DEF Backed

LEMMA JustifiedGrows ==
  ASSUME NEW h \in Seq(HitKinds), NEW e \in HitKinds, NEW j \in DOMAIN h, Justified(h, j)
  PROVE  Justified(Append(h, e), j)
<1> DEFINE i == Append(h, e)  k == KeyOf(h[j])  g == h[j].generation
<1>1. PICK s \in Times :
        /\ j \in At(h, k, s)
        /\ \/ EnoughOf(h, OwnOf(h, At(h, k, s), g))
           \/ (\E r \in At(h, k, s) : h[r].raced) /\ EnoughOf(h, At(h, k, s))
  BY DEF Justified
<1>2. i[j] = h[j]
  OBVIOUS
<1>3. /\ At(h, k, s) \subseteq At(i, k, s)
      /\ EnoughOf(h, At(h, k, s)) => EnoughOf(i, At(i, k, s))
      /\ EnoughOf(h, OwnOf(h, At(h, k, s), g)) => EnoughOf(i, OwnOf(i, At(i, k, s), g))
      /\ (\E r \in At(h, k, s) : h[r].raced) => \E r \in At(i, k, s) : i[r].raced
  BY MoreHits
<1> HIDE DEF i
<1> QED BY <1>1, <1>2, <1>3 DEF Justified, i

\* Counting one more hit e, in a slot of its key whose window is over for it or is not.
IsOver(e, a) == a = 0 \/ e.from >= a + e.rule.window
StartFor(e, a) == IF IsOver(e, a) THEN e.from ELSE a
CountFor(e, a, c, f) == IF IsOver(e, a) THEN 1 ELSE IF f THEN c ELSE c + 1
FlagFor(e, a, c, f) == ~IsOver(e, a) /\ (f \/ c + 1 >= e.rule.threshold)
Carried(h, e, a, c, f, g) ==
  /\ \A vc, vf \in BOOLEAN :
       Backed(Append(h, e), KeyOf(e), StartFor(e, a), CountFor(e, a, c, f),
              FlagFor(e, a, c, f), g, vc, vf)
  /\ ~IsOver(e, a) /\ (f \/ c + 1 >= e.rule.threshold) =>
       Justified(Append(h, e), Len(h) + 1)
LEMMA CountedBacked ==
  ASSUME NEW h \in Seq(HitKinds), NEW e \in HitKinds, NEW a \in Nat, NEW c \in Nat,
         NEW f \in BOOLEAN, NEW g, NEW wc \in BOOLEAN, NEW wf \in BOOLEAN,
         Backed(h, KeyOf(e), a, c, f, g, wc, wf), a <= e.to, e.from <= e.to,
         ~e.raced => e.generation = g /\ ~wc /\ ~wf
  PROVE  Carried(h, e, a, c, f, g)
<1> USE DEF Carried
<1> DEFINE over == IsOver(e, a)  d == CountFor(e, a, c, f)  l == FlagFor(e, a, c, f)
<1>0. /\ over \in BOOLEAN /\ l \in BOOLEAN
      /\ over <=> a = 0 \/ e.from >= a + e.rule.window
      /\ d = (IF over THEN 1 ELSE IF f THEN c ELSE c + 1)
      /\ l <=> ~over /\ (f \/ c + 1 >= e.rule.threshold)
      /\ StartFor(e, a) = (IF over THEN e.from ELSE a)
      /\ ~IsOver(e, a) /\ (f \/ c + 1 >= e.rule.threshold) => l
  BY DEF IsOver, CountFor, FlagFor, StartFor
<1> HIDE DEF over, d, l
<1> DEFINE i == Append(h, e)  k == KeyOf(e)  n == Len(h) + 1
           b == IF over THEN e.from ELSE a
           all == At(h, k, b)  more == At(i, k, b)
           own == OwnOf(h, all, g)  owned == OwnOf(i, more, g)
<1>1. /\ e.from \in Times /\ e.to \in Times /\ e.rule \in Rules
      /\ e.from \in Nat \ {0} /\ e.to \in Nat \ {0} /\ e.raced \in BOOLEAN
      /\ e.rule.threshold \in Nat /\ e.rule.window \in Nat \ {0}
  <2>1. e.from \in Times /\ e.to \in Times /\ e.rule \in Rules /\ e.raced \in BOOLEAN
    BY DEF HitKinds
  <2> QED BY <2>1, RulesAre, TimesAre
<1>2. e.from < b + e.rule.window /\ e.to >= b /\ b \in Nat \ {0} /\ b <= e.to
  BY <1>0, <1>1
<1>3. i \in Seq(HitKinds) /\ n \in DOMAIN i /\ i[n] = e /\ n \notin DOMAIN h
  BY AtGrows
<1>4. more = all \cup {n} /\ owned = own \cup (IF e.generation = g THEN {n} ELSE {})
  <2> DEFINE falls == KeyOf(e) = k /\ e.from < b + e.rule.window /\ e.to >= b
  <2>1. /\ more = all \cup (IF falls THEN {n} ELSE {})
        /\ owned = own \cup (IF falls /\ e.generation = g THEN {n} ELSE {})
    <3> HIDE DEF b
    <3> QED BY AtGrows
  <2>2. falls
    BY <1>2
  <2> HIDE DEF falls
  <2> QED BY <2>1, <2>2
<1>5. all \subseteq DOMAIN h /\ own \subseteq all
  BY AtFinite DEF OwnOf
<1>6. /\ Cardinality(more) = Cardinality(all) + 1 /\ Cardinality(all) \in Nat
      /\ e.generation = g => Cardinality(owned) = Cardinality(own) + 1
      /\ Cardinality(own) \in Nat
  <2>1. IsFiniteSet(all) /\ IsFiniteSet(own) /\ n \notin all /\ n \notin own
    BY <1>3, <1>5, AtFinite
  <2> HIDE DEF all, own, n, more, owned
  <2>2. /\ Cardinality(all \cup {n}) = Cardinality(all) + 1 /\ Cardinality(all) \in Nat
        /\ Cardinality(own \cup {n}) = Cardinality(own) + 1 /\ Cardinality(own) \in Nat
    BY <2>1, AddsOne
  <2> QED BY <1>4, <2>2
<1>7. n \in more /\ (e.raced => \E j \in more : i[j].raced)
  BY <1>3, <1>4
<1>8. /\ EnoughOf(h, all) => EnoughOf(i, more)
      /\ EnoughOf(h, own) => EnoughOf(i, owned)
      /\ (\E j \in all : h[j].raced) => \E j \in more : i[j].raced
  BY MoreHits
<1>9. /\ Cardinality(more) >= e.rule.threshold => EnoughOf(i, more)
      /\ e.generation = g /\ Cardinality(owned) >= e.rule.threshold => EnoughOf(i, owned)
  BY <1>3, <1>4, <1>7 DEF EnoughOf
<1>10. ~over =>
         /\ b = a /\ c <= Cardinality(all) /\ (f => EnoughOf(h, all))
         /\ \/ \E j \in all : h[j].raced
            \/ (wc \/ c <= Cardinality(own)) /\ (wf \/ (f => EnoughOf(h, own)))
  BY <1>0 DEF Backed
<1>11. d <= Cardinality(more) /\ (l => EnoughOf(i, more))
  <2> HIDE DEF i, k, n, b, all, more, own, owned
  <2>1. CASE over
    BY <1>0, <1>6, <2>1
  <2>2. CASE ~over
    BY <1>0, <1>1, <1>6, <1>8, <1>9, <1>10, <2>2
  <2> QED BY <2>1, <2>2
<1>12. \/ \E j \in more : i[j].raced
       \/ d <= Cardinality(owned) /\ (l => EnoughOf(i, owned))
  <2> HIDE DEF i, k, n, b, all, more, own, owned
  <2>1. CASE e.raced
    BY <1>7, <2>1
  <2>2. CASE ~e.raced /\ over
    BY <1>0, <1>6, <2>2
  <2>3. CASE ~e.raced /\ ~over
    <3>1. CASE \E j \in all : h[j].raced
      BY <1>8, <3>1
    <3>2. CASE c <= Cardinality(own) /\ (f => EnoughOf(h, own))
      BY <1>0, <1>1, <1>6, <1>8, <1>9, <2>3, <3>2
    <3> QED BY <1>10, <2>3, <3>1, <3>2
  <2> QED BY <2>1, <2>2, <2>3
<1>13. \A vc, vf \in BOOLEAN : Backed(i, k, b, d, l, g, vc, vf)
  BY <1>11, <1>12 DEF Backed
<1>14. ASSUME l PROVE Justified(i, n)
  <2>1. b \in Times
    <3> HIDE DEF b
    <3> QED BY <1>1, <1>2, TimesAre
  <2>2. KeyOf(i[n]) = k
    BY <1>3
  <2>3. CASE \E j \in more : i[j].raced
    <3> HIDE DEF i, n, b, k
    <3> QED BY <1>7, <1>11, <1>14, <2>1, <2>2, <2>3 DEF Justified
  <2>4. CASE ~\E j \in more : i[j].raced
    <3>1. EnoughOf(i, owned)
      BY <1>12, <1>14, <2>4
    <3>2. i[n].generation = g
      BY <1>3, <1>7, <2>4
    <3> HIDE DEF i, n, b, k
    <3> QED BY <1>7, <2>1, <2>2, <3>1, <3>2 DEF Justified
  <2> QED BY <2>3, <2>4
<1> QED BY <1>0, <1>13, <1>14 DEF i, n, k, b, d, l

----------------------------------------------------------------------------
(* A rule fires only when it was matched often enough *)

SlotBacked(s, k) ==
  Backed(hits, k, start[s], count[s], flagged[s], generation,
         <<s, "count">> \in wiping, <<s, "flag">> \in wiping)
SlotsBacked == \A s \in Slots : key[s] # NoKey => SlotBacked(s, key[s])
HandsBacked == \A t \in Threads : at[t] = "counting" => SlotBacked(slot[t], Key(t))
HitsJustified == \A i \in DOMAIN hits : hits[i].fired => Justified(hits, i)
NeedInv == SlotsBacked /\ HandsBacked /\ HitsJustified

\* A step that touches neither the table nor what a counting thread has in hand.
HandKept(u) == UNCHANGED <<at[u], Key(u), Rule(u), stamp[u], slot[u]>>
Quiet ==
  /\ UNCHANGED <<key, count, start, flagged, hits, generation, wiping>>
  /\ \A u \in Threads : "counting" \in {at[u], at'[u]} => HandKept(u)

LEMMA SidestepQuiet ==
  ASSUME IInv, NEW t \in Threads, NEW place, Sidestep(t, place)
  PROVE  Quiet
<1>1. /\ place # "counting" /\ at' = [at EXCEPT ![t] = place] /\ at \in [Threads -> Places]
      /\ OthersKept(t)
  BY DEF Sidestep, Go, IInv, Typed
<1>2. UNCHANGED <<key, count, start, flagged, hits, generation, wiping>>
  BY DEF Sidestep, TableSame, rateVars
<1>3. ASSUME NEW u \in Threads, "counting" \in {at[u], at'[u]} PROVE HandKept(u)
  <2>1. u # t /\ at'[u] = at[u]
    BY <1>1, <1>3 DEF Sidestep
  <2> QED BY <1>1, <2>1 DEF HandKept, OthersKept, Key, Rule
<1> QED BY <1>2, <1>3 DEF Quiet

\* Every step is quiet but those that count, and the replacing of the rules.
LEMMA LoudSteps ==
  ASSUME IInv, RateInv, [Next]_vars, ~Quiet
  PROVE  \/ \E t \in Threads : FindSlot(t) \/ ClaimSlot(t) \/ Count(t)
         \/ \E set \in RuleSets : ConfigureRules(set)
         \/ \E s \in Slots, g \in Granules : Zero(s, g)
<1>1. ASSUME UNCHANGED <<key, count, start, flagged, hits, generation, wiping,
                         at, call, match, stamp, slot>>
      PROVE  Quiet
  BY <1>1 DEF Quiet, HandKept, Key, Rule
<1>2. ~UNCHANGED vars
  BY <1>1 DEF vars, behaviorVars, rateVars, ruleVars, threadVars
<1>3. CASE Request
  <2>1. \A list \in Exclusions : ~ConfigureExclusions(list)
    BY <1>1 DEF ConfigureExclusions, rateVars
  <2>2. \A config \in RegistryConfigs : ~ConfigureRegistry(config)
    BY <1>1 DEF ConfigureRegistry, rateVars, threadVars
  <2>3. ~Tick
    BY <1>1 DEF Tick, rateVars, ruleVars, threadVars
  <2> QED BY <1>3, <2>1, <2>2, <2>3 DEF Request
<1>4. ASSUME NEW t \in Threads, ThreadStep(t) PROVE FindSlot(t) \/ ClaimSlot(t) \/ Count(t)
  <2>1. ~AsideStep(t)
    BY AsideSteps, SidestepQuiet
  <2>2. ~ReadClock(t)
    <3> SUFFICES ASSUME ReadClock(t) PROVE Quiet
      OBVIOUS
    <3>1. /\ at' = [at EXCEPT ![t] = "locking"] /\ at \in [Threads -> Places]
          /\ stamp' = [stamp EXCEPT ![t] = now] /\ UNCHANGED <<call, match, slot>>
          /\ UNCHANGED <<key, count, start, flagged, hits, generation, wiping>>
      BY DEF ReadClock, Go, IInv, Typed, rateVars, ruleVars
    <3>2. ASSUME NEW u \in Threads, "counting" \in {at[u], at'[u]} PROVE HandKept(u)
      <4>1. u # t
        BY <3>1, <3>2 DEF ReadClock
      <4>2. at'[u] = at[u] /\ stamp'[u] = stamp[u]
        BY <3>1, <4>1 DEF RateInv, ThreadsTyped
      <4> QED BY <3>1, <4>2 DEF HandKept, Key, Rule
    <3> QED BY <3>1, <3>2 DEF Quiet
  <2> QED BY <1>4, <2>1, <2>2 DEF ThreadStep, AsideStep, RuleStep
<1> QED BY <1>2, <1>3, <1>4 DEF Next

LEMMA InitNeed == Init => NeedInv
<1> SUFFICES ASSUME Init PROVE NeedInv
  OBVIOUS
<1>1. /\ \A s \in Slots : key[s] = NoKey
      /\ \A t \in Threads : at[t] = "idle"
      /\ hits = <<>>
  BY DEF Init, BehaviorInit
<1>2. DOMAIN hits = {}
  BY <1>1
<1> QED BY <1>1, <1>2 DEF NeedInv, SlotsBacked, HandsBacked, HitsJustified

LEMMA QuietNeed ==
  ASSUME NeedInv, Quiet
  PROVE  NeedInv'
<1> USE DEF NeedInv, Quiet, SlotBacked
<1>1. SlotsBacked'
  BY DEF SlotsBacked
<1>2. ASSUME NEW t \in Threads, at'[t] = "counting"
      PROVE  /\ at[t] = "counting" /\ slot'[t] = slot[t] /\ Key(t)' = Key(t)
             /\ SlotBacked(slot[t], Key(t))
  <2>1. HandKept(t)
    BY <1>2
  <2>2. /\ at[t] = "counting" /\ slot'[t] = slot[t] /\ Key(t)' = Key(t)
    BY <1>2, <2>1 DEF HandKept
  <2> QED BY <2>2 DEF HandsBacked
<1>3. HandsBacked'
  BY <1>2 DEF HandsBacked
<1>4. HitsJustified'
  BY DEF HitsJustified
<1> QED BY <1>1, <1>3, <1>4

\* The words of a slot, typed.
LEMMA Words ==
  ASSUME RateInv, NEW s \in Slots
  PROVE  /\ hits \in Seq(HitKinds) /\ start[s] \in Nat /\ count[s] \in Nat
         /\ flagged[s] \in BOOLEAN /\ start[s] <= now
         /\ (<<s, "count">> \in wiping) \in BOOLEAN /\ (<<s, "flag">> \in wiping) \in BOOLEAN
BY DEF RateInv, TableTyped

LEMMA ConfigureNeed ==
  ASSUME IInv, RateInv, NeedInv, NEW set \in RuleSets, ConfigureRules(set)
  PROVE  NeedInv'
<1>1. /\ wiping' = Slots \X Granules
      /\ UNCHANGED <<key, count, start, flagged, hits, at, call, match, slot>>
  BY DEF ConfigureRules, rateVars
<1>2. ASSUME NEW s \in Slots, NEW k, SlotBacked(s, k) PROVE SlotBacked(s, k)'
  <2>1. <<s, "count">> \in wiping' /\ <<s, "flag">> \in wiping'
    BY <1>1 DEF Granules
  <2>2. Backed(hits, k, start[s], count[s], flagged[s], generation',
               <<s, "count">> \in wiping', <<s, "flag">> \in wiping')
    <3>1. start[s] # 0 => LET all == At(hits, k, start[s]) IN
             count[s] <= Cardinality(all) /\ (flagged[s] => EnoughOf(hits, all))
      BY <1>2 DEF SlotBacked, Backed
    <3> QED BY <2>1, <3>1 DEF Backed
  <2> QED BY <1>1, <2>2 DEF SlotBacked
<1>3. SlotsBacked'
  BY <1>1, <1>2 DEF NeedInv, SlotsBacked, SlotBacked
<1>4. HandsBacked'
  <2>1. \A t \in Threads : Key(t)' = Key(t)
    BY <1>1 DEF Key, Rule
  <2>2. \A t \in Threads : at[t] = "counting" => slot[t] \in Slots
    BY DEF RateInv, ThreadsTyped, Stage
  <2> QED BY <1>1, <1>2, <2>1, <2>2 DEF NeedInv, HandsBacked, SlotBacked
<1>5. HitsJustified'
  BY <1>1 DEF NeedInv, HitsJustified
<1> QED BY <1>3, <1>4, <1>5 DEF NeedInv

\* A thread that takes the lock is the one thread that counts, in the slot it takes.
LEMMA TakesHand ==
  ASSUME IInv, RateInv, NEW t \in Threads, FindSlot(t) \/ ClaimSlot(t)
  PROVE  /\ at[t] = "locking" /\ slot'[t] \in Slots /\ Key(t)' = Key(t) /\ Key(t) \in Keys
         /\ \A u \in Threads : at'[u] = "counting" => u = t
         /\ key'[slot'[t]] = Key(t) /\ key'[slot'[t]] # NoKey
<1>1. /\ at[t] = "locking" /\ rateLock = NoThread /\ Go(t, "counting")
      /\ UNCHANGED <<call, match>>
  BY DEF FindSlot, ClaimSlot
<1>2. \A u \in Threads : at[u] # "counting"
  BY <1>1, ThreadsAssumption DEF ThreadsAssumption, RateInv, ThreadsTyped
<1>3. \A u \in Threads : at'[u] = "counting" => u = t
  BY <1>1, <1>2 DEF Go, IInv, Typed
<1>4. Key(t)' = Key(t) /\ Key(t) \in Keys
  BY <1>1, CountedHasKey DEF Key, Rule
<1>5. slot \in [Threads -> Slots \cup {NoSlot}] /\ key \in [Slots -> Keys \cup {NoKey}]
  BY DEF RateInv, ThreadsTyped, TableTyped
<1>6. slot'[t] \in Slots /\ key'[slot'[t]] = Key(t)
  <2>1. CASE FindSlot(t)
    BY <1>5, <2>1 DEF FindSlot, Found
  <2>2. CASE ClaimSlot(t)
    BY <1>5, <2>2 DEF ClaimSlot, Free
  <2> QED BY <2>1, <2>2
<1> QED BY <1>1, <1>3, <1>4, <1>6, KeysAssumption

LEMMA FindNeed ==
  ASSUME IInv, RateInv, NeedInv, NEW t \in Threads, FindSlot(t)
  PROVE  NeedInv'
<1>1. UNCHANGED <<key, count, start, flagged, hits, generation, wiping>>
  BY DEF FindSlot, ruleVars
<1>2. SlotsBacked' /\ HitsJustified'
  BY <1>1 DEF NeedInv, SlotsBacked, HitsJustified, SlotBacked
<1>3. HandsBacked'
  <2>1. SlotBacked(slot'[t], Key(t))
    BY <1>1, TakesHand DEF NeedInv, SlotsBacked
  <2> QED BY <1>1, <2>1, TakesHand DEF HandsBacked, SlotBacked
<1> QED BY <1>2, <1>3 DEF NeedInv

LEMMA ClaimNeed ==
  ASSUME IInv, RateInv, NeedInv, NEW t \in Threads, ClaimSlot(t)
  PROVE  NeedInv'
<1>1. PICK s \in Free :
        /\ slot' = [slot EXCEPT ![t] = s]
        /\ key' = [key EXCEPT ![s] = Key(t)] /\ count' = [count EXCEPT ![s] = 0]
        /\ start' = [start EXCEPT ![s] = stamp[t]] /\ flagged' = [flagged EXCEPT ![s] = FALSE]
  BY DEF ClaimSlot
<1>2. UNCHANGED <<hits, generation, wiping>> /\ s \in Slots
  BY DEF ClaimSlot, ruleVars, Free
<1>3. \A k, g, wc, wf : Backed(hits, k, stamp[t], 0, FALSE, g, wc, wf)
  <2>1. \A k, g : /\ Cardinality(At(hits, k, stamp[t])) \in Nat
                  /\ Cardinality(OwnOf(hits, At(hits, k, stamp[t]), g)) \in Nat
    BY AtFinite DEF RateInv, TableTyped
  <2> QED BY <2>1 DEF Backed
<1>4. /\ count'[s] = 0 /\ start'[s] = stamp[t] /\ flagged'[s] = FALSE
      /\ \A r \in Slots \ {s} : /\ key'[r] = key[r] /\ count'[r] = count[r]
                               /\ start'[r] = start[r] /\ flagged'[r] = flagged[r]
  BY <1>1, <1>2 DEF RateInv, TableTyped
<1>5. SlotsBacked'
  BY <1>2, <1>3, <1>4 DEF NeedInv, SlotsBacked, SlotBacked
<1>6. HandsBacked'
  <2>1. slot'[t] = s
    BY <1>1 DEF RateInv, ThreadsTyped
  <2>2. \A u \in Threads : at'[u] = "counting" => u = t
    BY TakesHand
  <2>3. Backed(hits, Key(t)', start'[s], count'[s], flagged'[s], generation,
               <<s, "count">> \in wiping, <<s, "flag">> \in wiping)
    BY <1>3, <1>4
  <2> QED BY <1>2, <2>1, <2>2, <2>3 DEF HandsBacked, SlotBacked
<1>7. HitsJustified'
  BY <1>2 DEF NeedInv, HitsJustified
<1> QED BY <1>5, <1>6, <1>7 DEF NeedInv

LEMMA ZeroNeed ==
  ASSUME IInv, RateInv, NeedInv, NEW s \in Slots, NEW g \in Granules, Zero(s, g)
  PROVE  NeedInv'
<1>1. /\ key' \in {key, [key EXCEPT ![s] = NoKey]}
      /\ UNCHANGED <<hits, generation, at, call, match, slot>>
      /\ wiping' = wiping \ {<<s, g>>}
      /\ count' = (IF g = "count" THEN [count EXCEPT ![s] = 0] ELSE count)
      /\ start' \in {start, [start EXCEPT ![s] = 0]}
      /\ flagged' = (IF g = "flag" THEN [flagged EXCEPT ![s] = FALSE] ELSE flagged)
  BY DEF Zero, threadVars
<1>2. ASSUME NEW r \in Slots
      PROVE  /\ start'[r] \in {start[r], 0} /\ count'[r] \in {count[r], 0}
             /\ flagged'[r] \in BOOLEAN /\ (flagged'[r] => flagged[r])
             /\ (<<r, "count">> \in wiping => <<r, "count">> \in wiping' \/ count'[r] = 0)
             /\ (<<r, "flag">> \in wiping => <<r, "flag">> \in wiping' \/ ~flagged'[r])
             /\ key'[r] \in {key[r], NoKey}
  <2> USE DEF RateInv, TableTyped
  <2>1. start'[r] \in {start[r], 0} /\ key'[r] \in {key[r], NoKey}
    BY <1>1
  <2>2. count'[r] = (IF g = "count" /\ r = s THEN 0 ELSE count[r])
    BY <1>1
  <2>3. flagged'[r] = (IF g = "flag" /\ r = s THEN FALSE ELSE flagged[r])
    BY <1>1
  <2>4. flagged[r] \in BOOLEAN
    OBVIOUS
  <2>5. \A w : <<r, w>> \in wiping => <<r, w>> \in wiping' \/ (r = s /\ w = g)
    BY <1>1
  <2> HIDE DEF RateInv, TableTyped
  <2>6. <<r, "count">> \in wiping => <<r, "count">> \in wiping' \/ count'[r] = 0
    BY <2>2, <2>5
  <2>7. <<r, "flag">> \in wiping => <<r, "flag">> \in wiping' \/ ~flagged'[r]
    BY <2>3, <2>5
  <2>8. flagged'[r] \in BOOLEAN /\ (flagged'[r] => flagged[r])
    BY <2>3, <2>4
  <2> QED BY <2>1, <2>2, <2>6, <2>7, <2>8
<1>3. ASSUME NEW r \in Slots, NEW k, SlotBacked(r, k) PROVE SlotBacked(r, k)'
  <2>1. Backed(hits, k, start'[r], count'[r], flagged'[r], generation,
               <<r, "count">> \in wiping', <<r, "flag">> \in wiping')
    <3> DEFINE wc == <<r, "count">> \in wiping  wf == <<r, "flag">> \in wiping
               vc == <<r, "count">> \in wiping'  vf == <<r, "flag">> \in wiping'
    <3>1. wc \in BOOLEAN /\ wf \in BOOLEAN /\ vc \in BOOLEAN /\ vf \in BOOLEAN
      OBVIOUS
    <3>2. Backed(hits, k, start[r], count[r], flagged[r], generation, wc, wf)
      BY <1>3 DEF SlotBacked
    <3>3. (wc => vc \/ count'[r] = 0) /\ (wf => vf \/ ~flagged'[r])
      BY <1>2
    <3> HIDE DEF wc, wf, vc, vf
    <3> DEFINE a == start[r]  b == start'[r]  c == count[r]  d == count'[r]
               f == flagged[r]  l == flagged'[r]
    <3>4. hits \in Seq(HitKinds) /\ c \in Nat /\ f \in BOOLEAN
      BY Words
    <3>5. b \in {a, 0} /\ d \in {c, 0} /\ l \in BOOLEAN /\ (l => f)
      BY <1>2
    <3>6. (wc => vc \/ d = 0) /\ (wf => vf \/ ~l)
      BY <3>3
    <3>7. Backed(hits, k, a, c, f, generation, wc, wf)
      BY <3>2
    <3> HIDE DEF a, b, c, d, f, l
    <3>8. Backed(hits, k, b, d, l, generation, vc, vf)
      BY <3>1, <3>4, <3>5, <3>6, <3>7, BackedZeroed
    <3> QED BY <3>8 DEF vc, vf, b, d, l
  <2> QED BY <1>1, <2>1 DEF SlotBacked
<1>4. SlotsBacked'
  BY <1>2, <1>3 DEF NeedInv, SlotsBacked, SlotBacked
<1>5. HandsBacked'
  <2>1. \A t \in Threads : Key(t)' = Key(t)
    BY <1>1 DEF Key, Rule
  <2>2. \A t \in Threads : at[t] = "counting" => slot[t] \in Slots
    BY DEF RateInv, ThreadsTyped, Stage
  <2> QED BY <1>1, <1>3, <2>1, <2>2 DEF NeedInv, HandsBacked, SlotBacked
<1>6. HitsJustified'
  BY <1>1 DEF NeedInv, HitsJustified
<1> QED BY <1>4, <1>5, <1>6 DEF NeedInv

LEMMA CountNeed ==
  ASSUME IInv, RateInv, NeedInv, NEW t \in Threads, Count(t)
  PROVE  NeedInv'
<1> DEFINE s == slot[t]  e == Hit(t, s)
           wc == <<s, "count">> \in wiping  wf == <<s, "flag">> \in wiping
<1>1. /\ at[t] = "counting" /\ count' = [count EXCEPT ![s] = Counted(t, s)]
      /\ start' = [start EXCEPT ![s] = IF WindowOver(t, s) THEN stamp[t] ELSE start[s]]
      /\ flagged' = [flagged EXCEPT ![s] = Fires(t, s)]
      /\ hits' = Append(hits, e) /\ UNCHANGED <<key, generation>>
      /\ \E lost : wiping' = wiping \ ({s} \X lost)
      /\ \E place : place # "counting" /\ Go(t, place)
  BY DEF Count, Say, Finish
<1>2. /\ s \in Slots /\ key[s] \in {Key(t), NoKey} /\ e \in HitKinds /\ stamp[t] <= now
      /\ \A u \in Threads \ {t} : at[u] # "counting"
  BY <1>1, InHand
<1>3. /\ KeyOf(e) = Key(t) /\ e.from = stamp[t] /\ e.to = now /\ e.rule = Rule(t)
      /\ e.fired = Fires(t, s) /\ e.generation = match[t].generation /\ e.raced = Raced(t)
  BY DEF Hit, KeyOf, Key
<1>4. SlotBacked(s, Key(t))
  BY <1>1 DEF NeedInv, HandsBacked
<1>5. /\ \A vc, vf \in BOOLEAN :
           Backed(hits', Key(t), start'[s], count'[s], flagged'[s], generation, vc, vf)
      /\ Fires(t, s) => Justified(hits', Len(hits) + 1)
  <2>1. /\ start'[s] = (IF WindowOver(t, s) THEN stamp[t] ELSE start[s])
        /\ count'[s] = Counted(t, s) /\ flagged'[s] = Fires(t, s)
    BY <1>1, <1>2 DEF RateInv, TableTyped
  <2>2. ~Raced(t) => match[t].generation = generation /\ ~wc /\ ~wf
    BY DEF Raced
  <2>3. Backed(hits, KeyOf(e), start[s], count[s], flagged[s], generation, wc, wf)
    BY <1>3, <1>4 DEF SlotBacked
  <2> DEFINE a == start[s]  c == count[s]  f == flagged[s]
  <2>10. WindowOver(t, s) <=> IsOver(e, a)
    BY <1>3 DEF WindowOver, IsOver
  <2>4. wc \in BOOLEAN /\ wf \in BOOLEAN
    OBVIOUS
  <2>5. /\ start'[s] = StartFor(e, a) /\ count'[s] = CountFor(e, a, c, f)
        /\ Fires(t, s) <=> FlagFor(e, a, c, f)
        /\ Fires(t, s) => ~IsOver(e, a) /\ (f \/ c + 1 >= e.rule.threshold)
    BY <1>3, <2>1, <2>10 DEF StartFor, CountFor, FlagFor, Counted, Fires
  <2>6. ~e.raced => e.generation = generation /\ ~wc /\ ~wf
    BY <1>3, <2>2
  <2>7. /\ hits \in Seq(HitKinds) /\ e \in HitKinds
        /\ a \in Nat /\ c \in Nat /\ f \in BOOLEAN /\ a <= e.to /\ e.from <= e.to
    BY <1>2, <1>3, Words
  <2>8. flagged'[s] = FlagFor(e, a, c, f)
    <3>1. FlagFor(e, a, c, f) \in BOOLEAN /\ Fires(t, s) \in BOOLEAN
      BY DEF FlagFor, Fires
    <3> QED BY <2>1, <2>5, <3>1
  <2>11. Backed(hits, KeyOf(e), a, c, f, generation, wc, wf)
    BY <2>3
  <2> HIDE DEF e, s, wc, wf, a, c, f
  <2>9. Carried(hits, e, a, c, f, generation)
    BY <2>4, <2>6, <2>7, <2>11, CountedBacked
  <2> QED BY <1>1, <1>3, <2>5, <2>8, <2>9 DEF Carried
<1>6. ASSUME NEW r \in Slots, r # s, NEW k, SlotBacked(r, k)
      PROVE  Backed(hits', k, start'[r], count'[r], flagged'[r], generation,
                    <<r, "count">> \in wiping', <<r, "flag">> \in wiping')
  <2>1. /\ start'[r] = start[r] /\ count'[r] = count[r] /\ flagged'[r] = flagged[r]
        /\ \A w : <<r, w>> \in wiping' <=> <<r, w>> \in wiping
    BY <1>1, <1>6 DEF RateInv, TableTyped
  <2> DEFINE vc == <<r, "count">> \in wiping  vf == <<r, "flag">> \in wiping
  <2>2. vc \in BOOLEAN /\ vf \in BOOLEAN
    OBVIOUS
  <2>3. Backed(hits, k, start[r], count[r], flagged[r], generation, vc, vf)
    BY <1>6 DEF SlotBacked
  <2> HIDE DEF vc, vf, e, s
  <2>4. Backed(Append(hits, e), k, start[r], count[r], flagged[r], generation, vc, vf)
    BY <1>2, <2>2, <2>3, Words, BackedGrows
  <2>5. (<<r, "count">> \in wiping' <=> vc) /\ (<<r, "flag">> \in wiping' <=> vf)
    BY <2>1 DEF vc, vf
  <2> QED BY <1>1, <2>1, <2>4, <2>5 DEF Backed
<1>7. SlotsBacked'
  <2> SUFFICES ASSUME NEW r \in Slots, key'[r] # NoKey
               PROVE  Backed(hits', key'[r], start'[r], count'[r], flagged'[r], generation',
                             <<r, "count">> \in wiping', <<r, "flag">> \in wiping')
    BY DEF SlotsBacked, SlotBacked
  <2>1. CASE r = s
    <3>1. key'[r] = Key(t)
      BY <1>1, <1>2, <2>1
    <3> DEFINE vc == <<r, "count">> \in wiping'  vf == <<r, "flag">> \in wiping'
    <3>2. vc \in BOOLEAN /\ vf \in BOOLEAN
      OBVIOUS
    <3> HIDE DEF vc, vf, s
    <3>3. Backed(hits', Key(t), start'[s], count'[s], flagged'[s], generation, vc, vf)
      BY <1>5, <3>2
    <3> QED BY <1>1, <2>1, <3>1, <3>3 DEF vc, vf
  <2>2. CASE r # s
    BY <1>1, <1>6, <2>2 DEF NeedInv, SlotsBacked
  <2> QED BY <2>1, <2>2
<1>8. HandsBacked'
  <2>1. \A u \in Threads : at'[u] # "counting"
    BY <1>1, <1>2 DEF Go, IInv, Typed
  <2> QED BY <2>1 DEF HandsBacked
<1>9. HitsJustified'
  <2> SUFFICES ASSUME NEW j \in DOMAIN hits', hits'[j].fired PROVE Justified(hits', j)
    BY DEF HitsJustified
  <2>1. CASE j \in DOMAIN hits
    <3> HIDE DEF e, s
    <3>1. hits \in Seq(HitKinds)
      BY DEF RateInv, TableTyped
    <3>2. hits'[j] = hits[j]
      BY <1>1, <1>2, <2>1, <3>1
    <3> QED BY <1>1, <1>2, <2>1, <3>1, <3>2, JustifiedGrows DEF NeedInv, HitsJustified
  <2>2. CASE j \notin DOMAIN hits
    <3> HIDE DEF e, s
    <3>1. hits \in Seq(HitKinds)
      BY DEF RateInv, TableTyped
    <3>2. j = Len(hits) + 1 /\ hits'[j] = e
      BY <1>1, <1>2, <2>2, <3>1
    <3> QED BY <1>3, <1>5, <3>2 DEF s
  <2> QED BY <2>1, <2>2
<1> QED BY <1>7, <1>8, <1>9 DEF NeedInv

LEMMA NextNeed == IInv /\ RateInv /\ NeedInv /\ [Next]_vars => NeedInv'
<1> SUFFICES ASSUME IInv, RateInv, NeedInv, [Next]_vars PROVE NeedInv'
  OBVIOUS
<1>1. CASE Quiet
  BY <1>1, QuietNeed
<1>2. CASE ~Quiet
  BY <1>2, LoudSteps, FindNeed, ClaimNeed, CountNeed, ConfigureNeed, ZeroNeed
<1> QED BY <1>1, <1>2

LEMMA NeedInvariant == Spec => []NeedInv
BY InitNeed, NextNeed, Invariant, RateInvariant, PTL DEF Spec

\* Whatever threads count in whatever slots while the rules are replaced and the slots zeroed
\* word by word: a rule fires only for a process that has matched it, or another of its id,
\* as often as that demands within one window, under the same rules or in a race with their
\* replacement.
THEOREM BurstsAreNeeded == Spec => []BurstNeeded
<1>1. NeedInv => BurstNeeded
  <2>1. \A k, s : Window(k, s) = At(hits, k, s)
    BY DEF Window, At
  <2>2. \A set : Enough(set) <=> EnoughOf(hits, set)
    BY DEF Enough, EnoughOf
  <2> QED BY <2>1, <2>2 DEF NeedInv, HitsJustified, Justified, BurstNeeded, OwnOf
<1> QED BY <1>1, NeedInvariant, PTL

----------------------------------------------------------------------------
(* What a span lets through *)

\* The hits of key k that were counted under the rules of generation g, and in no race; those
\* of them in the span of one window from an instant that did not fire; and the span in which
\* no other hits of the key fall, as BurstCaught demands.
Settled(h, k, g) == {j \in DOMAIN h : KeyOf(h[j]) = k /\ h[j].generation = g /\ ~h[j].raced}
Unfired(h, k, rule, from, g) ==
  {j \in Settled(h, k, g) : /\ h[j].rule = rule /\ ~h[j].fired
                            /\ h[j].from >= from /\ h[j].to < from + rule.window}
Pure(h, k, rule, from) ==
  \A j \in DOMAIN h : KeyOf(h[j]) = k /\ h[j].from < from + rule.window /\ h[j].to >= from =>
    ~h[j].raced /\ h[j].rule = rule

\* How many of the matches that a window may let through its slot has used up; and how many
\* the span may have let through, by where that window lies: not begun or over before the
\* span, reaching into it, beginning with it, or begun in it.  A match may have gone to a slot
\* whose key was zeroed under it; the claim of the next slot may say a time long past.
Spent(c, f, limit) == IF f \/ c >= limit THEN limit - 1 ELSE c
Bounded(u, a, c, f, from, window, limit, held) ==
  /\ a = 0 \/ a + window <= from => u <= 1
  /\ a # 0 /\ a < from /\ from < a + window =>
       u <= Spent(c, f, limit) \/ (u <= 1 /\ c = 0 /\ held)
  /\ a = from => u <= Spent(c, f, limit) + 1
  /\ a > from => u <= limit - 1 + Spent(c, f, limit)

LEMMA BoundedNone ==
  ASSUME NEW a \in Nat, NEW c \in Nat, NEW f \in BOOLEAN, NEW from \in Nat \ {0},
         NEW window \in Nat \ {0}, NEW limit \in Nat, limit >= 2, NEW held \in BOOLEAN
  PROVE  Bounded(0, a, c, f, from, window, limit, held)
<1>1. Spent(c, f, limit) \in 0..(limit - 1)
  BY DEF Spent
<1> QED BY <1>1 DEF Bounded

LEMMA BoundedLimit ==
  ASSUME NEW u \in Nat, NEW a \in Nat, NEW c \in Nat, NEW f \in BOOLEAN, NEW from \in Nat \ {0},
         NEW window \in Nat \ {0}, NEW limit \in Nat, limit >= 2, NEW held \in BOOLEAN,
         Bounded(u, a, c, f, from, window, limit, held)
  PROVE  u <= 2 * (limit - 1)
<1>1. u <= 1 \/ u <= Spent(c, f, limit) \/ u <= Spent(c, f, limit) + 1
      \/ u <= limit - 1 + Spent(c, f, limit)
  BY DEF Bounded
<1>2. Spent(c, f, limit) \in 0..(limit - 1)
  BY DEF Spent
<1> QED BY <1>1, <1>2

\* A slot that has just been claimed.
LEMMA BoundedClaim ==
  ASSUME NEW u \in Nat, u <= 1, NEW a \in Nat, NEW from \in Nat \ {0},
         NEW window \in Nat \ {0}, NEW limit \in Nat, limit >= 2
  PROVE  Bounded(u, a, 0, FALSE, from, window, limit, TRUE)
<1> DEFINE v == Spent(0, FALSE, limit)
<1>1. v = 0
  BY DEF Spent
<1> HIDE DEF v
<1>2. u <= v + 1 /\ u <= limit - 1 + v
  BY <1>1
<1> QED BY <1>2, Zenon DEF Bounded, v

\* One more match in the slot, by a thread that has read the clock at x.
MoreOk(u, a, c, f, from, window, limit, x) ==
  LET over == a = 0 \/ x >= a + window
      fires == ~over /\ (f \/ c + 1 >= limit)
      b == IF over THEN x ELSE a
      d == IF over THEN 1 ELSE IF f THEN c ELSE c + 1
      v == IF ~fires /\ x >= from THEN u + 1 ELSE u IN
  Bounded(v, b, d, fires, from, window, limit, FALSE)

MayCount(u, a, c, f, from, window, limit, x) ==
  /\ u \in Nat /\ a \in Nat /\ c \in Nat /\ f \in BOOLEAN /\ x \in Nat \ {0}
  /\ from \in Nat \ {0} /\ window \in Nat \ {0} /\ limit \in Nat /\ limit >= 2
  /\ x < from + window
  /\ \/ Bounded(u, a, c, f, from, window, limit, FALSE)
     \/ Bounded(u, a, c, f, from, window, limit, TRUE) /\ x = a

LEMMA OneMoreBounded ==
  ASSUME NEW u, NEW a, NEW c, NEW f, NEW from, NEW window, NEW limit, NEW x,
         MayCount(u, a, c, f, from, window, limit, x)
  PROVE  MoreOk(u, a, c, f, from, window, limit, x)
<1> DEFINE over == a = 0 \/ x >= a + window
           fires == ~over /\ (f \/ c + 1 >= limit)
           b == IF over THEN x ELSE a
           d == IF over THEN 1 ELSE IF f THEN c ELSE c + 1
           v == IF ~fires /\ x >= from THEN u + 1 ELSE u
<1> SUFFICES Bounded(v, b, d, fires, from, window, limit, FALSE)
  BY DEF MoreOk
<1>0. /\ u \in Nat /\ a \in Nat /\ c \in Nat /\ f \in BOOLEAN /\ x \in Nat \ {0}
      /\ from \in Nat \ {0} /\ window \in Nat \ {0} /\ limit \in Nat /\ limit >= 2
      /\ x < from + window
      /\ \/ Bounded(u, a, c, f, from, window, limit, FALSE)
         \/ Bounded(u, a, c, f, from, window, limit, TRUE) /\ x = a
  BY DEF MayCount
<1>1. CASE over
  <2>1. b = x /\ ~fires /\ Spent(d, fires, limit) = 1 /\ v <= u + 1 /\ v \in Nat
    BY <1>0, <1>1 DEF Spent
  <2>2. x < from => v = u
    BY <1>0, <1>1
  <2>3. Spent(c, f, limit) \in 0..(limit - 1)
    BY <1>0 DEF Spent
  <2>4. x < from => u <= 1
    BY <1>0, <1>1 DEF Bounded
  <2>5. x >= from => u <= limit - 1
    BY <1>0, <1>1, <2>3 DEF Bounded
  <2>6. x = from => u <= 1
    BY <1>0, <1>1 DEF Bounded
  <2> HIDE DEF b, d, v, fires, over
  <2>7. /\ x < from => v <= 1
        /\ x = from => v <= 2
        /\ x > from => v <= limit
    BY <1>0, <2>1, <2>2, <2>4, <2>5, <2>6
  <2>8. Bounded(v, b, d, fires, from, window, limit, FALSE)
    BY <1>0, <2>1, <2>7 DEF Bounded
  <2> QED BY <1>0, <2>8 DEF b, d, v, fires, over
<1>2. CASE ~over /\ fires
  BY <1>0, <1>2 DEF Bounded, Spent
<1>3. CASE ~over /\ ~fires
  <2>1. b = a /\ d = c + 1 /\ Spent(c, f, limit) = c /\ Spent(d, fires, limit) = c + 1
    BY <1>0, <1>3 DEF Spent
  <2> QED BY <1>0, <1>3, <2>1 DEF Bounded
<1> QED BY <1>1, <1>2, <1>3

Joins(e, k, rule, from, g) ==
  /\ KeyOf(e) = k /\ e.generation = g /\ ~e.raced /\ e.rule = rule /\ ~e.fired
  /\ e.from >= from /\ e.to < from + rule.window

LEMMA UnfiredFinite ==
  ASSUME NEW h \in Seq(HitKinds), NEW k, NEW rule, NEW from, NEW g
  PROVE  LET set == Unfired(h, k, rule, from, g) IN
         /\ set \subseteq DOMAIN h /\ IsFiniteSet(set) /\ Cardinality(set) \in Nat
         /\ Settled(h, k, g) = {} => Cardinality(set) = 0
         /\ (\A i, j \in Settled(h, k, g) : i = j) => Cardinality(set) <= 1
<1> DEFINE set == Unfired(h, k, rule, from, g)
<1>1. DOMAIN h = 1..Len(h) /\ Len(h) \in Nat
  OBVIOUS
<1>2. IsFiniteSet(DOMAIN h)
  BY <1>1, FS_Interval
<1>3. set \subseteq DOMAIN h /\ set \subseteq Settled(h, k, g)
  BY DEF Unfired, Settled
<1> HIDE DEF set
<1>4. IsFiniteSet(set) /\ Cardinality(set) \in Nat
  BY <1>2, <1>3, FS_Subset, FS_CardinalityType
<1>5. Settled(h, k, g) = {} => Cardinality(set) = 0
  BY <1>3, FS_EmptySet
<1>6. ASSUME \A i, j \in Settled(h, k, g) : i = j PROVE Cardinality(set) <= 1
  <2>1. CASE set = {}
    BY <2>1, FS_EmptySet
  <2>2. CASE set # {}
    <3>1. PICK i : set = {i}
      BY <1>3, <1>6, <2>2
    <3>2. Cardinality({i}) = 1
      BY FS_Singleton
    <3> QED BY <3>1, <3>2
  <2> QED BY <2>1, <2>2
<1> QED BY <1>3, <1>4, <1>5, <1>6 DEF set

\* One more hit is one more in each span it joins.
LEMMA SpansGrow ==
  ASSUME NEW h \in Seq(HitKinds), NEW e \in HitKinds, NEW k, NEW rule, NEW from, NEW g
  PROVE  LET i == Append(h, e)
             settles == KeyOf(e) = k /\ e.generation = g /\ ~e.raced IN
         /\ Settled(i, k, g) = Settled(h, k, g) \cup (IF settles THEN {Len(h) + 1} ELSE {})
         /\ Cardinality(Unfired(i, k, rule, from, g))
              = Cardinality(Unfired(h, k, rule, from, g))
                  + (IF Joins(e, k, rule, from, g) THEN 1 ELSE 0)
         /\ Pure(i, k, rule, from) =>
              /\ Pure(h, k, rule, from)
              /\ KeyOf(e) = k /\ e.from < from + rule.window /\ e.to >= from =>
                   ~e.raced /\ e.rule = rule
<1> DEFINE i == Append(h, e)  n == Len(h) + 1
           settles == KeyOf(e) = k /\ e.generation = g /\ ~e.raced
<1>1. /\ i \in Seq(HitKinds) /\ n \in DOMAIN i /\ n \notin DOMAIN h /\ i[n] = e
      /\ \A j \in DOMAIN h : j \in DOMAIN i /\ i[j] = h[j]
      /\ \A j \in DOMAIN i : j \in DOMAIN h \/ j = n
  <2>1. /\ i \in Seq(HitKinds) /\ DOMAIN i = 1..n /\ n \in Nat /\ DOMAIN h = 1..(n - 1)
        /\ i[n] = e /\ \A j \in DOMAIN h : i[j] = h[j]
    OBVIOUS
  <2> HIDE DEF i
  <2>2. n >= 1
    OBVIOUS
  <2> HIDE DEF n
  <2> QED BY <2>1, <2>2
<1> HIDE DEF i, n
<1>2. \A j : j \in Settled(i, k, g) <=> j \in Settled(h, k, g) \/ (settles /\ j = n)
  BY <1>1 DEF Settled
<1>3. Settled(i, k, g) = Settled(h, k, g) \cup (IF settles THEN {n} ELSE {})
  BY <1>2
<1> DEFINE old == Unfired(h, k, rule, from, g)  new == Unfired(i, k, rule, from, g)
           joins == Joins(e, k, rule, from, g)
<1>4. \A j : j \in new <=> j \in old \/ (joins /\ j = n)
  <2>1. Settled(h, k, g) \subseteq DOMAIN h
    BY DEF Settled
  <2> QED BY <1>1, <1>2, <2>1 DEF Unfired, Joins
<1>5. IsFiniteSet(old) /\ Cardinality(old) \in Nat /\ n \notin old
  BY <1>1, UnfiredFinite
<1>6. Cardinality(new) = Cardinality(old) + (IF joins THEN 1 ELSE 0)
  <2> HIDE DEF old, new, joins
  <2>1. CASE joins
    <3>1. new = old \cup {n}
      BY <1>4, <2>1
    <3> QED BY <1>5, <2>1, <3>1, AddsOne
  <2>2. CASE ~joins
    <3>1. new = old
      BY <1>4, <2>2
    <3> QED BY <1>5, <2>2, <3>1
  <2> QED BY <2>1, <2>2
<1>7. Pure(i, k, rule, from) =>
        /\ Pure(h, k, rule, from)
        /\ KeyOf(e) = k /\ e.from < from + rule.window /\ e.to >= from =>
             ~e.raced /\ e.rule = rule
  BY <1>1 DEF Pure
<1> QED BY <1>3, <1>6, <1>7 DEF i, n

----------------------------------------------------------------------------
(* A burst is caught *)

\* What a thread is to count it has matched under rules in force by then, for a rate.
MatchedOk(t) ==
  /\ match[t].generation <= generation
  /\ at[t] \in {"reading clock", "locking", "counting"} => Slow(Rule(t))
HitOk(h) ==
  /\ h.generation <= generation /\ h.from <= h.to /\ h.to <= now
  /\ Slow(h.rule) /\ KeyOf(h) \in Keys
HitsInv ==
  /\ \A t \in Threads : MatchedOk(t)
  /\ \A j \in DOMAIN hits : HitOk(hits[j])

LEMMA InitHits == Init => HitsInv
<1> SUFFICES ASSUME Init PROVE HitsInv
  OBVIOUS
<1>1. PICK i \in Initial : BehaviorInit(i.rules, i.exclusions)
  BY DEF Init
<1>2. /\ \A t \in Threads : match[t] = NoMatch /\ at[t] = "idle"
      /\ hits = <<>> /\ generation = 0
  BY <1>1 DEF BehaviorInit
<1>3. DOMAIN hits = {}
  BY <1>2
<1>4. ASSUME NEW t \in Threads PROVE MatchedOk(t)
  <2>1. match[t].generation = 0
    BY <1>2 DEF NoMatch
  <2>2. match[t].generation <= generation
    BY <1>2, <2>1
  <2>3. at[t] \notin {"reading clock", "locking", "counting"}
    BY <1>2
  <2> QED BY <2>2, <2>3 DEF MatchedOk
<1> QED BY <1>3, <1>4 DEF HitsInv

\* The clock and the generation go on, and the hits stay.
LEMMA OnlyOnward ==
  ASSUME IInv, RateInv, [Next]_vars
  PROVE  /\ now \in Nat /\ now' \in Nat /\ now <= now'
         /\ generation \in Nat /\ generation' \in Nat /\ generation <= generation'
         /\ (\A t \in Threads : ~Count(t)) => hits' = hits
<1>1. /\ now \in Nat /\ now' \in Nat /\ generation \in Nat /\ generation' \in Nat
  <2>1. RateInv'
    BY NextRate
  <2>2. configs \in Nat /\ configs' \in Nat
    BY <2>1, LimitsAssumption DEF RateInv, TableTyped, LimitsAssumption
  <2> QED BY <2>1, <2>2, TimesAre DEF RateInv, TableTyped
<1>2. \/ UNCHANGED <<now, generation, hits>>
      \/ now' = now + 1 /\ UNCHANGED <<generation, hits>>
      \/ generation' = generation + 1 /\ UNCHANGED <<now, hits>>
      \/ UNCHANGED <<now, generation>> /\ \E t \in Threads : Count(t)
  <2>1. CASE UNCHANGED vars
    BY <2>1 DEF vars, behaviorVars, rateVars, ruleVars
  <2>2. CASE Request
    <3> USE DEF rateVars
    <3>1. ASSUME NEW set \in RuleSets, ConfigureRules(set)
          PROVE  generation' = generation + 1 /\ UNCHANGED <<now, hits>>
      BY <3>1 DEF ConfigureRules
    <3>2. ASSUME NEW list \in Exclusions, ConfigureExclusions(list)
          PROVE  UNCHANGED <<now, generation, hits>>
      BY <3>2 DEF ConfigureExclusions
    <3>3. ASSUME NEW config \in RegistryConfigs, ConfigureRegistry(config)
          PROVE  UNCHANGED <<now, generation, hits>>
      BY <3>3 DEF ConfigureRegistry
    <3>4. ASSUME Tick PROVE now' = now + 1 /\ UNCHANGED <<generation, hits>>
      BY <3>4 DEF Tick, ruleVars
    <3>5. ASSUME NEW s \in Slots, NEW g \in Granules, Zero(s, g)
          PROVE  UNCHANGED <<now, generation, hits>>
      BY <3>5 DEF Zero
    <3> QED BY <2>2, <3>1, <3>2, <3>3, <3>4, <3>5 DEF Request
  <2>3. ASSUME NEW t \in Threads, ThreadStep(t)
        PROVE  UNCHANGED <<now, generation, hits>> \/ (UNCHANGED <<now, generation>> /\ Count(t))
    <3>1. \/ AsideStep(t) \/ ReadClock(t) \/ FindSlot(t) \/ ClaimSlot(t) \/ Count(t)
      BY <2>3 DEF ThreadStep, AsideStep, RuleStep
    <3>2. AsideStep(t) => UNCHANGED <<now, generation, hits>>
      BY AsideSteps DEF Sidestep, TableSame, rateVars
    <3>3. ReadClock(t) \/ FindSlot(t) \/ ClaimSlot(t) => UNCHANGED <<now, generation, hits>>
      BY DEF ReadClock, FindSlot, ClaimSlot, rateVars, ruleVars
    <3>4. Count(t) => UNCHANGED <<now, generation>>
      BY DEF Count
    <3> QED BY <3>1, <3>2, <3>3, <3>4
  <2> QED BY <2>1, <2>2, <2>3 DEF Next
<1> QED BY <1>1, <1>2

LEMMA MatchedKept ==
  ASSUME IInv, RateInv, HitsInv, [Next]_vars, NEW u \in Threads
  PROVE  MatchedOk(u)'
<1>0. /\ generation \in Nat /\ generation' \in Nat /\ generation <= generation'
      /\ MatchedOk(u) /\ match[u].generation \in Nat
  <2>1. match[u] \in MatchKinds /\ 0 \in 0..MaxConfigs
    BY LimitsAssumption DEF LimitsAssumption, RateInv, ThreadsTyped
  <2> QED BY <2>1, OnlyOnward DEF HitsInv, MatchKinds, NoMatch
<1>1. ASSUME match'[u] = match[u],
             at'[u] \in {"reading clock", "locking", "counting"} =>
               at[u] \in {"reading clock", "locking", "counting"}
      PROVE  MatchedOk(u)'
  <2>1. match[u].generation <= generation
    BY <1>0 DEF MatchedOk
  <2>2. match[u].generation <= generation'
    BY <1>0, <2>1
  <2> QED BY <1>0, <1>1, <2>2 DEF MatchedOk, Rule
<1>2. CASE UNCHANGED vars
  BY <1>1, <1>2 DEF vars, behaviorVars, threadVars
<1>3. CASE Request
  <2>1. UNCHANGED <<match, at>>
    BY <1>3 DEF Request, ConfigureRules, ConfigureExclusions, ConfigureRegistry, Tick, Zero,
                threadVars
  <2> QED BY <1>1, <2>1
<1>4. ASSUME NEW t \in Threads, ThreadStep(t) PROVE MatchedOk(u)'
  <2>1. \/ AsideStep(t) \/ ReadClock(t) \/ FindSlot(t) \/ ClaimSlot(t) \/ Count(t)
    BY <1>4 DEF ThreadStep, AsideStep, RuleStep
  <2>2. at \in [Threads -> Places] /\ match \in [Threads -> MatchKinds]
    BY DEF IInv, Typed, RateInv, ThreadsTyped
  <2>3. CASE AsideStep(t)
    <3>1. PICK place : Sidestep(t, place)
      BY <2>3, AsideSteps
    <3>2. at' = [at EXCEPT ![t] = place] /\ place \notin {"locking", "counting"}
          /\ MatchKept(t, place) /\ OthersKept(t) /\ generation' = generation
      BY <3>1 DEF Sidestep, Go, TableSame
    <3>3. CASE u # t
      BY <1>1, <2>2, <3>2, <3>3 DEF OthersKept
    <3>4. CASE u = t
      BY <1>0, <2>2, <3>2, <3>4 DEF MatchKept, Slow, MatchedOk, Rule
    <3> QED BY <3>3, <3>4
  <2>4. CASE ReadClock(t) \/ FindSlot(t) \/ ClaimSlot(t)
    <3>1. /\ match' = match /\ at[t] \in {"reading clock", "locking"}
          /\ \E place : at' = [at EXCEPT ![t] = place]
      BY <2>4 DEF ReadClock, FindSlot, ClaimSlot, Go
    <3> QED BY <1>1, <2>2, <3>1
  <2>5. CASE Count(t)
    <3>1. PICK place \in {"idle", "ruled", "unruled"} :
            /\ at' = [at EXCEPT ![t] = place]
            /\ match' = match \/ match' = [match EXCEPT ![t] = NoMatch]
      BY <2>5 DEF Count, Say, Finish, Go
    <3>2. CASE u = t /\ match'[t] = NoMatch
      <4>1. match'[t].generation = 0 /\ at'[t] = place
        BY <2>2, <3>1, <3>2 DEF NoMatch
      <4>2. match'[t].generation <= generation'
        BY <1>0, <4>1
      <4>3. at'[t] \notin {"reading clock", "locking", "counting"}
        BY <3>1, <4>1
      <4> QED BY <3>2, <4>2, <4>3 DEF MatchedOk
    <3>3. CASE u # t \/ match' = match
      BY <1>1, <2>2, <3>1, <3>3
    <3> QED BY <2>2, <3>1, <3>2, <3>3
  <2> QED BY <2>1, <2>3, <2>4, <2>5
<1> QED BY <1>2, <1>3, <1>4 DEF Next

LEMMA HitsStep == IInv /\ RateInv /\ HitsInv /\ [Next]_vars => HitsInv'
<1> SUFFICES ASSUME IInv, RateInv, HitsInv, [Next]_vars PROVE HitsInv'
  OBVIOUS
<1>0. /\ now \in Nat /\ now' \in Nat /\ now <= now'
      /\ generation \in Nat /\ generation' \in Nat /\ generation <= generation'
  BY OnlyOnward
<1>1. ASSUME NEW e \in HitKinds, HitOk(e) PROVE HitOk(e)'
  <2>1. e.generation \in 0..MaxConfigs /\ e.from \in Times /\ e.to \in Times
    BY DEF HitKinds
  <2>2. e.generation \in Nat /\ e.from \in Nat /\ e.to \in Nat
    <3>1. MaxConfigs \in Nat /\ Times \subseteq Nat
      BY TimesAre, LimitsAssumption DEF LimitsAssumption
    <3>2. e.generation \in Nat
      BY <2>1, <3>1
    <3>3. e.from \in Nat
      BY <2>1, <3>1
    <3>4. e.to \in Nat
      BY <2>1, <3>1
    <3> QED BY <3>2, <3>3, <3>4
  <2>3. e.generation <= generation
    BY <1>1 DEF HitOk
  <2>4. e.to <= now
    BY <1>1 DEF HitOk
  <2>5. e.generation <= generation'
    BY <1>0, <2>2, <2>3
  <2>6. e.to <= now'
    BY <1>0, <2>2, <2>4
  <2> QED BY <1>1, <2>5, <2>6 DEF HitOk
<1>2. \A j \in DOMAIN hits : hits[j] \in HitKinds
  BY DEF RateInv, TableTyped
<1>3. CASE \A t \in Threads : ~Count(t)
  <2>1. hits' = hits
    BY <1>3, OnlyOnward
  <2> QED BY <1>1, <1>2, <2>1, MatchedKept DEF HitsInv
<1>4. ASSUME NEW t \in Threads, Count(t) PROVE HitsInv'
  <2> DEFINE e == Hit(t, slot[t])
  <2>1. /\ at[t] = "counting" /\ hits' = Append(hits, e) /\ e \in HitKinds
        /\ stamp[t] <= now /\ MatchedOk(t)
    BY <1>4, InHand DEF Count, HitsInv
  <2>2. HitOk(e)
    <3>1. /\ e.generation = match[t].generation /\ e.from = stamp[t] /\ e.to = now
          /\ e.rule = Rule(t) /\ now <= now
      BY <1>0 DEF Hit
    <3>2. match[t].generation <= generation /\ Slow(Rule(t))
      BY <2>1 DEF Slow, MatchedOk
    <3>3. KeyOf(e) \in Keys
      BY <2>1, CountedHasKey DEF Hit, KeyOf, Key
    <3> QED BY <2>1, <3>1, <3>2, <3>3 DEF Slow, HitOk
  <2> HIDE DEF e
  <2>3. \A j \in DOMAIN hits' : (j \in DOMAIN hits /\ hits'[j] = hits[j]) \/ hits'[j] = e
    BY <2>1 DEF RateInv, TableTyped
  <2> QED BY <1>1, <1>2, <2>1, <2>2, <2>3, MatchedKept DEF HitsInv
<1> QED BY <1>3, <1>4

\* While words are still to be zeroed every hit is raced; a thread whose slot has lost its key
\* is the first to count since; and as long as a key has no slot at most that one hit of it
\* has settled.
SlowRules == {r \in Rules : Slow(r)}
Wiped == wiping # {} => \A k \in Keys : Settled(hits, k, generation) = {}
Kept ==
  \A k \in Keys : Found(k) = {} => \A i, j \in Settled(hits, k, generation) : i = j
LostOk(t) ==
  at[t] = "counting" /\ key[slot[t]] # Key(t) =>
    Found(Key(t)) = {} /\ Settled(hits, Key(t), generation) = {}
Holding(s) == \E t \in Threads : at[t] = "counting" /\ slot[t] = s /\ stamp[t] = start[s]
Passed(k, rule, from, g) == Cardinality(Unfired(hits, k, rule, from, g))
SlotBounded(s, u, rule, from) ==
  Bounded(u, start[s], count[s], flagged[s], from, rule.window, rule.threshold, Holding(s))
SpanOk(k, rule, from) ==
  Pure(hits, k, rule, from) =>
    /\ \A g \in 0..MaxConfigs : Passed(k, rule, from, g) <= 2 * (rule.threshold - 1)
    /\ from <= now /\ now < from + rule.window =>
         \A s \in Found(k) : SlotBounded(s, Passed(k, rule, from, generation), rule, from)
CatchInv ==
  /\ Wiped /\ Kept /\ \A t \in Threads : LostOk(t)
  /\ \A k \in Keys, rule \in SlowRules, from \in Times : SpanOk(k, rule, from)

LEMMA SpanTypes ==
  ASSUME RateInv, NEW rule \in SlowRules, NEW from \in Times
  PROVE  /\ rule.window \in Nat \ {0} /\ rule.threshold \in Nat /\ rule.threshold >= 2
         /\ from \in Nat \ {0} /\ now \in Nat /\ generation \in 0..MaxConfigs
         /\ \A k, g : Passed(k, rule, from, g) \in Nat
         /\ \A s \in Slots : /\ start[s] \in Nat /\ count[s] \in Nat /\ flagged[s] \in BOOLEAN
                             /\ Holding(s) \in BOOLEAN
<1>1. rule \in Rules /\ Slow(rule)
  BY DEF SlowRules
<1>2. rule.window \in Nat \ {0} /\ rule.threshold \in Nat
  BY <1>1, RulesAre
<1>3. rule.threshold >= 2
  <2> DEFINE n == rule.threshold
  <2>1. n \in Nat /\ ~(n <= 1)
    BY <1>1, <1>2 DEF Slow
  <2> HIDE DEF n
  <2>2. n >= 2
    BY <2>1
  <2> QED BY <2>2 DEF n
<1>4. now \in Nat /\ from \in Nat \ {0}
  BY TimesAre DEF RateInv, TableTyped
<1>5. generation \in 0..MaxConfigs
  BY LimitsAssumption DEF LimitsAssumption, RateInv, TableTyped
<1>6. \A k, g : Passed(k, rule, from, g) \in Nat
  BY UnfiredFinite DEF RateInv, TableTyped, Passed
<1>7. ASSUME NEW s \in Slots
      PROVE  /\ start[s] \in Nat /\ count[s] \in Nat /\ flagged[s] \in BOOLEAN
             /\ Holding(s) \in BOOLEAN
  BY DEF RateInv, TableTyped, Holding
<1> QED BY <1>2, <1>3, <1>4, <1>5, <1>6, <1>7

\* Nothing of a span has been let through before it begins, nor if nothing has settled.
LEMMA NothingPassed ==
  ASSUME RateInv, HitsInv, NEW k, NEW rule \in SlowRules, NEW from \in Times, NEW g,
         now < from \/ Settled(hits, k, g) = {}
  PROVE  Passed(k, rule, from, g) = 0
<1>1. CASE Settled(hits, k, g) = {}
  BY <1>1, UnfiredFinite DEF RateInv, TableTyped, Passed
<1>2. CASE now < from
  <2>1. ASSUME NEW j \in Unfired(hits, k, rule, from, g) PROVE FALSE
    <3>1. j \in DOMAIN hits /\ hits[j].from >= from
      BY DEF Unfired, Settled
    <3>2. hits[j].from <= hits[j].to /\ hits[j].to <= now
      BY <3>1 DEF HitsInv, HitOk
    <3>3. hits[j].from \in Nat
      BY <3>1, HitRules DEF RateInv, TableTyped
    <3>4. hits[j].to \in Nat
      BY <3>1, HitRules DEF RateInv, TableTyped
    <3> DEFINE x == hits[j].from  y == hits[j].to
    <3>5. x \in Nat /\ y \in Nat /\ x >= from /\ x <= y /\ y <= now
      BY <3>1, <3>2, <3>3, <3>4
    <3>6. now \in Nat /\ from \in Nat
      BY TimesAre DEF RateInv, TableTyped
    <3> HIDE DEF x, y
    <3> QED BY <1>2, <3>5, <3>6
  <2>2. Unfired(hits, k, rule, from, g) = {}
    BY <2>1
  <2> QED BY <2>2, FS_EmptySet DEF Passed
<1> QED BY <1>1, <1>2

LEMMA SlotBoundedUses ==
  ASSUME RateInv, NEW rule \in SlowRules, NEW from \in Times, NEW s \in Slots, NEW u \in Nat
  PROVE  /\ SlotBounded(s, 0, rule, from)
         /\ SlotBounded(s, u, rule, from) => u <= 2 * (rule.threshold - 1)
         /\ \A v \in BOOLEAN : SlotBounded(s, u, rule, from) /\ (Holding(s) => v) =>
              Bounded(u, start[s], count[s], flagged[s], from, rule.window, rule.threshold, v)
         /\ \A v \in BOOLEAN :
              Bounded(0, start[s], count[s], flagged[s], from, rule.window, rule.threshold, v)
<1> DEFINE a == start[s]  c == count[s]  f == flagged[s]  held == Holding(s)
           window == rule.window  limit == rule.threshold
<1>1. /\ a \in Nat /\ c \in Nat /\ f \in BOOLEAN /\ held \in BOOLEAN
      /\ from \in Nat \ {0}
  BY SpanTypes
<1>2. window \in Nat \ {0}
  BY SpanTypes
<1>3. limit \in Nat /\ limit >= 2
  BY SpanTypes
<1> HIDE DEF a, c, f, held, window, limit
<1>4. \A v \in BOOLEAN : Bounded(0, a, c, f, from, window, limit, v)
  BY <1>1, <1>2, <1>3, BoundedNone
<1>5. Bounded(u, a, c, f, from, window, limit, held) => u <= 2 * (limit - 1)
  BY <1>1, <1>2, <1>3, BoundedLimit
<1>6. ASSUME NEW v \in BOOLEAN, Bounded(u, a, c, f, from, window, limit, held), held => v
      PROVE  Bounded(u, a, c, f, from, window, limit, v)
  BY <1>6, Zenon DEF Bounded
<1> QED BY <1>1, <1>4, <1>5, <1>6 DEF a, c, f, held, window, limit, SlotBounded

\* A span whose hits and slots are as before is as before when the clock goes on.
LEMMA SpanGoesOn ==
  ASSUME RateInv, RateInv', HitsInv, NEW k, NEW rule \in SlowRules, NEW from \in Times,
         SpanOk(k, rule, from), UNCHANGED <<hits, generation>>, now <= now',
         \A s \in Found(k)' :
            s \in Found(k) /\ UNCHANGED <<start[s], count[s], flagged[s]>>
            /\ (Holding(s) => Holding(s)')
  PROVE  SpanOk(k, rule, from)'
<1>1. \A g : Passed(k, rule, from, g)' = Passed(k, rule, from, g)
  BY DEF Passed
<1>2. Pure(hits, k, rule, from)' <=> Pure(hits, k, rule, from)
  BY DEF Pure
<1>3. ASSUME from <= now', now' < from + rule.window, NEW s \in Found(k)',
             Pure(hits, k, rule, from)
      PROVE  Bounded(Passed(k, rule, from, generation), start'[s], count'[s], flagged'[s], from,
                     rule.window, rule.threshold, Holding(s)')
  <2>1. /\ s \in Slots /\ s \in Found(k) /\ UNCHANGED <<start[s], count[s], flagged[s]>>
        /\ (Holding(s) => Holding(s)') /\ Holding(s) \in BOOLEAN /\ Holding(s)' \in BOOLEAN
    BY <1>3 DEF Found, Holding
  <2>2. now \in Nat /\ now' \in Nat /\ from \in Nat \ {0} /\ rule.window \in Nat
    BY SpanTypes, TimesAre DEF RateInv, TableTyped
  <2>3. CASE now < from
    <3>1. Passed(k, rule, from, generation) = 0
      BY <2>3, NothingPassed
    <3> QED BY <2>1, <3>1, SlotBoundedUses
  <2>4. CASE from <= now
    <3>1. now < from + rule.window
      BY <1>3, <2>2
    <3>2. SlotBounded(s, Passed(k, rule, from, generation), rule, from)
      BY <1>3, <2>1, <2>4, <3>1 DEF SpanOk
    <3>3. Passed(k, rule, from, generation) \in Nat
      BY SpanTypes
    <3> QED BY <2>1, <3>2, <3>3, SlotBoundedUses
  <2> QED BY <2>2, <2>3, <2>4
<1> QED BY <1>1, <1>2, <1>3 DEF SpanOk, SlotBounded

LEMMA InitCatch == Init => CatchInv
<1> SUFFICES ASSUME Init PROVE CatchInv
  OBVIOUS
<1>1. RateInv /\ HitsInv
  BY InitRate, InitHits
<1>2. /\ \A s \in Slots : key[s] = NoKey
      /\ \A t \in Threads : at[t] = "idle"
      /\ hits = <<>>
  BY DEF Init, BehaviorInit
<1>3. \A k, g : Settled(hits, k, g) = {}
  BY <1>2 DEF Settled
<1>4. \A k \in Keys : Found(k) = {}
  BY <1>2, KeysAssumption DEF Found
<1>5. Wiped /\ Kept /\ \A t \in Threads : LostOk(t)
  BY <1>2, <1>3 DEF Wiped, Kept, LostOk
<1>6. ASSUME NEW k \in Keys, NEW rule \in SlowRules, NEW from \in Times
      PROVE  SpanOk(k, rule, from)
  <2>1. \A g : Passed(k, rule, from, g) = 0
    BY <1>1, <1>3, NothingPassed
  <2>2. 0 <= 2 * (rule.threshold - 1)
    BY <1>1, SpanTypes
  <2> QED BY <1>4, <2>1, <2>2 DEF SpanOk
<1> QED BY <1>5, <1>6 DEF CatchInv

LEMMA QuietCatch ==
  ASSUME IInv, RateInv, RateInv', HitsInv, CatchInv, now <= now', Quiet
  PROVE  CatchInv'
<1>1. UNCHANGED <<key, count, start, flagged, hits, generation, wiping>>
  BY DEF Quiet
<1>2. \A u \in Threads : "counting" \in {at[u], at'[u]} => HandKept(u)
  BY DEF Quiet
<1>3. \A k : Found(k)' = Found(k)
  BY <1>1 DEF Found
<1>4. Wiped' /\ Kept'
  BY <1>1, <1>3 DEF CatchInv, Wiped, Kept
<1>5. ASSUME NEW t \in Threads PROVE LostOk(t)'
  <2> SUFFICES ASSUME at'[t] = "counting", key'[slot'[t]] # Key(t)'
               PROVE  Found(Key(t))' = {} /\ Settled(hits, Key(t), generation)' = {}
    BY DEF LostOk
  <2>1. at[t] = "counting" /\ slot'[t] = slot[t] /\ Key(t)' = Key(t)
    BY <1>2 DEF HandKept
  <2>2. Found(Key(t)) = {} /\ Settled(hits, Key(t), generation) = {}
    BY <1>1, <2>1 DEF CatchInv, LostOk
  <2>3. Found(Key(t))' = {}
    BY <1>1, <2>1, <2>2 DEF Found
  <2>4. Settled(hits, Key(t), generation)' = {}
    BY <1>1, <2>1, <2>2 DEF Settled
  <2> QED BY <2>3, <2>4
<1>6. ASSUME NEW s, Holding(s), start'[s] = start[s] PROVE Holding(s)'
  <2>1. PICK t \in Threads : at[t] = "counting" /\ slot[t] = s /\ stamp[t] = start[s]
    BY <1>6 DEF Holding
  <2>2. at'[t] = "counting" /\ slot'[t] = s /\ stamp'[t] = start'[s]
    BY <1>2, <1>6, <2>1 DEF HandKept
  <2> QED BY <2>2 DEF Holding
<1>7. ASSUME NEW k \in Keys, NEW rule \in SlowRules, NEW from \in Times
      PROVE  SpanOk(k, rule, from)'
  <2>1. SpanOk(k, rule, from)
    BY DEF CatchInv
  <2>2. \A s \in Found(k)' :
          s \in Found(k) /\ UNCHANGED <<start[s], count[s], flagged[s]>>
          /\ (Holding(s) => Holding(s)')
    BY <1>1, <1>3, <1>6
  <2> QED BY <1>1, <2>1, <2>2, SpanGoesOn
<1> QED BY <1>4, <1>5, <1>7 DEF CatchInv

\* While nothing has settled, whatever happens to the words of a slot, no span is harmed.
LEMMA NothingSettled ==
  ASSUME RateInv', HitsInv', RateInv, NEW k \in Keys, NEW rule \in SlowRules, NEW from \in Times,
         hits' = hits, now' = now, SpanOk(k, rule, from), Settled(hits, k, generation') = {}
  PROVE  SpanOk(k, rule, from)'
<1>1. Pure(hits, k, rule, from)' => Pure(hits, k, rule, from)
  BY DEF Pure
<1>2. \A g : Passed(k, rule, from, g)' = Passed(k, rule, from, g)
  BY DEF Passed
<1>3. Passed(k, rule, from, generation') = 0
  BY UnfiredFinite DEF RateInv, TableTyped, Passed
<1>4. ASSUME NEW s \in Found(k)'
      PROVE  Bounded(0, start'[s], count'[s], flagged'[s], from, rule.window, rule.threshold,
                     Holding(s)')
  <2>1. s \in Slots
    BY <1>4 DEF Found
  <2> DEFINE a == start'[s]  c == count'[s]  f == flagged'[s]  held == Holding(s)'
             window == rule.window  limit == rule.threshold
  <2>2. a \in Nat /\ c \in Nat /\ f \in BOOLEAN /\ held \in BOOLEAN
    BY <2>1 DEF RateInv, TableTyped, Holding
  <2>3. from \in Nat \ {0} /\ window \in Nat \ {0}
    BY SpanTypes
  <2>4. limit \in Nat /\ limit >= 2
    BY SpanTypes
  <2> HIDE DEF a, c, f, held, window, limit
  <2>5. Bounded(0, a, c, f, from, window, limit, held)
    BY <2>2, <2>3, <2>4, BoundedNone
  <2> QED BY <2>5 DEF a, c, f, held, window, limit
<1> QED BY <1>1, <1>2, <1>3, <1>4 DEF SpanOk, SlotBounded

LEMMA ConfigureCatch ==
  ASSUME IInv, RateInv, RateInv', HitsInv, HitsInv', CatchInv,
         NEW set \in RuleSets, ConfigureRules(set)
  PROVE  CatchInv'
<1>1. /\ generation' = generation + 1
      /\ UNCHANGED <<key, count, start, flagged, hits, at, call, match, slot, now>>
  BY DEF ConfigureRules, rateVars
<1>2. ASSUME NEW k PROVE Settled(hits, k, generation') = {}
  <2>1. ASSUME NEW j \in DOMAIN hits, hits[j].generation = generation' PROVE FALSE
    <3>1. hits[j].generation <= generation
      BY <2>1 DEF HitsInv, HitOk
    <3>2. generation \in Nat
      BY LimitsAssumption DEF LimitsAssumption, RateInv, TableTyped
    <3> DEFINE g == hits[j].generation
    <3>3. g <= generation /\ g = generation + 1
      BY <1>1, <2>1, <3>1
    <3> HIDE DEF g
    <3> QED BY <3>2, <3>3
  <2> QED BY <2>1 DEF Settled
<1>3. \A k : Settled(hits, k, generation)' = {}
  BY <1>1, <1>2 DEF Settled
<1>4. Wiped' /\ Kept'
  BY <1>3 DEF Wiped, Kept
<1>5. ASSUME NEW t \in Threads PROVE LostOk(t)'
  <2>1. Key(t)' = Key(t)
    BY <1>1 DEF Key, Rule
  <2>2. LostOk(t)
    BY DEF CatchInv
  <2> QED BY <1>1, <1>3, <2>1, <2>2 DEF LostOk, Found
<1>6. ASSUME NEW k \in Keys, NEW rule \in SlowRules, NEW from \in Times
      PROVE  SpanOk(k, rule, from)'
  <2>1. SpanOk(k, rule, from)
    BY DEF CatchInv
  <2> QED BY <1>1, <1>2, <2>1, NothingSettled
<1> QED BY <1>4, <1>5, <1>6 DEF CatchInv

LEMMA ZeroCatch ==
  ASSUME IInv, RateInv, RateInv', HitsInv, HitsInv', CatchInv,
         NEW s \in Slots, NEW g \in Granules, Zero(s, g)
  PROVE  CatchInv'
<1>1. /\ key' \in {key, [key EXCEPT ![s] = NoKey]} /\ wiping # {}
      /\ UNCHANGED <<hits, generation, at, call, match, slot, now>>
  BY DEF Zero, threadVars
<1>2. \A k \in Keys : Settled(hits, k, generation) = {}
  BY <1>1 DEF CatchInv, Wiped
<1>3. \A k \in Keys : Settled(hits, k, generation)' = {}
  BY <1>1, <1>2 DEF Settled
<1>4. Wiped' /\ Kept'
  BY <1>3 DEF Wiped, Kept
<1>5. ASSUME NEW t \in Threads, at[t] = "counting", key'[slot[t]] # Key(t)
      PROVE  \A r \in Slots : key'[r] # Key(t)
  <2>1. Key(t) \in Keys /\ Key(t) # NoKey
    BY <1>5, CountedHasKey, KeysAssumption
  <2>2. key \in [Slots -> Keys \cup {NoKey}] /\ slot[t] \in Slots
    BY <1>5, InHand DEF RateInv, TableTyped
  <2>3. CASE key[slot[t]] # Key(t)
    <3>1. \A r \in Slots : key[r] # Key(t)
      BY <1>5, <2>3 DEF CatchInv, LostOk, Found
    <3> QED BY <1>1, <2>1, <2>2, <3>1
  <2>4. CASE key[slot[t]] = Key(t)
    <3>1. slot[t] = s /\ key' = [key EXCEPT ![s] = NoKey]
      BY <1>1, <1>5, <2>2, <2>4
    <3>2. \A r \in Slots \ {s} : key[r] # Key(t)
      BY <2>1, <2>2, <2>4, <3>1 DEF RateInv, TableTyped
    <3> QED BY <2>1, <2>2, <3>1, <3>2
  <2> QED BY <2>3, <2>4
<1>6. ASSUME NEW t \in Threads PROVE LostOk(t)'
  <2>1. Key(t)' = Key(t)
    BY <1>1 DEF Key, Rule
  <2>2. at[t] = "counting" => Key(t) \in Keys
    BY CountedHasKey
  <2> QED BY <1>1, <1>3, <1>5, <2>1, <2>2 DEF LostOk, Found
<1>7. ASSUME NEW k \in Keys, NEW rule \in SlowRules, NEW from \in Times
      PROVE  SpanOk(k, rule, from)'
  <2>1. SpanOk(k, rule, from)
    BY DEF CatchInv
  <2>2. Settled(hits, k, generation') = {}
    BY <1>1, <1>2
  <2> QED BY <1>1, <2>1, <2>2, NothingSettled
<1> QED BY <1>4, <1>6, <1>7 DEF CatchInv

LEMMA FindCatch ==
  ASSUME IInv, RateInv, RateInv', HitsInv, CatchInv, NEW t \in Threads, FindSlot(t)
  PROVE  CatchInv'
<1>1. /\ UNCHANGED <<key, count, start, flagged, hits, generation, wiping, now>>
  BY DEF FindSlot, ruleVars
<1>2. \A u \in Threads : at[u] # "counting"
  BY ThreadsAssumption DEF ThreadsAssumption, FindSlot, RateInv, ThreadsTyped
<1>3. \A k : Found(k)' = Found(k)
  BY <1>1 DEF Found
<1>4. Wiped' /\ Kept'
  BY <1>1, <1>3 DEF CatchInv, Wiped, Kept
<1>5. ASSUME NEW u \in Threads PROVE LostOk(u)'
  <2>1. at'[u] = "counting" => key'[slot'[u]] = Key(u)'
    BY TakesHand
  <2> QED BY <2>1 DEF LostOk
<1>6. ASSUME NEW k \in Keys, NEW rule \in SlowRules, NEW from \in Times
      PROVE  SpanOk(k, rule, from)'
  <2>1. SpanOk(k, rule, from)
    BY DEF CatchInv
  <2>2. \A s : ~Holding(s)
    BY <1>2 DEF Holding
  <2>3. now <= now'
    BY <1>1, TimesAre DEF RateInv, TableTyped
  <2> QED BY <1>1, <1>3, <2>1, <2>2, <2>3, SpanGoesOn
<1> QED BY <1>4, <1>5, <1>6 DEF CatchInv

LEMMA ClaimCatch ==
  ASSUME IInv, RateInv, RateInv', HitsInv, CatchInv, NEW t \in Threads, ClaimSlot(t)
  PROVE  CatchInv'
<1>1. PICK s \in Free :
        /\ slot' = [slot EXCEPT ![t] = s]
        /\ key' = [key EXCEPT ![s] = Key(t)] /\ count' = [count EXCEPT ![s] = 0]
        /\ start' = [start EXCEPT ![s] = stamp[t]] /\ flagged' = [flagged EXCEPT ![s] = FALSE]
  BY DEF ClaimSlot
<1>2. /\ UNCHANGED <<hits, generation, wiping, now, stamp>> /\ s \in Slots /\ key[s] = NoKey
      /\ Found(Key(t)) = {} /\ Key(t) \in Keys
  BY CountedHasKey DEF ClaimSlot, ruleVars, Free
<1>3. /\ slot'[t] = s /\ key'[s] = Key(t) /\ count'[s] = 0 /\ start'[s] = stamp[t]
      /\ flagged'[s] = FALSE /\ at'[t] = "counting"
      /\ \A r \in Slots \ {s} : /\ key'[r] = key[r] /\ count'[r] = count[r]
                               /\ start'[r] = start[r] /\ flagged'[r] = flagged[r]
  BY <1>1, <1>2 DEF RateInv, TableTyped, ThreadsTyped, ClaimSlot, Go, IInv, Typed
<1>4. \A u \in Threads : at[u] # "counting"
  BY ThreadsAssumption DEF ThreadsAssumption, ClaimSlot, RateInv, ThreadsTyped
<1>5. \A k \in Keys : Found(k)' = IF k = Key(t) THEN {s} ELSE Found(k)
  BY <1>2, <1>3, KeysAssumption DEF Found
<1>6. Wiped' /\ Kept'
  BY <1>2, <1>5 DEF CatchInv, Wiped, Kept
<1>7. ASSUME NEW u \in Threads PROVE LostOk(u)'
  <2>1. at'[u] = "counting" => key'[slot'[u]] = Key(u)'
    BY TakesHand
  <2> QED BY <2>1 DEF LostOk
<1>8. ASSUME NEW k \in Keys, NEW rule \in SlowRules, NEW from \in Times
      PROVE  SpanOk(k, rule, from)'
  <2>1. SpanOk(k, rule, from)
    BY DEF CatchInv
  <2>2. \A r : ~Holding(r)
    BY <1>4 DEF Holding
  <2>3. CASE k # Key(t)
    <3>1. now <= now'
      BY <1>2, TimesAre DEF RateInv, TableTyped
    <3>2. \A r \in Found(k)' : r \in Found(k) /\ r \in Slots \ {s}
      BY <1>2, <1>5, <2>3, KeysAssumption DEF Found
    <3> QED BY <1>2, <1>3, <2>1, <2>2, <3>1, <3>2, SpanGoesOn
  <2>4. CASE k = Key(t)
    <3> DEFINE u == Passed(k, rule, from, generation)
               window == rule.window  limit == rule.threshold  a == stamp[t]
    <3>1. /\ Pure(hits, k, rule, from)' => Pure(hits, k, rule, from)
          /\ \A g : Passed(k, rule, from, g)' = Passed(k, rule, from, g)
      BY <1>2 DEF Pure, Passed
    <3>2. u \in Nat /\ u <= 1
      BY <1>2, <2>4, UnfiredFinite DEF CatchInv, Kept, RateInv, TableTyped, Passed
    <3>3. Holding(s)'
      BY <1>2, <1>3 DEF Holding
    <3>4. from \in Nat \ {0} /\ a \in Nat
      BY TimesAre DEF RateInv, ThreadsTyped
    <3>5. window \in Nat \ {0}
      BY SpanTypes
    <3>6. limit \in Nat /\ limit >= 2
      BY SpanTypes
    <3> HIDE DEF u, window, limit, a
    <3>7. Bounded(u, a, 0, FALSE, from, window, limit, TRUE)
      BY <3>2, <3>4, <3>5, <3>6, BoundedClaim
    <3>8. Bounded(u, a, 0, FALSE, from, window, limit, Holding(s)')
      BY <3>3, <3>7, Zenon DEF Bounded
    <3>9. Passed(k, rule, from, generation)' = u
      BY <1>2, <3>1 DEF u
    <3>10. SlotBounded(s, Passed(k, rule, from, generation), rule, from)'
      BY <1>3, <3>8, <3>9 DEF SlotBounded, window, limit, a
    <3>11. Found(k)' = {s}
      BY <1>5, <2>4
    <3>12. Pure(hits, k, rule, from) =>
             \A g \in 0..MaxConfigs : Passed(k, rule, from, g) <= 2 * (rule.threshold - 1)
      BY <2>1 DEF SpanOk
    <3> HIDE DEF u
    <3> QED BY <1>2, <3>1, <3>10, <3>11, <3>12 DEF SpanOk
  <2> QED BY <2>3, <2>4
<1> QED BY <1>6, <1>7, <1>8 DEF CatchInv

\* The hit of a thread in a slot whose key has been zeroed is the first to settle.
LEMMA StrayHit ==
  ASSUME RateInv, HitsInv, NEW e \in HitKinds, ~e.raced => e.generation = generation,
         hits' = Append(hits, e), generation' = generation, now' = now,
         NEW k \in Keys, NEW rule \in SlowRules, NEW from \in Times,
         Settled(hits, k, generation) = {}, Found(k)' = {}, SpanOk(k, rule, from)
  PROVE  SpanOk(k, rule, from)'
<1> SUFFICES ASSUME Pure(hits, k, rule, from)', NEW g \in 0..MaxConfigs
             PROVE  Passed(k, rule, from, g)' <= 2 * (rule.threshold - 1)
  BY DEF SpanOk
<1>1. hits \in Seq(HitKinds)
  BY DEF RateInv, TableTyped
<1>2. /\ Passed(k, rule, from, g)'
           = Passed(k, rule, from, g) + (IF Joins(e, k, rule, from, g) THEN 1 ELSE 0)
      /\ Pure(hits, k, rule, from)' => Pure(hits, k, rule, from)
  <2>1. Passed(k, rule, from, g)' = Cardinality(Unfired(Append(hits, e), k, rule, from, g))
    BY DEF Passed
  <2>2. Pure(hits, k, rule, from)' => Pure(Append(hits, e), k, rule, from)
    BY DEF Pure
  <2> QED BY <1>1, <2>1, <2>2, SpansGrow DEF Passed
<1>3. Passed(k, rule, from, g) <= 2 * (rule.threshold - 1)
  BY <1>2 DEF SpanOk
<1>4. Joins(e, k, rule, from, g) => Passed(k, rule, from, g) = 0
  <2>1. Joins(e, k, rule, from, g) => g = generation
    BY DEF Joins
  <2> QED BY <2>1, NothingPassed
<1> DEFINE u == Passed(k, rule, from, g)  limit == rule.threshold
           joins == Joins(e, k, rule, from, g)
<1>5. u \in Nat /\ limit \in Nat
  BY SpanTypes
<1>7. limit >= 2
  BY SpanTypes
<1> HIDE DEF u, limit, joins
<1>6. u + (IF joins THEN 1 ELSE 0) <= 2 * (limit - 1)
  BY <1>3, <1>4, <1>5, <1>7 DEF u, limit, joins
<1> QED BY <1>2, <1>6 DEF u, limit, joins

\* The hit of a thread in the slot of its key, in a span it falls into.
LEMMA SlotHit ==
  ASSUME RateInv, NEW t \in Threads, at[t] = "counting",
         \A v \in Threads \ {t} : at[v] # "counting",
         NEW rule \in SlowRules, NEW from \in Times, NEW u \in Nat,
         Rule(t) = rule, stamp[t] \in Times, stamp[t] <= now, now < from + rule.window,
         NEW s \in Slots, slot[t] = s, SlotBounded(s, u, rule, from)
  PROVE  Bounded(IF ~Fires(t, s) /\ stamp[t] >= from THEN u + 1 ELSE u,
                 IF WindowOver(t, s) THEN stamp[t] ELSE start[s], Counted(t, s), Fires(t, s),
                 from, rule.window, rule.threshold, FALSE)
<1> DEFINE a == start[s]  c == count[s]  f == flagged[s]  held == Holding(s)
           window == rule.window  limit == rule.threshold  x == stamp[t]
           over == a = 0 \/ x >= a + window
           fires == ~over /\ (f \/ c + 1 >= limit)
           b == IF over THEN x ELSE a
           d == IF over THEN 1 ELSE IF f THEN c ELSE c + 1
           v == IF ~fires /\ x >= from THEN u + 1 ELSE u
<1>1. a \in Nat /\ c \in Nat /\ f \in BOOLEAN /\ held \in BOOLEAN
  BY SpanTypes
<1>2. from \in Nat \ {0} /\ window \in Nat \ {0} /\ now \in Nat
  BY SpanTypes
<1>3. limit \in Nat /\ limit >= 2
  BY SpanTypes
<1>4. x \in Nat \ {0}
  BY TimesAre
<1>5. held => x = a
  BY DEF Holding
<1>6. Bounded(u, a, c, f, from, window, limit, held)
  BY DEF SlotBounded
<1>7. /\ WindowOver(t, s) <=> over
      /\ Fires(t, s) <=> fires
      /\ Counted(t, s) = d
  BY DEF WindowOver, Fires, Counted
<1>8. x < from + window
  <2> HIDE DEF window, x
  <2>1. x <= now /\ now < from + window
    BY DEF window, x
  <2> QED BY <1>2, <1>4, <2>1
<1>9. Bounded(v, b, d, fires, from, window, limit, FALSE)
  <2> HIDE DEF a, c, f, held, window, limit, x
  <2>1. \/ Bounded(u, a, c, f, from, window, limit, FALSE)
        \/ Bounded(u, a, c, f, from, window, limit, TRUE) /\ x = a
    BY <1>1, <1>5, <1>6
  <2>2. MoreOk(u, a, c, f, from, window, limit, x)
    <3>1. MayCount(u, a, c, f, from, window, limit, x)
      BY <1>1, <1>2, <1>3, <1>4, <1>8, <2>1 DEF MayCount
    <3> QED BY <3>1, OneMoreBounded
  <2> QED BY <2>2 DEF MoreOk
<1>10. Fires(t, s) = fires
  BY <1>7 DEF Fires
<1> QED BY <1>7, <1>9, <1>10

\* The hit of a thread in the slot of its key keeps every span of that key.
LEMMA OwnHit ==
  ASSUME RateInv, RateInv', NEW t \in Threads, at[t] = "counting",
         \A r \in Threads \ {t} : at[r] # "counting", \A r \in Threads : at'[r] # "counting",
         NEW s \in Slots, slot[t] = s, stamp[t] \in Times, stamp[t] <= now,
         NEW e \in HitKinds, KeyOf(e) = Key(t), e.from = stamp[t], e.to = now,
         e.rule = Rule(t), e.fired = Fires(t, s), ~e.raced => e.generation = generation,
         hits' = Append(hits, e), generation' = generation, now' = now,
         start'[s] = IF WindowOver(t, s) THEN stamp[t] ELSE start[s],
         count'[s] = Counted(t, s), flagged'[s] = Fires(t, s),
         NEW k \in Keys, k = Key(t), Found(k) = {s}, Found(k)' = {s},
         NEW rule \in SlowRules, NEW from \in Times, SpanOk(k, rule, from)
  PROVE  SpanOk(k, rule, from)'
<1> DEFINE end == from + rule.window
           u == Passed(k, rule, from, generation)
           v == IF ~Fires(t, s) /\ stamp[t] >= from THEN u + 1 ELSE u
<1> SUFFICES ASSUME Pure(hits, k, rule, from)'
             PROVE  /\ \A g \in 0..MaxConfigs :
                         Passed(k, rule, from, g)' <= 2 * (rule.threshold - 1)
                    /\ from <= now /\ now < end =>
                         Bounded(Passed(k, rule, from, generation)', start'[s], count'[s],
                                 flagged'[s], from, rule.window, rule.threshold, Holding(s)')
  BY DEF SpanOk, SlotBounded
<1>1. hits \in Seq(HitKinds)
  BY DEF RateInv, TableTyped
<1>2. /\ \A g : Passed(k, rule, from, g)'
                  = Passed(k, rule, from, g) + (IF Joins(e, k, rule, from, g) THEN 1 ELSE 0)
      /\ Pure(hits, k, rule, from)
      /\ e.from < end /\ e.to >= from => ~e.raced /\ e.rule = rule
  <2>1. \A g : Passed(k, rule, from, g)' = Cardinality(Unfired(Append(hits, e), k, rule, from, g))
    BY DEF Passed
  <2>2. Pure(Append(hits, e), k, rule, from)
    BY DEF Pure
  <2> QED BY <1>1, <2>1, <2>2, SpansGrow DEF Passed
<1>3. /\ \A g \in 0..MaxConfigs : Passed(k, rule, from, g) <= 2 * (rule.threshold - 1)
      /\ from <= now /\ now < end => SlotBounded(s, u, rule, from)
  BY <1>2 DEF SpanOk
<1>4. /\ rule.window \in Nat \ {0} /\ from \in Nat \ {0} /\ now \in Nat
      /\ \A g : Passed(k, rule, from, g) \in Nat
      /\ stamp[t] \in Nat
  BY SpanTypes, TimesAre
<1>5. ASSUME ~(from <= now /\ now < end), NEW g PROVE ~Joins(e, k, rule, from, g)
  <2> SUFFICES ASSUME e.from >= from, e.to < end PROVE FALSE
    BY DEF Joins
  <2> DEFINE x == stamp[t]
  <2>1. x >= from /\ now < end /\ x <= now /\ x \in Nat
    BY <1>4
  <2> HIDE DEF x, end
  <2> QED BY <1>4, <1>5, <2>1
<1>6. ASSUME NEW g, g # generation PROVE ~Joins(e, k, rule, from, g)
  BY <1>6 DEF Joins
<1>7. CASE ~(from <= now /\ now < end)
  BY <1>2, <1>3, <1>4, <1>5, <1>7
<1>8. CASE from <= now /\ now < end
  <2>1. ~e.raced /\ e.rule = rule /\ Rule(t) = rule /\ e.generation = generation
    <3> DEFINE x == stamp[t]
    <3>1. x <= now /\ now < end /\ x \in Nat /\ end \in Nat
      BY <1>4, <1>8
    <3>2. x < end
      <4> HIDE DEF x, end
      <4> QED BY <1>4, <3>1
    <3> QED BY <1>2, <1>8, <3>2
  <2>2. Joins(e, k, rule, from, generation) <=> ~Fires(t, s) /\ stamp[t] >= from
    BY <1>8, <2>1 DEF Joins
  <2>3. u \in Nat /\ SlotBounded(s, u, rule, from)
    BY <1>3, <1>4, <1>8
  <2>4. Passed(k, rule, from, generation)' = v
    <3>1. Passed(k, rule, from, generation)'
            = u + (IF Joins(e, k, rule, from, generation) THEN 1 ELSE 0)
      BY <1>2
    <3> HIDE DEF u
    <3> QED BY <2>2, <2>3, <3>1
  <2>5. Bounded(v, start'[s], count'[s], flagged'[s], from, rule.window, rule.threshold, FALSE)
    <3>1. u \in Nat /\ now < from + rule.window
      BY <1>8, <2>3
    <3> DEFINE b == IF WindowOver(t, s) THEN stamp[t] ELSE start[s]
    <3> HIDE DEF u
    <3>2. Bounded(v, b, Counted(t, s), Fires(t, s), from, rule.window, rule.threshold, FALSE)
      BY <2>1, <2>3, <3>1, SlotHit
    <3>3. start'[s] = b /\ count'[s] = Counted(t, s) /\ flagged'[s] = Fires(t, s)
      OBVIOUS
    <3> HIDE DEF v, b
    <3> QED BY <3>2, <3>3
  <2>6. v \in Nat
    <3> HIDE DEF u
    <3> QED BY <2>3
  <2>7. ~Holding(s)'
    BY DEF Holding
  <2> DEFINE a == start'[s]  c == count'[s]  f == flagged'[s]
             window == rule.window  limit == rule.threshold
  <2>8. a \in Nat /\ c \in Nat /\ f \in BOOLEAN
    BY DEF RateInv, TableTyped
  <2>9. window \in Nat \ {0} /\ from \in Nat \ {0}
    BY SpanTypes
  <2>10. limit \in Nat /\ limit >= 2
    BY SpanTypes
  <2>11. v <= 2 * (limit - 1)
    <3>1. Bounded(v, a, c, f, from, window, limit, FALSE)
      BY <2>5
    <3> HIDE DEF v, a, c, f, window, limit
    <3> QED BY <2>6, <2>8, <2>9, <2>10, <3>1, BoundedLimit
  <2>12. Bounded(v, a, c, f, from, window, limit, Holding(s)')
    <3>1. Bounded(v, a, c, f, from, window, limit, FALSE)
      BY <2>5
    <3> HIDE DEF v, a, c, f, window, limit
    <3> QED BY <2>7, <3>1, Zenon DEF Bounded
  <2> HIDE DEF u, v
  <2>13. \A g \in 0..MaxConfigs : Passed(k, rule, from, g)' <= 2 * (rule.threshold - 1)
    <3> TAKE g \in 0..MaxConfigs
    <3>1. CASE g = generation
      BY <2>4, <2>11, <3>1 DEF limit
    <3>2. CASE g # generation
      BY <1>2, <1>3, <1>4, <1>6, <3>2
    <3> QED BY <3>1, <3>2
  <2> QED BY <2>4, <2>12, <2>13
<1> QED BY <1>7, <1>8

LEMMA CountCatch ==
  ASSUME IInv, RateInv, RateInv', HitsInv, CatchInv, NEW t \in Threads, Count(t)
  PROVE  CatchInv'
<1> DEFINE s == slot[t]  e == Hit(t, s)
<1>1. /\ at[t] = "counting" /\ count' = [count EXCEPT ![s] = Counted(t, s)]
      /\ start' = [start EXCEPT ![s] = IF WindowOver(t, s) THEN stamp[t] ELSE start[s]]
      /\ flagged' = [flagged EXCEPT ![s] = Fires(t, s)]
      /\ hits' = Append(hits, e) /\ UNCHANGED <<key, generation, now>>
      /\ wiping' \subseteq wiping
      /\ \E place : place # "counting" /\ Go(t, place)
  BY DEF Count, Say, Finish
<1>2. /\ s \in Slots /\ key[s] \in {Key(t), NoKey} /\ e \in HitKinds
      /\ stamp[t] \in Times /\ stamp[t] <= now
      /\ \A u \in Threads \ {t} : at[u] # "counting"
  BY <1>1, InHand
<1>3. /\ KeyOf(e) = Key(t) /\ e.from = stamp[t] /\ e.to = now /\ e.rule = Rule(t)
      /\ e.fired = Fires(t, s)
      /\ ~e.raced => wiping = {} /\ e.generation = generation
  BY DEF Hit, KeyOf, Key, Raced
<1>4. /\ start'[s] = (IF WindowOver(t, s) THEN stamp[t] ELSE start[s])
      /\ count'[s] = Counted(t, s) /\ flagged'[s] = Fires(t, s)
      /\ \A r \in Slots \ {s} : /\ start'[r] = start[r] /\ count'[r] = count[r]
                                /\ flagged'[r] = flagged[r]
  BY <1>1, <1>2 DEF RateInv, TableTyped
<1>5. /\ \A u \in Threads : at'[u] # "counting"
      /\ \A k : Found(k)' = Found(k)
      /\ Key(t) \in Keys /\ LostOk(t)
  BY <1>1, <1>2, CountedHasKey DEF Go, IInv, Typed, Found, CatchInv
<1>6. hits \in Seq(HitKinds)
  BY DEF RateInv, TableTyped
<1> HIDE DEF e, s
<1>7. \A k : Settled(hits, k, generation)'
               = Settled(hits, k, generation)
                   \cup (IF KeyOf(e) = k /\ e.generation = generation /\ ~e.raced
                           THEN {Len(hits) + 1} ELSE {})
  <2> TAKE k
  <2>1. Settled(hits, k, generation)' = Settled(Append(hits, e), k, generation)
    BY <1>1 DEF Settled
  <2> QED BY <1>2, <1>6, <2>1, SpansGrow
<1>8. Wiped'
  <2>1. wiping' # {} => wiping # {}
    BY <1>1
  <2> QED BY <1>3, <1>7, <2>1 DEF CatchInv, Wiped
<1>9. ASSUME key[s] # Key(t)
      PROVE  Found(Key(t)) = {} /\ Settled(hits, Key(t), generation) = {}
  BY <1>1, <1>5, <1>9 DEF LostOk, s
<1>10. Kept'
  <2> SUFFICES ASSUME NEW k \in Keys, Found(k) = {},
                      NEW i \in Settled(hits, k, generation)',
                      NEW j \in Settled(hits, k, generation)'
               PROVE  i = j
    BY <1>5 DEF Kept
  <2>1. CASE k # Key(t)
    BY <1>3, <1>7, <2>1 DEF CatchInv, Kept
  <2>2. CASE k = Key(t)
    <3>1. key[s] # Key(t)
      BY <1>2, <2>2 DEF Found
    <3> QED BY <1>7, <1>9, <2>2, <3>1
  <2> QED BY <2>1, <2>2
<1>11. \A u \in Threads : LostOk(u)'
  BY <1>5 DEF LostOk
<1>12. ASSUME NEW k \in Keys, NEW rule \in SlowRules, NEW from \in Times
       PROVE  SpanOk(k, rule, from)'
  <2>1. SpanOk(k, rule, from)
    BY DEF CatchInv
  <2>2. CASE k # Key(t)
    <3>1. /\ \A g : Passed(k, rule, from, g)' = Passed(k, rule, from, g)
          /\ Pure(hits, k, rule, from)' => Pure(hits, k, rule, from)
      <4>1. /\ \A g : Passed(k, rule, from, g)'
                        = Cardinality(Unfired(Append(hits, e), k, rule, from, g))
            /\ Pure(hits, k, rule, from)' => Pure(Append(hits, e), k, rule, from)
        BY <1>1 DEF Passed, Pure
      <4>2. \A g : ~Joins(e, k, rule, from, g)
        BY <1>3, <2>2 DEF Joins
      <4>3. \A g : Passed(k, rule, from, g) \in Nat
        BY SpanTypes
      <4>4. ASSUME NEW g PROVE Passed(k, rule, from, g)' = Passed(k, rule, from, g) + 0
        BY <1>2, <1>6, <4>1, <4>2, SpansGrow DEF Passed
      <4>5. Pure(hits, k, rule, from)' => Pure(hits, k, rule, from)
        BY <1>2, <1>6, <4>1, SpansGrow
      <4> QED BY <4>3, <4>4, <4>5
    <3>2. ASSUME NEW r \in Found(k)
          PROVE  /\ r \in Slots \ {s} /\ ~Holding(r) /\ ~Holding(r)'
                 /\ start'[r] = start[r] /\ count'[r] = count[r] /\ flagged'[r] = flagged[r]
      <4>1. r \in Slots \ {s}
        BY <1>2, <2>2, <3>2, KeysAssumption DEF Found
      <4>2. ~Holding(r) /\ ~Holding(r)'
        BY <1>2, <1>5, <4>1 DEF Holding, s
      <4> QED BY <1>4, <4>1, <4>2
    <3>3. ASSUME NEW r \in Found(k), NEW u, SlotBounded(r, u, rule, from)
          PROVE  Bounded(u, start'[r], count'[r], flagged'[r], from, rule.window,
                         rule.threshold, Holding(r)')
      <4>1. (Holding(r) <=> FALSE) /\ (Holding(r)' <=> FALSE)
        BY <3>2, <3>3
      <4>2. /\ start'[r] = start[r] /\ count'[r] = count[r] /\ flagged'[r] = flagged[r]
        BY <3>2, <3>3
      <4> DEFINE held == Holding(r)  holds == Holding(r)'
      <4>3. Bounded(u, start'[r], count'[r], flagged'[r], from, rule.window, rule.threshold, held)
        BY <3>3, <4>2 DEF SlotBounded
      <4>4. held <=> holds
        BY <4>1
      <4> HIDE DEF held, holds
      <4>5. Bounded(u, start'[r], count'[r], flagged'[r], from, rule.window, rule.threshold, holds)
        BY <4>3, <4>4, Zenon DEF Bounded
      <4> QED BY <4>5 DEF holds
    <3> QED BY <1>1, <1>5, <2>1, <3>1, <3>3 DEF SpanOk, SlotBounded
  <2>3. CASE k = Key(t) /\ key[s] # Key(t)
    <3>1. Found(k)' = {} /\ Settled(hits, k, generation) = {}
      BY <1>5, <1>9, <2>3
    <3> QED BY <1>1, <1>2, <1>3, <2>1, <3>1, StrayHit
  <2>4. CASE k = Key(t) /\ key[s] = Key(t)
    <3>1. Found(k) = {s} /\ Found(k)' = {s}
      <4>1. k # NoKey /\ key[s] = k /\ s \in Slots
        BY <1>2, <2>4, KeysAssumption
      <4>2. \A r \in Slots : key[r] = k => r = s
        BY <4>1 DEF RateInv, TableTyped
      <4> QED BY <1>5, <4>1, <4>2 DEF Found
    <3> QED BY <1>1, <1>2, <1>3, <1>4, <1>5, <2>1, <2>4, <3>1, OwnHit DEF s
  <2> QED BY <2>2, <2>3, <2>4
<1> QED BY <1>8, <1>10, <1>11, <1>12 DEF CatchInv

LEMMA CatchStep == IInv /\ RateInv /\ HitsInv /\ CatchInv /\ [Next]_vars => CatchInv'
<1> SUFFICES ASSUME IInv, RateInv, HitsInv, CatchInv, [Next]_vars PROVE CatchInv'
  OBVIOUS
<1>1. RateInv' /\ HitsInv' /\ now <= now'
  BY NextRate, HitsStep, OnlyOnward
<1>2. CASE Quiet
  BY <1>1, <1>2, QuietCatch
<1>3. CASE ~Quiet
  BY <1>1, <1>3, LoudSteps, FindCatch, ClaimCatch, CountCatch, ConfigureCatch, ZeroCatch
<1> QED BY <1>2, <1>3

LEMMA CatchInvariant == Spec => [](IInv /\ RateInv /\ HitsInv /\ CatchInv)
<1>1. Init => HitsInv /\ CatchInv
  BY InitHits, InitCatch
<1> QED BY <1>1, HitsStep, CatchStep, Invariant, RateInvariant, PTL DEF Spec

\* However the span from a hit lies to the window of its slot, and whoever counts in the slots
\* while they are zeroed: of the matches of a rule with a threshold at most twice one less than
\* it are let through within a window, where no match was counted in a race.
THEOREM BurstsAreCaught == Spec => []BurstCaught
<1>1. ASSUME RateInv, HitsInv, CatchInv, NEW i \in DOMAIN hits,
             LET first == hits[i]
                 within == {j \in DOMAIN hits :
                              /\ KeyOf(hits[j]) = KeyOf(first)
                              /\ hits[j].from < first.from + first.rule.window
                              /\ hits[j].to >= first.from} IN
             \A j \in within : ~hits[j].raced /\ hits[j].rule = first.rule
      PROVE  LET first == hits[i]
                 end == first.from + first.rule.window
                 within == {j \in DOMAIN hits : /\ KeyOf(hits[j]) = KeyOf(first)
                                                /\ hits[j].from < end /\ hits[j].to >= first.from}
                 unfired == {j \in within : /\ hits[j].generation = first.generation
                                            /\ hits[j].from >= first.from /\ hits[j].to < end
                                            /\ ~hits[j].fired} IN
             Cardinality(unfired) < 2 * first.rule.threshold - 1
  <2> DEFINE first == hits[i]  k == KeyOf(first)  rule == first.rule  from == first.from
             g == first.generation  end == from + rule.window
             within == {j \in DOMAIN hits : /\ KeyOf(hits[j]) = k
                                            /\ hits[j].from < end /\ hits[j].to >= from}
             unfired == {j \in within : /\ hits[j].generation = g
                                        /\ hits[j].from >= from /\ hits[j].to < end
                                        /\ ~hits[j].fired}
             limit == rule.threshold
  <2>1. hits \in Seq(HitKinds) /\ first \in HitKinds /\ HitOk(first)
    BY <1>1 DEF RateInv, TableTyped, HitsInv
  <2>2. rule \in SlowRules
    BY <2>1 DEF HitKinds, HitOk, SlowRules
  <2>3. from \in Times
    BY <2>1 DEF HitKinds
  <2>4. g \in 0..MaxConfigs
    BY <2>1 DEF HitKinds
  <2>5. k \in Keys
    BY <2>1 DEF HitOk
  <2> HIDE DEF k, rule, from, g
  <2>6. Pure(hits, k, rule, from)
    BY <1>1 DEF Pure, k, rule, from
  <2>7. Passed(k, rule, from, g) <= 2 * (limit - 1)
    BY <1>1, <2>2, <2>3, <2>4, <2>5, <2>6 DEF CatchInv, SpanOk
  <2>8. unfired \subseteq Unfired(hits, k, rule, from, g)
    BY <2>6 DEF Unfired, Settled, Pure
  <2>9. /\ IsFiniteSet(Unfired(hits, k, rule, from, g))
        /\ Cardinality(Unfired(hits, k, rule, from, g)) \in Nat
    BY <2>1, UnfiredFinite
  <2>10. IsFiniteSet(unfired) /\ Cardinality(unfired) <= Passed(k, rule, from, g)
    <3> HIDE DEF unfired
    <3> QED BY <2>8, <2>9, FS_Subset DEF Passed
  <2>11. Cardinality(unfired) \in Nat
    BY <2>10, FS_CardinalityType
  <2>12. limit \in Nat /\ limit >= 2
    BY <1>1, <2>2, <2>3, SpanTypes
  <2> DEFINE n == Cardinality(unfired)  m == Passed(k, rule, from, g)
  <2>13. n < 2 * limit - 1
    <3>1. n \in Nat /\ m \in Nat /\ n <= m /\ m <= 2 * (limit - 1)
      BY <2>7, <2>9, <2>10, <2>11 DEF Passed
    <3> HIDE DEF n, m, limit
    <3> QED BY <2>12, <3>1
  <2> QED BY <2>13 DEF k, rule, from, g
<1>2. RateInv /\ HitsInv /\ CatchInv => BurstCaught
  BY <1>1 DEF BurstCaught
<1> QED BY <1>2, CatchInvariant, PTL
=============================================================================
