-------------------------- MODULE HandleGate_proofs ---------------------------
(***************************************************************************)
(* Proofs about HandleGate for every set of processes, calls and requests, *)
(* every number of slots and every time to live.                           *)
(*                                                                         *)
(* The induction is in three layers.  CallsSound types the calls, and says *)
(* what a call in progress keeps; SlotsFit types the slots and bounds      *)
(* their number; CacheInv relates the slots to the consultations.          *)
(***************************************************************************)
EXTENDS HandleGate, FiniteSetTheorems, TLAPS

Kinds == {"process", "thread"}
Places == {"idle", "looking", "asking", "recording", "asking for terminate",
           "asking for critical", "killing", "done"}
Passes == {"fast", "trusted", "known", "excluded"}
CallRecords ==
  [at : Places, source : Procs \cup {NoProc}, target : Procs \cup {NoProc}, kind : Kinds,
   rights : SUBSET (0..31), kept : SUBSET (0..31), stamp : 0..MaxTime,
   answer : Answers \cup {"none"}, why : Passes \cup {"no", "none", "cached"}]
SlotRecords == [source : Pids, target : Procs, rights : SUBSET (0..31), since : 0..MaxTime]

\* A call in progress opens one process for another, as requested, and has read the clock.
InProgress(c) ==
  /\ call[c].source \in Procs /\ call[c].target \in Procs
  /\ [kind |-> call[c].kind, rights |-> call[c].rights] \in Requests
  /\ call[c].kept \subseteq call[c].rights /\ call[c].stamp <= now
CallsSound ==
  /\ running \subseteq started /\ started \subseteq Procs /\ now \in 0..MaxTime
  /\ call \in [Calls -> CallRecords]
  /\ \A c \in Calls : IF call[c].at = "idle" THEN call[c] = NoCall ELSE InProgress(c)

SlotsFit ==
  /\ slots \subseteq SlotRecords
  /\ IsFiniteSet(slots) /\ Cardinality(slots) <= MaxSlots

----------------------------------------------------------------------------
(* Types *)

LEMMA CallsInit == Init => CallsSound
<1> SUFFICES ASSUME Init PROVE CallsSound
  OBVIOUS
<1>1. NoCall \in CallRecords
  BY CacheAssumption DEF NoCall, CallRecords, Places, Kinds
<1>2. now \in 0..MaxTime /\ started \subseteq Procs /\ running \subseteq started
  BY ProcsAssumption, CacheAssumption DEF Init
<1> QED BY <1>1, <1>2 DEF Init, CallsSound, NoCall

\* A call moves on: what it is about stays, and what it keeps, its reading of the clock, its
\* answer and its reason may change.
SameCall(r, c) ==
  r.source = call[c].source /\ r.target = call[c].target /\ r.kind = call[c].kind
  /\ r.rights = call[c].rights
Moved(c, r) ==
  /\ call' = [call EXCEPT ![c] = r]
  /\ r \in CallRecords /\ SameCall(r, c)
  /\ r.at # "idle" /\ r.kept \subseteq call[c].kept /\ r.stamp <= now
  /\ running' \subseteq running /\ UNCHANGED <<started, now>>

LEMMA MovedSound ==
  ASSUME CallsSound, NEW c \in Calls, call[c].at # "idle", NEW r, Moved(c, r)
  PROVE  CallsSound'
<1>1. call'[c] = r /\ \A d \in Calls \ {c} : call'[d] = call[d]
  BY DEF CallsSound, Moved
<1>2. InProgress(c)' /\ call'[c].at # "idle"
  BY <1>1 DEF CallsSound, InProgress, Moved, SameCall
<1>3. call' \in [Calls -> CallRecords]
  BY DEF CallsSound, Moved
<1>4. ASSUME NEW d \in Calls, d # c
      PROVE  IF call'[d].at = "idle" THEN call'[d] = NoCall ELSE InProgress(d)'
  BY <1>1, <1>4 DEF CallsSound, InProgress, Moved
<1> QED BY <1>2, <1>3, <1>4 DEF CallsSound, Moved

\* The record each step of a call under way leaves.
At(c, place) == [call[c] EXCEPT !.at = place]
Hit(c) == [call[c] EXCEPT !.at = "done", !.why = "cached"]
Answered(c, place, a, kept) ==
  [call[c] EXCEPT !.at = place, !.answer = a, !.kept = kept]
LetGo(c, a) == [call[c] EXCEPT !.at = "recording", !.stamp = now, !.answer = a]

LEMMA LookupMoves ==
  ASSUME CallsSound, NEW c \in Calls, Lookup(c)
  PROVE  Moved(c, At(c, "asking")) \/ Moved(c, Hit(c))
<1>1. call[c] \in CallRecords /\ InProgress(c)
  BY DEF CallsSound, Lookup
<1>2. \E r \in {At(c, "asking"), Hit(c)} : call' = [call EXCEPT ![c] = r]
  BY <1>1 DEF Lookup, At, Hit, CallsSound, CallRecords
<1>3. ASSUME NEW r \in {At(c, "asking"), Hit(c)}
      PROVE  /\ r \in CallRecords /\ SameCall(r, c) /\ r.at # "idle"
             /\ r.kept \subseteq call[c].kept /\ r.stamp <= now
  BY <1>1, <1>3 DEF At, Hit, CallRecords, Places, SameCall, InProgress
<1> QED BY <1>2, <1>3 DEF Moved, Lookup

LEMMA EndMoves ==
  ASSUME CallsSound, NEW c \in Calls, Record(c) \/ KillActor(c)
  PROVE  Moved(c, At(c, "done"))
<1>1. call[c] \in CallRecords /\ InProgress(c)
  BY DEF CallsSound, Record, KillActor
<1>2. call' = [call EXCEPT ![c] = At(c, "done")]
  BY <1>1 DEF Record, KillActor, At, CallsSound
<1>3. /\ At(c, "done") \in CallRecords /\ SameCall(At(c, "done"), c)
      /\ At(c, "done").at # "idle" /\ At(c, "done").kept \subseteq call[c].kept
      /\ At(c, "done").stamp <= now
  BY <1>1 DEF At, CallRecords, Places, SameCall, InProgress
<1> QED BY <1>2, <1>3 DEF Moved, Record, KillActor

LEMMA AnswerMoves ==
  ASSUME CallsSound, NEW c \in Calls, NEW a \in Answers, Answer(c, a)
  PROVE  IF LetsThrough(a) THEN Moved(c, LetGo(c, a))
         ELSE Moved(c, Answered(c, "done", a,
                                call[c].kept \ ThreatMask(call[c].kind, call[c].rights)))
<1>1. call[c] \in CallRecords /\ InProgress(c) /\ now \in 0..MaxTime
  BY DEF CallsSound, Answer
<1>2. CASE LetsThrough(a)
  <2>1. call' = [call EXCEPT ![c] = LetGo(c, a)]
    BY <1>1, <1>2 DEF Answer, LetGo, CallsSound, CallRecords
  <2>2. LetGo(c, a) \in CallRecords
    BY <1>1 DEF LetGo, CallRecords, Places
  <2>3. /\ SameCall(LetGo(c, a), c) /\ LetGo(c, a).at # "idle"
        /\ LetGo(c, a).kept \subseteq call[c].kept /\ LetGo(c, a).stamp <= now
    BY <1>1 DEF LetGo, CallRecords, SameCall
  <2> QED BY <1>2, <2>1, <2>2, <2>3 DEF Moved, Answer
<1>3. CASE ~LetsThrough(a)
  <2> DEFINE kept == call[c].kept \ ThreatMask(call[c].kind, call[c].rights)
             r == Answered(c, "done", a, kept)
  <2>1. kept \subseteq call[c].kept /\ kept \in SUBSET (0..31)
    BY <1>1 DEF CallRecords
  <2>2. call' = [call EXCEPT ![c] = r]
    BY <1>1, <1>3 DEF Answer, Answered, CallsSound, CallRecords
  <2> HIDE DEF kept
  <2>3. r \in CallRecords
    BY <1>1, <2>1 DEF Answered, CallRecords, Places
  <2>4. SameCall(r, c) /\ r.at # "idle" /\ r.kept \subseteq call[c].kept /\ r.stamp <= now
    BY <1>1, <2>1 DEF Answered, CallRecords, SameCall, InProgress
  <2> QED BY <1>3, <2>2, <2>3, <2>4 DEF Moved, Answer, kept
<1> QED BY <1>2, <1>3

LEMMA GateMoves ==
  ASSUME CallsSound, NEW c \in Calls, NEW a \in Answers, GateAnswer(c, a)
  PROVE  Moved(c, Answered(c, IF a = "kill" THEN "killing" ELSE "done", a,
                           IF Keeps(a) THEN call[c].kept ELSE call[c].kept \ Stripped(c)))
<1>1. call[c] \in CallRecords /\ InProgress(c)
  BY DEF CallsSound, GateAnswer
<1> DEFINE kept == IF Keeps(a) THEN call[c].kept ELSE call[c].kept \ Stripped(c)
           place == IF a = "kill" THEN "killing" ELSE "done"
           r == Answered(c, place, a, kept)
<1>2. call' = [call EXCEPT ![c] = r]
  BY <1>1 DEF GateAnswer, Answered, CallsSound, CallRecords
<1>3. /\ r \in CallRecords /\ SameCall(r, c) /\ r.at # "idle"
      /\ r.kept \subseteq call[c].kept /\ r.stamp <= now
  <2>1. kept \subseteq call[c].kept /\ kept \in SUBSET (0..31)
    BY <1>1 DEF CallRecords
  <2> HIDE DEF kept
  <2> QED BY <1>1, <2>1 DEF Answered, CallRecords, Places, SameCall, InProgress
<1> QED BY <1>2, <1>3 DEF Moved, GateAnswer

\* Every step of a call under way moves it on.
CallRuns(c) ==
  Lookup(c) \/ Record(c) \/ KillActor(c) \/ \E a \in Answers : Answer(c, a) \/ GateAnswer(c, a)
LEMMA RunsMove ==
  ASSUME CallsSound, NEW c \in Calls, CallRuns(c)
  PROVE  call[c].at # "idle" /\ \E r : Moved(c, r)
<1>1. call[c].at # "idle"
  BY DEF CallRuns, Lookup, Record, KillActor, Answer, GateAnswer
<1> QED BY <1>1, LookupMoves, EndMoves, AnswerMoves, GateMoves DEF CallRuns

\* A call begins with what the thread asks for, and reads the clock if it goes to the cache.
Opened(p, q, r, trusted) ==
  LET why == WhyPasses(p, q, r.kind, r.rights, trusted)
      step == IF why = "no" THEN NextStep(q, r.kind, r.rights) ELSE "done"
  IN [at |-> step, source |-> p, target |-> q, kind |-> r.kind, rights |-> r.rights,
      kept |-> r.rights, stamp |-> IF step = "looking" THEN now ELSE 0,
      answer |-> "none", why |-> why]
Opens(c) == \E pair \in Pairs[c], r \in Requests, trusted \in BOOLEAN :
              Open(c, pair[1], pair[2], r, trusted)

LEMMA OpenSound ==
  ASSUME CallsSound, NEW c \in Calls, NEW pair \in Pairs[c], NEW r \in Requests,
         NEW trusted \in BOOLEAN, Open(c, pair[1], pair[2], r, trusted)
  PROVE  CallsSound'
<1> DEFINE o == Opened(pair[1], pair[2], r, trusted)
<1>1. pair[1] \in Procs /\ pair[2] \in Procs
  BY PairsAssumption
<1>2. r.kind \in Kinds /\ r.rights \in SUBSET (0..31) /\ r = [kind |-> r.kind, rights |-> r.rights]
  BY RequestsAssumption DEF Kinds
<1>3. WhyPasses(pair[1], pair[2], r.kind, r.rights, trusted) \in Passes \cup {"no"}
  BY DEF WhyPasses, Passes
<1>4. NextStep(pair[2], r.kind, r.rights) \in Places \ {"idle"}
  BY DEF NextStep, Places
<1>5. now \in 0..MaxTime
  BY DEF CallsSound
<1>6. o \in CallRecords /\ o.at # "idle" /\ o.stamp <= now
  <2> DEFINE why == WhyPasses(pair[1], pair[2], r.kind, r.rights, trusted)
             place == IF why = "no" THEN NextStep(pair[2], r.kind, r.rights) ELSE "done"
             stamp == IF place = "looking" THEN now ELSE 0
  <2>1. why \in Passes \cup {"no"} /\ place \in Places \ {"idle"}
    BY <1>3, <1>4 DEF Places
  <2>2. stamp \in 0..MaxTime /\ stamp <= now
    BY <1>5, CacheAssumption
  <2>3. o = [at |-> place, source |-> pair[1], target |-> pair[2], kind |-> r.kind,
             rights |-> r.rights, kept |-> r.rights, stamp |-> stamp,
             answer |-> "none", why |-> why]
    BY DEF Opened
  <2> HIDE DEF o, why, place, stamp
  <2> QED BY <1>1, <1>2, <2>1, <2>2, <2>3 DEF CallRecords
<1>7. call' = [call EXCEPT ![c] = o]
  BY DEF Open, Opened
<1>8. /\ o.source \in Procs /\ o.target \in Procs /\ o.kept \subseteq o.rights
      /\ [kind |-> o.kind, rights |-> o.rights] \in Requests
  BY <1>1, <1>2 DEF Opened
<1> HIDE DEF o
<1>9. call'[c] = o /\ \A d \in Calls \ {c} : call'[d] = call[d]
  BY <1>7 DEF CallsSound
<1>10. InProgress(c)' /\ call'[c].at # "idle"
  BY <1>6, <1>8, <1>9 DEF InProgress, Open
<1>11. ASSUME NEW d \in Calls, d # c
       PROVE  IF call'[d].at = "idle" THEN call'[d] = NoCall ELSE InProgress(d)'
  BY <1>9, <1>11 DEF CallsSound, InProgress, Open
<1>12. call' \in [Calls -> CallRecords]
  BY <1>6, <1>7 DEF CallsSound
<1> QED BY <1>10, <1>11, <1>12 DEF CallsSound, Open

LEMMA NoCallTyped == NoCall \in CallRecords /\ NoCall.at = "idle"
  BY CacheAssumption DEF NoCall, CallRecords, Places, Kinds

LEMMA ReturnSound ==
  ASSUME CallsSound, NEW c \in Calls, Return(c)
  PROVE  CallsSound'
<1>1. call'[c] = NoCall /\ \A d \in Calls \ {c} : call'[d] = call[d]
  BY DEF CallsSound, Return
<1>2. call' \in [Calls -> CallRecords]
  BY NoCallTyped DEF CallsSound, Return
<1>3. ASSUME NEW d \in Calls
      PROVE  IF call'[d].at = "idle" THEN call'[d] = NoCall ELSE InProgress(d)'
  BY <1>1, NoCallTyped DEF CallsSound, InProgress, Return
<1> QED BY <1>2, <1>3 DEF CallsSound, Return

\* The steps of the system outside the calls.
Around == (\E p \in Procs : Exit(p) \/ Start(p)) \/ Tick \/ UNCHANGED vars

LEMMA AroundSound ==
  ASSUME CallsSound, Around
  PROVE  CallsSound'
<1>1. running' \subseteq started' /\ started' \subseteq Procs /\ call' = call
  BY DEF Around, CallsSound, Exit, Start, Tick, vars
<1>2. now' \in 0..MaxTime /\ now <= now'
  BY CacheAssumption DEF Around, CallsSound, Exit, Start, Tick, vars
<1>3. ASSUME NEW c \in Calls, InProgress(c) PROVE InProgress(c)'
  <2>1. call[c].stamp \in Int /\ now \in Int /\ now' \in Int
    BY <1>2 DEF CallsSound, CallRecords
  <2> QED BY <1>1, <1>2, <1>3, <2>1 DEF InProgress
<1> QED BY <1>1, <1>2, <1>3 DEF CallsSound

LEMMA NextSplits ==
  [Next]_vars => Around \/ \E c \in Calls : Opens(c) \/ CallRuns(c) \/ Return(c)
  BY DEF Next, Around, Opens, CallRuns

LEMMA CallsStep == CallsSound /\ [Next]_vars => CallsSound'
<1> SUFFICES ASSUME CallsSound, [Next]_vars PROVE CallsSound'
  OBVIOUS
<1>1. CASE Around
  BY <1>1, AroundSound
<1>2. ASSUME NEW c \in Calls, Opens(c) PROVE CallsSound'
  BY <1>2, OpenSound DEF Opens
<1>3. ASSUME NEW c \in Calls, CallRuns(c) PROVE CallsSound'
  BY <1>3, RunsMove, MovedSound
<1>4. ASSUME NEW c \in Calls, Return(c) PROVE CallsSound'
  BY <1>4, ReturnSound
<1> QED BY <1>1, <1>2, <1>3, <1>4, NextSplits

----------------------------------------------------------------------------
(* The slots *)

LEMMA SlotsInit == Init => SlotsFit
  BY FS_EmptySet, CacheAssumption DEF Init, SlotsFit

\* What a call records is a slot: its key and its reading of the clock.
LEMMA FreshTyped ==
  ASSUME CallsSound, NEW c \in Calls, call[c].at = "recording"
  PROVE  /\ Fresh(c) \in SlotRecords
         /\ \A s \in SlotRecords : Merged(s, c) \in SlotRecords
<1>1. call[c] \in CallRecords /\ call[c].source \in Procs /\ call[c].target \in Procs
  BY DEF CallsSound, InProgress
<1>2. Wanted(c) \in SUBSET (0..31)
  BY <1>1 DEF Wanted, Dangerous, CallRecords
<1>3. PidOf[call[c].source] \in Pids
  BY <1>1 DEF Pids
<1> QED BY <1>1, <1>2, <1>3 DEF Fresh, Merged, SlotRecords, CallRecords

LEMMA Replaced ==
  ASSUME NEW S, IsFiniteSet(S), NEW s \in S, NEW u
  PROVE  /\ IsFiniteSet((S \ {s}) \cup {u})
         /\ Cardinality((S \ {s}) \cup {u}) <= Cardinality(S)
<1>1. /\ IsFiniteSet(S \ {s}) /\ Cardinality(S \ {s}) = Cardinality(S) - 1
  BY FS_RemoveElement
<1>2. /\ IsFiniteSet((S \ {s}) \cup {u})
      /\ Cardinality((S \ {s}) \cup {u}) \in {Cardinality(S \ {s}), Cardinality(S \ {s}) + 1}
  BY <1>1, FS_AddElement
<1> QED BY <1>1, <1>2, FS_CardinalityType

LEMMA SlotsStep == CallsSound /\ SlotsFit /\ [Next]_vars => SlotsFit'
<1> SUFFICES ASSUME CallsSound, SlotsFit, [Next]_vars PROVE SlotsFit'
  OBVIOUS
<1>1. ASSUME NEW c \in Calls, Record(c) PROVE SlotsFit'
  <2>1. /\ Fresh(c) \in SlotRecords
        /\ \A s \in SlotRecords : Merged(s, c) \in SlotRecords
    BY <1>1, FreshTyped DEF Record
  <2>2. ASSUME NEW s \in slots, NEW u \in SlotRecords, slots' = (slots \ {s}) \cup {u}
        PROVE  SlotsFit'
    <3>1. IsFiniteSet(slots') /\ Cardinality(slots') <= Cardinality(slots)
      BY <2>2, Replaced DEF SlotsFit
    <3> QED BY <2>2, <3>1, FS_CardinalityType, CacheAssumption DEF SlotsFit
  <2>3. CASE HasFree /\ slots' = slots \cup {Fresh(c)}
    <3>1. IsFiniteSet(slots') /\ Cardinality(slots') \in {Cardinality(slots), Cardinality(slots) + 1}
      BY <2>3, FS_AddElement DEF SlotsFit
    <3> QED BY <2>1, <2>3, <3>1, FS_CardinalityType, CacheAssumption DEF SlotsFit, HasFree
  <2> QED BY <1>1, <2>1, <2>2, <2>3 DEF Record, MayMerge, Oldest, SlotsFit
<1>2. ASSUME slots' \subseteq slots PROVE SlotsFit'
  BY <1>2, FS_Subset, FS_CardinalityType, CacheAssumption DEF SlotsFit
<1>3. slots' \subseteq slots \/ \E c \in Calls : Record(c)
  <2>1. CASE Around
    BY <2>1 DEF Around, Exit, Start, Tick, vars
  <2>2. ASSUME NEW c \in Calls, Opens(c) PROVE slots' \subseteq slots
    BY <2>2 DEF Opens, Open
  <2>3. ASSUME NEW c \in Calls, CallRuns(c) PROVE slots' \subseteq slots \/ Record(c)
    BY <2>3 DEF CallRuns, Lookup, KillActor, Answer, GateAnswer
  <2>4. ASSUME NEW c \in Calls, Return(c) PROVE slots' \subseteq slots
    BY <2>4 DEF Return
  <2> QED BY <2>1, <2>2, <2>3, <2>4, NextSplits
<1> QED BY <1>1, <1>2, <1>3

Typed == CallsSound /\ SlotsFit

LEMMA TypedInvariant == Spec => []Typed
<1>1. Init => Typed
  BY CallsInit, SlotsInit DEF Typed
<1>2. Typed /\ [Next]_vars => Typed'
  BY CallsStep, SlotsStep DEF Typed
<1> QED BY <1>1, <1>2, PTL DEF Spec

\* Every variable has its type, and the cache never holds more slots than its array.
THEOREM TypeInvariant == Spec => []TypeOK
<1>1. Typed => TypeOK
  <2> SUFFICES ASSUME Typed PROVE TypeOK
    OBVIOUS
  <2>1. ASSUME NEW c \in Calls, call[c] # NoCall PROVE InProgress(c)
    BY <2>1 DEF Typed, CallsSound
  <2> QED BY <2>1 DEF Typed, CallsSound, SlotsFit, SlotRecords, TypeOK, InProgress
<1> QED BY <1>1, TypedInvariant, PTL

----------------------------------------------------------------------------
(* The critical gate *)

\* What is known of a call on its way: only a call the critical gate does not hold of goes to
\* the cache and the generic consultation, and one that keeps a dangerous right on a critical
\* process has been let through by name, by an Allow, or by the terminate gate before it.
LetThrough(r) ==
  \/ r.answer = "allow"
  \/ r.why \in {"fast", "trusted", "known"}
  \/ TerminateGate(r.target, r.kind, r.rights)
GateOk(r) ==
  /\ r.at \in {"looking", "asking", "recording"} => ~CriticalGate(r.target, r.kind)
  /\ r.at = "asking for terminate" => TerminateGate(r.target, r.kind, r.rights)
  /\ r.at \in {"done", "killing"} =>
       \/ ~CriticalGate(r.target, r.kind)
       \/ r.kept \cap Dangerous(r.kind, r.rights) = {}
       \/ LetThrough(r)
GateInv == \A c \in Calls : GateOk(call[c])

LEMMA OpenedOk ==
  ASSUME NEW p, NEW q, NEW r, NEW trusted \in BOOLEAN
  PROVE  GateOk(Opened(p, q, r, trusted))
<1> DEFINE why == WhyPasses(p, q, r.kind, r.rights, trusted)
           place == IF why = "no" THEN NextStep(q, r.kind, r.rights) ELSE "done"
           o == Opened(p, q, r, trusted)
<1>1. /\ o.at = place /\ o.target = q /\ o.kind = r.kind /\ o.rights = r.rights
      /\ o.why = why
  BY DEF Opened
<1>2. why \in {"fast", "trusted", "known", "no"} \/ ~CriticalGate(q, r.kind)
  BY DEF WhyPasses
<1>3. /\ NextStep(q, r.kind, r.rights) = "looking" => ~CriticalGate(q, r.kind)
      /\ NextStep(q, r.kind, r.rights) = "asking for terminate"
           => TerminateGate(q, r.kind, r.rights)
      /\ NextStep(q, r.kind, r.rights)
           \in {"looking", "asking for terminate", "asking for critical"}
  BY DEF NextStep
<1> HIDE DEF why
<1>4. GateOk(o)
  <2> HIDE DEF o
  <2> QED BY <1>1, <1>2, <1>3 DEF GateOk, LetThrough
<1> QED BY <1>4

LEMMA GateKept ==
  ASSUME GateInv, call \in [Calls -> CallRecords], NEW c \in Calls, NEW r, GateOk(r),
         call' = [call EXCEPT ![c] = r]
  PROVE  GateInv'
<1> SUFFICES ASSUME NEW d \in Calls PROVE GateOk(call'[d])
  BY DEF GateInv
<1> QED BY DEF GateInv

LEMMA RunsOk ==
  ASSUME CallsSound, GateInv, NEW c \in Calls, CallRuns(c)
  PROVE  \E r : GateOk(r) /\ call' = [call EXCEPT ![c] = r]
<1>1. call[c] \in CallRecords /\ GateOk(call[c])
  BY DEF CallsSound, GateInv
<1>2. CASE Lookup(c)
  <2>1. GateOk(At(c, "asking")) /\ GateOk(Hit(c))
    BY <1>1, <1>2 DEF Lookup, At, Hit, GateOk, LetThrough, CallRecords
  <2> QED BY <1>2, <2>1, LookupMoves DEF Moved
<1>3. CASE Record(c) \/ KillActor(c)
  <2>1. GateOk(At(c, "done"))
    BY <1>1, <1>3 DEF Record, KillActor, At, GateOk, LetThrough, CallRecords
  <2> QED BY <1>3, <2>1, EndMoves DEF Moved
<1>4. ASSUME NEW a \in Answers, Answer(c, a)
      PROVE  \E r : GateOk(r) /\ call' = [call EXCEPT ![c] = r]
  <2>1. call[c].at = "asking"
    BY <1>4 DEF Answer
  <2>2. GateOk(LetGo(c, a))
    BY <1>1, <2>1 DEF LetGo, GateOk, CallRecords
  <2>3. ASSUME NEW kept PROVE GateOk(Answered(c, "done", a, kept))
    BY <1>1, <2>1 DEF Answered, GateOk, CallRecords
  <2> QED BY <1>4, <2>2, <2>3, AnswerMoves DEF Moved
<1>5. ASSUME NEW a \in Answers, GateAnswer(c, a)
      PROVE  \E r : GateOk(r) /\ call' = [call EXCEPT ![c] = r]
  <2> DEFINE place == IF a = "kill" THEN "killing" ELSE "done"
             kept == IF Keeps(a) THEN call[c].kept ELSE call[c].kept \ Stripped(c)
             r == Answered(c, place, a, kept)
  <2>1. /\ r.at = place /\ r.answer = a /\ r.kept = kept
        /\ r.target = call[c].target /\ r.kind = call[c].kind /\ r.rights = call[c].rights
    BY <1>1 DEF Answered, CallRecords
  <2>2. call[c].at = "asking for terminate" => GateOk(r)
    BY <1>1, <2>1 DEF GateOk, LetThrough
  <2>3. call[c].at = "asking for critical" => GateOk(r)
    <3>1. Keeps(a) => GateOk(r)
      BY <2>1 DEF GateOk, LetThrough, Keeps
    <3>2. ASSUME call[c].at = "asking for critical", ~Keeps(a) PROVE GateOk(r)
      <4>1. kept \cap Dangerous(r.kind, r.rights) = {}
        BY <2>1, <3>2 DEF Stripped, Dangerous
      <4> HIDE DEF kept, r
      <4> QED BY <2>1, <4>1 DEF GateOk
    <3> QED BY <3>1, <3>2
  <2>4. GateOk(r)
    BY <1>5, <2>2, <2>3 DEF GateAnswer
  <2>5. call' = [call EXCEPT ![c] = r]
    BY <1>5, GateMoves DEF Moved
  <2> HIDE DEF r
  <2> QED BY <2>4, <2>5
<1> QED BY <1>2, <1>3, <1>4, <1>5 DEF CallRuns

LEMMA GateStep == CallsSound /\ GateInv /\ [Next]_vars => GateInv'
<1> SUFFICES ASSUME CallsSound, GateInv, [Next]_vars PROVE GateInv'
  OBVIOUS
<1>1. call \in [Calls -> CallRecords]
  BY DEF CallsSound
<1>2. CASE Around
  BY <1>2 DEF Around, GateInv, Exit, Start, Tick, vars
<1>3. ASSUME NEW c \in Calls, Opens(c) PROVE GateInv'
  <2>1. PICK pair \in Pairs[c], r \in Requests, trusted \in BOOLEAN :
          Open(c, pair[1], pair[2], r, trusted)
    BY <1>3 DEF Opens
  <2>2. call' = [call EXCEPT ![c] = Opened(pair[1], pair[2], r, trusted)]
    BY <2>1 DEF Open, Opened
  <2> QED BY <1>1, <2>2, OpenedOk, GateKept
<1>4. ASSUME NEW c \in Calls, CallRuns(c) PROVE GateInv'
  BY <1>1, <1>4, RunsOk, GateKept
<1>5. ASSUME NEW c \in Calls, Return(c) PROVE GateInv'
  <2>1. GateOk(NoCall)
    BY DEF GateOk, NoCall
  <2> QED BY <1>1, <1>5, <2>1, GateKept DEF Return
<1> QED BY <1>2, <1>3, <1>4, <1>5, NextSplits

\* Nothing but an explicit Allow of that very call leaves a dangerous right on a critical
\* process in the handle of a process that is neither the client's, trusted nor the system's.
THEOREM CriticalInvariant == Spec => []CriticalNeedsAllow
<1>1. Init => GateInv
  <2> SUFFICES ASSUME Init, NEW c \in Calls PROVE GateOk(call[c])
    BY DEF GateInv
  <2>1. call[c].at = "idle"
    BY DEF Init, NoCall
  <2> QED BY <2>1 DEF GateOk
<1>2. Typed /\ GateInv /\ [Next]_vars => GateInv'
  BY GateStep DEF Typed
<1>3. GateInv => CriticalNeedsAllow
  BY DEF GateInv, GateOk, LetThrough, CriticalNeedsAllow, Done, Wanted
<1> QED BY <1>1, <1>2, <1>3, TypedInvariant, PTL DEF Spec

----------------------------------------------------------------------------
(* The verdict cache *)

\* A set of rights on a key has been let through; the clock read last when it was is at hand.
KeyOf(r) == <<PidOf[r.source], r.target>>
WantedOf(r) == Dangerous(r.kind, r.rights)
LetThroughFor(key, rights) == \A b \in rights : <<key[1], key[2], b>> \in granted
Backed(key, rights, time) == LetThroughFor(key, rights) /\ time <= lastGrant[key]

\* What is known of a call that records, and of one that the cache has answered.
CacheOk(r) ==
  /\ r.at = "recording" => Backed(KeyOf(r), WantedOf(r), r.stamp)
  /\ r.why = "cached" =>
       /\ r.at = "done" /\ LetThroughFor(KeyOf(r), WantedOf(r))
       /\ r.stamp - lastGrant[KeyOf(r)] <= TTL
History ==
  /\ lastGrant \in [Pids \X Procs -> -1..MaxTime]
  /\ \A k \in Pids \X Procs : lastGrant[k] <= now
SlotsBacked == \A s \in slots : Backed(<<s.source, s.target>>, s.rights, s.since)
CacheInv ==
  /\ History /\ SlotsBacked /\ OneSlotPerKey
  /\ \A c \in Calls : CacheOk(call[c])

\* The history only grows, so what it backs stays backed.
Grows ==
  /\ granted \subseteq granted'
  /\ lastGrant' \in [Pids \X Procs -> -1..MaxTime]
  /\ \A k \in Pids \X Procs : lastGrant[k] <= lastGrant'[k]

LEMMA BackedStays ==
  ASSUME History, Grows, NEW k \in Pids \X Procs, NEW rights, NEW time \in Int,
         Backed(k, rights, time)
  PROVE  Backed(k, rights, time)'
<1>1. lastGrant[k] \in Int /\ lastGrant'[k] \in Int /\ lastGrant[k] <= lastGrant'[k]
  BY CacheAssumption DEF History, Grows
<1> QED BY <1>1 DEF Backed, LetThroughFor, Grows

LEMMA CacheOkStays ==
  ASSUME History, Grows, NEW r \in CallRecords, KeyOf(r) \in Pids \X Procs, CacheOk(r)
  PROVE  CacheOk(r)'
<1>1. r.at = "recording" => Backed(KeyOf(r), WantedOf(r), r.stamp)'
  <2>1. r.stamp \in Int
    BY CacheAssumption DEF CallRecords
  <2> QED BY <2>1, BackedStays DEF CacheOk
<1>2. ASSUME r.why = "cached"
      PROVE  /\ r.at = "done" /\ LetThroughFor(KeyOf(r), WantedOf(r))'
             /\ r.stamp - lastGrant'[KeyOf(r)] <= TTL
  <2>1. /\ r.at = "done" /\ LetThroughFor(KeyOf(r), WantedOf(r))
        /\ r.stamp - lastGrant[KeyOf(r)] <= TTL
    BY <1>2 DEF CacheOk
  <2>2. /\ lastGrant[KeyOf(r)] \in Int /\ lastGrant'[KeyOf(r)] \in Int
        /\ lastGrant[KeyOf(r)] <= lastGrant'[KeyOf(r)] /\ r.stamp \in Int
    BY CacheAssumption DEF History, Grows, CallRecords
  <2>3. LetThroughFor(KeyOf(r), WantedOf(r))'
    BY <2>1 DEF LetThroughFor, Grows
  <2> HIDE DEF KeyOf, WantedOf
  <2> QED BY <2>1, <2>2, <2>3, CacheAssumption
<1> QED BY <1>1, <1>2 DEF CacheOk, KeyOf, WantedOf

LEMMA KeyTyped ==
  ASSUME CallsSound, NEW c \in Calls, call[c].at # "idle"
  PROVE  KeyOf(call[c]) \in Pids \X Procs
  BY DEF CallsSound, InProgress, KeyOf, Pids

\* A step that changes one call, as CacheOk allows, and leaves the slots.
LEMMA CallsOk ==
  ASSUME CallsSound, CacheInv, Grows, NEW c \in Calls, NEW r, CacheOk(r)',
         call' = [call EXCEPT ![c] = r]
  PROVE  \A d \in Calls : CacheOk(call[d])'
<1> SUFFICES ASSUME NEW d \in Calls PROVE CacheOk(call[d])'
  OBVIOUS
<1>1. CASE d = c
  BY <1>1 DEF CallsSound, CacheOk
<1>2. CASE d # c /\ call[d].at = "idle"
  <2>1. call'[d] = call[d] /\ call[d] = NoCall
    BY <1>2 DEF CallsSound
  <2> QED BY <2>1 DEF CacheOk, NoCall
<1>3. CASE d # c /\ call[d].at # "idle"
  <2>1. call'[d] = call[d] /\ call[d] \in CallRecords
    BY <1>3 DEF CallsSound
  <2> DEFINE q == call[d]
  <2>2. CacheOk(q) /\ History /\ KeyOf(q) \in Pids \X Procs
    BY <1>3, KeyTyped DEF CacheInv
  <2>3. \A u \in CallRecords : KeyOf(u) \in Pids \X Procs /\ CacheOk(u) => CacheOk(u)'
    BY <2>2, CacheOkStays
  <2> QED BY <2>1, <2>2, <2>3 DEF CacheOk
<1> QED BY <1>1, <1>2, <1>3

LEMMA Unmoved ==
  ASSUME CallsSound, History, UNCHANGED <<granted, lastGrant>>, now \in 0..MaxTime,
         now' \in 0..MaxTime, now <= now'
  PROVE  Grows /\ History'
<1> SUFFICES ASSUME NEW k \in Pids \X Procs
             PROVE  lastGrant[k] <= lastGrant'[k] /\ lastGrant'[k] <= now'
  BY DEF Grows, History
<1>1. lastGrant[k] \in Int /\ lastGrant[k] <= now
  BY CacheAssumption DEF History
<1> QED BY <1>1

LEMMA FewerSlots ==
  ASSUME CallsSound, SlotsFit, CacheInv, Grows, slots' \subseteq slots
  PROVE  SlotsBacked' /\ OneSlotPerKey'
<1>1. ASSUME NEW s \in slots' PROVE Backed(<<s.source, s.target>>, s.rights, s.since)'
  <2>1. s \in SlotRecords /\ Backed(<<s.source, s.target>>, s.rights, s.since)
    BY <1>1 DEF SlotsFit, CacheInv, SlotsBacked
  <2>2. <<s.source, s.target>> \in Pids \X Procs /\ s.since \in Int
    BY <2>1, CacheAssumption DEF SlotRecords
  <2> QED BY <2>1, <2>2, BackedStays DEF CacheInv
<1> QED BY <1>1 DEF SlotsBacked, OneSlotPerKey, CacheInv

\* A hit: the slot was recorded by a let-through of this key within the time to live.
LEMMA HitOk ==
  ASSUME CallsSound, SlotsFit, CacheInv, NEW c \in Calls, call[c].at = "looking",
         NEW s \in slots, Matches(s, c), ~Expired(s, call[c].stamp),
         Wanted(c) \subseteq s.rights
  PROVE  CacheOk(Hit(c))
<1> DEFINE k == KeyOf(call[c])
<1>1. call[c] \in CallRecords /\ k \in Pids \X Procs
  BY KeyTyped DEF CallsSound
<1>2. KeyOf(Hit(c)) = k /\ WantedOf(Hit(c)) = Wanted(c)
  BY <1>1 DEF Hit, KeyOf, WantedOf, Wanted, CallRecords
<1>3. /\ Hit(c).at = "done" /\ Hit(c).stamp = call[c].stamp
  BY <1>1 DEF Hit, CallRecords
<1>4. <<s.source, s.target>> = k
  BY DEF Matches, Key, KeyOf
<1>5. Backed(k, s.rights, s.since)
  BY <1>4 DEF CacheInv, SlotsBacked
<1>6. LetThroughFor(k, Wanted(c))
  BY <1>5 DEF Backed, LetThroughFor
<1>7. call[c].stamp - lastGrant[k] <= TTL
  <2>1. s.since \in Int /\ call[c].stamp \in Int /\ lastGrant[k] \in Int
    BY <1>1, CacheAssumption DEF SlotsFit, SlotRecords, CallRecords, CacheInv, History
  <2>2. call[c].stamp - s.since <= TTL /\ s.since <= lastGrant[k]
    BY <1>5, <2>1, CacheAssumption DEF Expired, Backed
  <2> QED BY <2>1, <2>2, CacheAssumption
<1> HIDE DEF k
<1> QED BY <1>2, <1>3, <1>6, <1>7 DEF CacheOk

LEMMA LookupCached ==
  ASSUME CallsSound, SlotsFit, CacheInv, NEW c \in Calls, Lookup(c)
  PROVE  CacheInv'
<1>1. Grows /\ History'
  BY Unmoved DEF Lookup, CallsSound, CacheInv
<1>2. SlotsBacked' /\ OneSlotPerKey'
  BY <1>1, FewerSlots DEF Lookup
<1>3. call[c] \in CallRecords /\ call[c].at = "looking" /\ CacheOk(call[c])
  BY DEF Lookup, CallsSound, CacheInv
<1> DEFINE fresh == {s \in slots : Matches(s, c) /\ ~Expired(s, call[c].stamp)}
           hit == \E s \in fresh : Wanted(c) \subseteq s.rights
<1>4. PICK r : /\ r = IF hit THEN Hit(c) ELSE At(c, "asking")
               /\ call' = [call EXCEPT ![c] = r]
  BY <1>3 DEF Lookup, Hit, At, CallsSound, CallRecords
<1>5. CacheOk(r)
  <2>1. CASE hit
    BY <1>3, <1>4, <2>1, HitOk
  <2>2. CASE ~hit
    BY <1>3, <1>4, <2>2 DEF At, CacheOk, CallRecords
  <2> QED BY <2>1, <2>2
<1>6. CacheOk(r)'
  BY <1>5 DEF Lookup, CacheOk, Backed, LetThroughFor
<1> QED BY <1>1, <1>2, <1>4, <1>6, CallsOk DEF CacheInv

\* The slots are at most those there were, and the call goes on as CacheOk allows.
LEMMA RecordCached ==
  ASSUME CallsSound, SlotsFit, CacheInv, NEW c \in Calls, Record(c)
  PROVE  CacheInv'
<1>1. Grows /\ History'
  BY Unmoved DEF Record, CallsSound, CacheInv
<1>2. call[c] \in CallRecords /\ call[c].at = "recording" /\ CacheOk(call[c])
  BY DEF Record, CallsSound, CacheInv
<1> DEFINE k == KeyOf(call[c])
<1>3. k \in Pids \X Procs /\ call[c].stamp \in Int /\ k = Key(c)
  BY <1>2, KeyTyped, CacheAssumption DEF CallRecords, KeyOf, Key
<1>4. Backed(k, Wanted(c), call[c].stamp)
  BY <1>2 DEF CacheOk, Wanted, WantedOf
<1>5. UNCHANGED <<granted, lastGrant>>
  BY DEF Record
<1>6. PICK r : r = At(c, "done") /\ call' = [call EXCEPT ![c] = r]
  BY <1>2 DEF Record, At, CallsSound, CallRecords
<1>7. CacheOk(r)'
  BY <1>2, <1>5, <1>6 DEF At, CacheOk, CallRecords
<1>8. ASSUME NEW s \in slots, Matches(s, c)
      PROVE  /\ Merged(s, c).source = s.source /\ Merged(s, c).target = s.target
             /\ Backed(k, Merged(s, c).rights, Merged(s, c).since)
  <2>1. s \in SlotRecords /\ Backed(<<s.source, s.target>>, s.rights, s.since)
    BY DEF SlotsFit, CacheInv, SlotsBacked
  <2>2. <<s.source, s.target>> = k
    BY <1>3, <1>8 DEF Matches
  <2>3. /\ Merged(s, c).source = s.source /\ Merged(s, c).target = s.target
        /\ Merged(s, c).rights = s.rights \cup Wanted(c)
        /\ Merged(s, c).since = call[c].stamp
    BY <2>1 DEF Merged, SlotRecords
  <2> HIDE DEF k
  <2> QED BY <1>4, <2>1, <2>2, <2>3 DEF Backed, LetThroughFor
<1>9. /\ <<Fresh(c).source, Fresh(c).target>> = k
      /\ Backed(k, Fresh(c).rights, Fresh(c).since)
  BY <1>4 DEF Fresh, KeyOf
<1>10. \A s \in slots' : Backed(<<s.source, s.target>>, s.rights, s.since)
  <2> SUFFICES ASSUME NEW s \in slots'
               PROVE  Backed(<<s.source, s.target>>, s.rights, s.since)
    OBVIOUS
  <2>1. \/ s \in slots \/ s = Fresh(c) \/ \E u \in MayMerge(c) : s = Merged(u, c)
    BY DEF Record
  <2>2. ASSUME NEW u \in MayMerge(c), s = Merged(u, c)
        PROVE  Backed(<<s.source, s.target>>, s.rights, s.since)
    <3>1. u \in slots /\ Matches(u, c)
      BY DEF MayMerge
    <3> QED BY <1>3, <1>8, <2>2, <3>1 DEF Matches
  <2> HIDE DEF k
  <2> QED BY <1>9, <2>1, <2>2 DEF CacheInv, SlotsBacked
<1>11. SlotsBacked'
  BY <1>5, <1>10 DEF SlotsBacked, Backed, LetThroughFor
<1>12. OneSlotPerKey'
  <2>1. CASE MayMerge(c) # {}
    <3>1. PICK u \in MayMerge(c) : slots' = (slots \ {u}) \cup {Merged(u, c)}
      BY <2>1 DEF Record
    <3>2. /\ u \in slots
          /\ Merged(u, c).source = u.source /\ Merged(u, c).target = u.target
      BY <1>8 DEF MayMerge
    <3> QED BY <3>1, <3>2 DEF OneSlotPerKey, CacheInv
  <2>2. CASE MayMerge(c) = {}
    <3>1. PICK S \in SUBSET slots : slots' = S \cup {Fresh(c)}
      BY <2>2 DEF Record
    <3>2. ASSUME NEW s \in slots
          PROVE  ~(s.source = Fresh(c).source /\ s.target = Fresh(c).target)
      BY <1>3, <1>9, <2>2 DEF MayMerge, Matches
    <3> QED BY <3>1, <3>2 DEF OneSlotPerKey, CacheInv
  <2> QED BY <2>1, <2>2
<1> QED BY <1>1, <1>6, <1>7, <1>11, <1>12, CallsOk DEF CacheInv

\* What the generic consultation lets through joins the history, with the clock of the answer.
LEMMA LetGoCached ==
  ASSUME CallsSound, SlotsFit, CacheInv, NEW c \in Calls, NEW a \in Answers,
         LetsThrough(a), Answer(c, a)
  PROVE  CacheInv'
<1>1. call[c] \in CallRecords /\ call[c].at = "asking" /\ CacheOk(call[c])
  BY DEF Answer, CallsSound, CacheInv
<1>2. PICK k : k = KeyOf(call[c])
  OBVIOUS
<1>3. k \in Pids \X Procs /\ k = Key(c) /\ now \in 0..MaxTime
  BY <1>1, <1>2, KeyTyped DEF KeyOf, Key, CallsSound
<1>4. /\ lastGrant' = [lastGrant EXCEPT ![k] = now] /\ now' = now /\ slots' = slots
      /\ granted' = granted \cup {<<k[1], k[2], b>> : b \in Wanted(c)}
  BY <1>3 DEF Answer
<1>5. Grows /\ History'
  <2>1. lastGrant' \in [Pids \X Procs -> -1..MaxTime]
    BY <1>3, <1>4, CacheAssumption DEF CacheInv, History
  <2>2. ASSUME NEW m \in Pids \X Procs
        PROVE  lastGrant[m] <= lastGrant'[m] /\ lastGrant'[m] <= now'
    <3>1. lastGrant[m] \in Int /\ lastGrant[m] <= now
      BY CacheAssumption DEF CacheInv, History
    <3>2. lastGrant'[m] = IF m = k THEN now ELSE lastGrant[m]
      BY <1>4 DEF CacheInv, History
    <3> QED BY <1>3, <1>4, <3>1, <3>2
  <2> QED BY <1>4, <2>1, <2>2 DEF Grows, History
<1>6. SlotsBacked' /\ OneSlotPerKey'
  BY <1>4, <1>5, FewerSlots
<1>7. PICK r : r = LetGo(c, a) /\ call' = [call EXCEPT ![c] = r]
  BY <1>1 DEF Answer, LetGo, CallsSound, CallRecords
<1>8. /\ KeyOf(r) = k /\ WantedOf(r) = Wanted(c) /\ r.stamp = now /\ r.at = "recording"
      /\ r.why # "cached"
  BY <1>1, <1>2, <1>7 DEF LetGo, KeyOf, WantedOf, Wanted, CallRecords, CacheOk
<1>9. LetThroughFor(KeyOf(r), WantedOf(r))' /\ r.stamp <= lastGrant'[KeyOf(r)]
  <2>1. lastGrant'[k] = now
    BY <1>3, <1>4 DEF CacheInv, History
  <2>2. \A b \in WantedOf(r) : <<k[1], k[2], b>> \in granted'
    BY <1>4, <1>8
  <2> QED BY <1>3, <1>8, <2>1, <2>2 DEF LetThroughFor, KeyOf, WantedOf
<1>10. CacheOk(r)'
  BY <1>8, <1>9 DEF CacheOk, Backed, KeyOf, WantedOf
<1> QED BY <1>5, <1>6, <1>7, <1>10, CallsOk DEF CacheInv

\* The steps of a call that neither touch the cache nor go to it.
LEMMA OffCached ==
  ASSUME CallsSound, SlotsFit, CacheInv, NEW c \in Calls, NEW r,
         r.at # "recording", r.why # "cached", call' = [call EXCEPT ![c] = r],
         UNCHANGED <<now, slots, granted, lastGrant>>
  PROVE  CacheInv'
<1>1. Grows /\ History'
  BY Unmoved DEF CallsSound, CacheInv
<1>2. SlotsBacked' /\ OneSlotPerKey'
  BY <1>1, FewerSlots
<1>3. CacheOk(r)'
  BY DEF CacheOk
<1> QED BY <1>1, <1>2, <1>3, CallsOk DEF CacheInv

LEMMA RunsCached ==
  ASSUME CallsSound, SlotsFit, CacheInv, NEW c \in Calls, CallRuns(c)
  PROVE  CacheInv'
<1>1. call[c] \in CallRecords /\ CacheOk(call[c])
  BY DEF CallsSound, CacheInv
<1>2. CASE Lookup(c) \/ Record(c)
  BY <1>2, LookupCached, RecordCached
<1>3. CASE KillActor(c)
  <2>1. /\ At(c, "done").at # "recording" /\ At(c, "done").why # "cached"
        /\ call' = [call EXCEPT ![c] = At(c, "done")]
        /\ UNCHANGED <<now, slots, granted, lastGrant>>
    BY <1>1, <1>3 DEF KillActor, At, CacheOk, CallRecords, CallsSound
  <2> QED BY <2>1, OffCached
<1>4. ASSUME NEW a \in Answers, Answer(c, a) PROVE CacheInv'
  <2>1. CASE LetsThrough(a)
    BY <1>4, <2>1, LetGoCached
  <2>2. CASE ~LetsThrough(a)
    <3> DEFINE kept == call[c].kept \ ThreatMask(call[c].kind, call[c].rights)
               r == Answered(c, "done", a, kept)
    <3>1. r.at # "recording" /\ r.why # "cached"
      BY <1>1, <1>4 DEF Answer, Answered, CacheOk, CallRecords
    <3>2. /\ call' = [call EXCEPT ![c] = r]
          /\ UNCHANGED <<now, slots, granted, lastGrant>>
      BY <1>1, <1>4, <2>2 DEF Answer, Answered, CallRecords, CallsSound
    <3> HIDE DEF r
    <3> QED BY <3>1, <3>2, OffCached
  <2> QED BY <2>1, <2>2
<1>5. ASSUME NEW a \in Answers, GateAnswer(c, a) PROVE CacheInv'
  <2> DEFINE kept == IF Keeps(a) THEN call[c].kept ELSE call[c].kept \ Stripped(c)
             place == IF a = "kill" THEN "killing" ELSE "done"
             r == Answered(c, place, a, kept)
  <2>1. r.at # "recording" /\ r.why # "cached"
    BY <1>1, <1>5 DEF GateAnswer, Answered, CacheOk, CallRecords
  <2>2. /\ call' = [call EXCEPT ![c] = r]
        /\ UNCHANGED <<now, slots, granted, lastGrant>>
    BY <1>5, GateMoves DEF Moved, GateAnswer
  <2> HIDE DEF r
  <2> QED BY <2>1, <2>2, OffCached
<1> QED BY <1>2, <1>3, <1>4, <1>5 DEF CallRuns

LEMMA CacheStep == CallsSound /\ SlotsFit /\ CacheInv /\ [Next]_vars => CacheInv'
<1> SUFFICES ASSUME CallsSound, SlotsFit, CacheInv, [Next]_vars PROVE CacheInv'
  OBVIOUS
<1>1. CASE Around
  <2>1. UNCHANGED <<slots, call, granted, lastGrant>> /\ now' \in 0..MaxTime /\ now <= now'
    BY <1>1, CacheAssumption DEF Around, CallsSound, Exit, Start, Tick, vars
  <2>2. Grows /\ History'
    BY <2>1, Unmoved DEF CallsSound, CacheInv
  <2>3. SlotsBacked' /\ OneSlotPerKey'
    BY <2>1, <2>2, FewerSlots
  <2>4. \A c \in Calls : CacheOk(call[c])'
    BY <2>1 DEF CacheInv, CacheOk, Backed, LetThroughFor
  <2> QED BY <2>2, <2>3, <2>4 DEF CacheInv
<1>2. ASSUME NEW c \in Calls, Opens(c) PROVE CacheInv'
  <2>1. PICK pair \in Pairs[c], r \in Requests, trusted \in BOOLEAN :
          Open(c, pair[1], pair[2], r, trusted)
    BY <1>2 DEF Opens
  <2> DEFINE o == Opened(pair[1], pair[2], r, trusted)
  <2>2. WhyPasses(pair[1], pair[2], r.kind, r.rights, trusted) # "cached"
    BY DEF WhyPasses
  <2>3. NextStep(pair[2], r.kind, r.rights) # "recording"
    BY DEF NextStep
  <2>4. o.at # "recording" /\ o.why # "cached"
    BY <2>2, <2>3 DEF Opened
  <2>5. call' = [call EXCEPT ![c] = o] /\ UNCHANGED <<now, slots, granted, lastGrant>>
    BY <2>1 DEF Open, Opened
  <2> HIDE DEF o
  <2> QED BY <2>4, <2>5, OffCached
<1>3. ASSUME NEW c \in Calls, CallRuns(c) PROVE CacheInv'
  BY <1>3, RunsCached
<1>4. ASSUME NEW c \in Calls, Return(c) PROVE CacheInv'
  <2>1. NoCall.at # "recording" /\ NoCall.why # "cached"
    BY DEF NoCall
  <2> QED BY <1>4, <2>1, OffCached DEF Return
<1> QED BY <1>1, <1>2, <1>3, <1>4, NextSplits

LEMMA CacheInit == Init => CacheInv
<1> SUFFICES ASSUME Init PROVE CacheInv
  OBVIOUS
<1>1. \A c \in Calls : CacheOk(call[c])
  BY DEF Init, NoCall, CacheOk
<1>2. History
  BY CacheAssumption DEF Init, History
<1> QED BY <1>1, <1>2 DEF Init, CacheInv, SlotsBacked, OneSlotPerKey

\* A cached verdict answers only for the key whose consultations let each right through, the
\* last of them within the time to live, and no key ever has two slots.
THEOREM CacheInvariant == Spec => []CacheSound
<1>1. Typed /\ CacheInv /\ [Next]_vars => CacheInv'
  BY CacheStep DEF Typed
<1>2. CacheInv => CacheSound
  BY DEF CacheInv, CacheOk, LetThroughFor, KeyOf, WantedOf, CacheSound, CacheHitJustified,
         Done, Key, Wanted
<1> QED BY <1>1, <1>2, CacheInit, TypedInvariant, PTL DEF Spec
=============================================================================
