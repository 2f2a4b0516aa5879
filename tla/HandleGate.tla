------------------------------ MODULE HandleGate ------------------------------
(***************************************************************************)
(* The handle gate (InjectionProtect.c): every open or duplication of a    *)
(* process or thread handle runs InjectionPreOperation, which may ask the  *)
(* client and may strip rights.  A let-through answer is cached under the  *)
(* source's process id and the target process (its id and creation time).  *)
(*                                                                         *)
(* A call is a sequence of steps: the tests before the first lock, the two *)
(* sections under the cache lock, whose clock is read before the lock is   *)
(* taken, and the consultation, of which only the answer matters here      *)
(* (EventBridge models the wait).                                          *)
(***************************************************************************)
EXTENDS Integers, FiniteSets

CONSTANTS
  Procs,        \* processes, one for each creation time
  PidOf,        \* their process ids, which the system reuses
  Existing,     \* those running at the start
  Calls,        \* handle opens that may be in progress at once
  Pairs,        \* who may open whom in each of them: source and target
  Requests,     \* the requests they make: [kind, rights]
  ClientPid,    \* the registered client, ClientProcessId
  Guarded,      \* what SelfProtectIsProcessProtected holds of
  Critical,     \* processes named in InjectionCriticalProcesses
  KnownActors,  \* processes InjectionIsKnownSystemActor holds of
  Excluded,     \* processes on the initiator exclusion list, HANDLE scope
  Signed,       \* processes code integrity may know to be trusted
  MaxSlots,     \* XDOWS_INJECTION_VERDICT_SLOTS
  TTL,          \* XDOWS_INJECTION_VERDICT_TTL_100NS
  MaxTime,      \* bound: the clock's last value
  NoProc

\* Rights are bit numbers of the access mask.
Terminate == 0
ProcessPrimary == {1, 5}      \* PROCESS_CREATE_THREAD, PROCESS_VM_WRITE
ProcessConditional == {3, 11} \* PROCESS_VM_OPERATION, PROCESS_SUSPEND_RESUME
ProcessTrigger == {5}
ThreadPrimary == {4}          \* THREAD_SET_CONTEXT
ThreadConditional == {1}      \* THREAD_SUSPEND_RESUME
ThreadTrigger == {4}

ASSUME ProcsAssumption ==
  /\ Existing \subseteq Procs /\ NoProc \notin Procs
  /\ \A p, q \in Existing : PidOf[p] = PidOf[q] => p = q
ASSUME RequestsAssumption ==
  Requests \subseteq [kind : {"process", "thread"}, rights : SUBSET (0..31)]
ASSUME PairsAssumption == Pairs \in [Calls -> SUBSET (Procs \X Procs)]
ASSUME CacheAssumption == MaxSlots \in Nat \ {0} /\ TTL \in Nat /\ MaxTime \in Nat

Pids == {PidOf[p] : p \in Procs}

VARIABLES
  running,  \* processes that have not exited
  started,  \* processes that have started
  now,      \* system time
  slots,    \* the InUse verdict slots
  call,     \* each handle open in progress
  granted,  \* history: what consultations have let through, by source id, target and right
  lastGrant \* history: when one was last recorded, by source id and target

vars == <<running, started, now, slots, call, granted, lastGrant>>

NoCall == [at |-> "idle", source |-> NoProc, target |-> NoProc, kind |-> "process",
           rights |-> {}, kept |-> {}, stamp |-> 0, answer |-> "none", why |-> "none"]

Init ==
  /\ running = Existing /\ started = Existing
  /\ now = 0
  /\ slots = {}
  /\ call = [c \in Calls |-> NoCall]
  /\ granted = {} /\ lastGrant = [k \in Pids \X Procs |-> -1]

----------------------------------------------------------------------------
(* InjectionComputeThreatMask; conditional rights count with their trigger only. *)

Mask(primary, conditional, trigger, rights) ==
  primary \cup IF rights \cap conditional # {} /\ rights \cap trigger # {}
               THEN conditional ELSE {}
ThreatMask(kind, rights) ==
  IF kind = "process" THEN Mask(ProcessPrimary, ProcessConditional, ProcessTrigger, rights)
  ELSE Mask(ThreadPrimary, ThreadConditional, ThreadTrigger, rights)
Dangerous(kind, rights) == rights \cap ThreatMask(kind, rights)

\* The tests of InjectionPreOperation, in their order: the first that holds decides.
FastExit(p, q, kind, rights) ==
  PidOf[p] = PidOf[q] \/ PidOf[p] = ClientPid \/ Dangerous(kind, rights) = {}
TerminateGate(q, kind, rights) == kind = "process" /\ Terminate \in rights /\ q \in Guarded
CriticalGate(q, kind) == kind = "process" /\ q \in Critical
ExcludedActor(p) == p \in Excluded

WhyPasses(p, q, kind, rights, trusted) ==
  IF FastExit(p, q, kind, rights) THEN "fast"
  ELSE IF TerminateGate(q, kind, rights) THEN "no"
  ELSE IF trusted THEN "trusted"
  ELSE IF p \in KnownActors THEN "known"
  ELSE IF CriticalGate(q, kind) THEN "no"
  ELSE IF ExcludedActor(p) THEN "excluded"
  ELSE "no"
NextStep(q, kind, rights) ==
  IF TerminateGate(q, kind, rights) THEN "asking for terminate"
  ELSE IF CriticalGate(q, kind) THEN "asking for critical"
  ELSE "looking"

\* A thread of a running process opens a handle to another, which it holds referenced.
Open(c, p, q, r, trusted) ==
  /\ call[c] = NoCall
  /\ {p, q} \subseteq running
  /\ trusted => p \in Signed
  /\ LET why == WhyPasses(p, q, r.kind, r.rights, trusted)
         step == IF why = "no" THEN NextStep(q, r.kind, r.rights) ELSE "done"
     IN call' = [call EXCEPT ![c] =
          [at |-> step, source |-> p, target |-> q, kind |-> r.kind, rights |-> r.rights,
           kept |-> r.rights, stamp |-> IF step = "looking" THEN now ELSE 0,
           answer |-> "none", why |-> why]]
  /\ UNCHANGED <<running, started, now, slots, granted, lastGrant>>

----------------------------------------------------------------------------
(* The verdict cache *)

Key(c) == <<PidOf[call[c].source], call[c].target>>
Wanted(c) == Dangerous(call[c].kind, call[c].rights)

MatchesMutAnyIncarnation(s, c) ==
  s.source = PidOf[call[c].source] /\ PidOf[s.target] = PidOf[call[c].target]
Matches(s, c) == <<s.source, s.target>> = Key(c)

Expired(s, time) == time - s.since > TTL

\* InjectionLookupVerdict drops the expired slot it meets.
Lookup(c) ==
  /\ call[c].at = "looking"
  /\ LET found == {s \in slots : Matches(s, c)}
         stale == {s \in found : Expired(s, call[c].stamp)}
         hit == \E s \in found \ stale : Wanted(c) \subseteq s.rights
     IN /\ slots' = slots \ stale
        /\ call' = [call EXCEPT ![c].at = IF hit THEN "done" ELSE "asking",
                                ![c].why = IF hit THEN "cached" ELSE @]
  /\ UNCHANGED <<running, started, now, granted, lastGrant>>

\* InjectionRecordVerdict: merge into the slot of the key, or take a free slot, or the oldest.
Oldest == {s \in slots : \A u \in slots : s.since <= u.since}
Merged(s, c) == [s EXCEPT !.rights = @ \cup Wanted(c), !.since = call[c].stamp]
Fresh(c) == [source |-> PidOf[call[c].source], target |-> call[c].target,
             rights |-> Wanted(c), since |-> call[c].stamp]
MayMergeMutNever(c) == {}
MayMerge(c) == {s \in slots : Matches(s, c)}
HasFreeMutOneMore == Cardinality(slots) <= MaxSlots
HasFree == Cardinality(slots) < MaxSlots
Record(c) ==
  /\ call[c].at = "recording"
  /\ IF MayMerge(c) # {}
     THEN \E s \in MayMerge(c) : slots' = (slots \ {s}) \cup {Merged(s, c)}
     ELSE IF HasFree THEN slots' = slots \cup {Fresh(c)}
     ELSE \E s \in Oldest : slots' = (slots \ {s}) \cup {Fresh(c)}
  /\ call' = [call EXCEPT ![c].at = "done"]
  /\ UNCHANGED <<running, started, now, granted, lastGrant>>

----------------------------------------------------------------------------
(* The consultation: "kill" is a Block that asks for the counter-kill, "nobody" a bridge *)
(* failure or a time-out.                                                                *)

Answers == {"allow", "block", "kill", "nobody"}
LetsThrough(a) == a \in {"allow", "nobody"}

\* The generic consultation fails open and records what it lets through.
Answer(c, a) ==
  /\ call[c].at = "asking"
  /\ IF LetsThrough(a)
     THEN /\ call' = [call EXCEPT ![c].at = "recording", ![c].stamp = now, ![c].answer = a]
          /\ granted' = granted \cup {<<Key(c)[1], Key(c)[2], r>> : r \in Wanted(c)}
          /\ lastGrant' = [lastGrant EXCEPT ![Key(c)] = now]
     ELSE /\ call' = [call EXCEPT ![c].at = "done", ![c].answer = a,
                        ![c].kept = @ \ ThreatMask(call[c].kind, call[c].rights)]
          /\ UNCHANGED <<granted, lastGrant>>
  /\ UNCHANGED <<running, started, now, slots>>

\* The two gates strip unless the answer is an explicit Allow, and may kill the actor.
Stripped(c) ==
  IF call[c].at = "asking for terminate" THEN {Terminate}
  ELSE ThreatMask(call[c].kind, call[c].rights)
KeepsMutFailsOpen(a) == LetsThrough(a)
Keeps(a) == a = "allow"
GateAnswer(c, a) ==
  /\ call[c].at \in {"asking for terminate", "asking for critical"}
  /\ call' = [call EXCEPT ![c].at = IF a = "kill" THEN "killing" ELSE "done", ![c].answer = a,
                          ![c].kept = IF Keeps(a) THEN @ ELSE @ \ Stripped(c)]
  /\ UNCHANGED <<running, started, now, slots, granted, lastGrant>>

\* InjectionKillActor, on the process id of the caller.
MayKill(p) == PidOf[p] # ClientPid /\ p \notin Guarded /\ p \notin Critical
KillActor(c) ==
  /\ call[c].at = "killing"
  /\ running' = IF MayKill(call[c].source) THEN running \ {call[c].source} ELSE running
  /\ call' = [call EXCEPT ![c].at = "done"]
  /\ UNCHANGED <<started, now, slots, granted, lastGrant>>

Return(c) ==
  /\ call[c].at = "done"
  /\ call' = [call EXCEPT ![c] = NoCall]
  /\ UNCHANGED <<running, started, now, slots, granted, lastGrant>>

----------------------------------------------------------------------------
(* The system *)

\* A process exits once none of its threads is inside a call.
Exit(p) ==
  /\ p \in running
  /\ \A c \in Calls : call[c].source # p
  /\ running' = running \ {p}
  /\ UNCHANGED <<started, now, slots, call, granted, lastGrant>>

\* A process id is free for a new process when nothing refers to its last process.
Start(p) ==
  /\ p \notin started
  /\ \A q \in running : PidOf[q] # PidOf[p]
  /\ \A c \in Calls : call[c] # NoCall =>
       PidOf[call[c].source] # PidOf[p] /\ PidOf[call[c].target] # PidOf[p]
  /\ running' = running \cup {p} /\ started' = started \cup {p}
  /\ UNCHANGED <<now, slots, call, granted, lastGrant>>

Tick ==
  /\ now < MaxTime
  /\ now' = now + 1
  /\ UNCHANGED <<running, started, slots, call, granted, lastGrant>>

Next ==
  \/ \E c \in Calls :
       \/ \E pair \in Pairs[c], r \in Requests, trusted \in BOOLEAN :
            Open(c, pair[1], pair[2], r, trusted)
       \/ Lookup(c) \/ Record(c) \/ KillActor(c) \/ Return(c)
       \/ \E a \in Answers : Answer(c, a) \/ GateAnswer(c, a)
  \/ \E p \in Procs : Exit(p) \/ Start(p)
  \/ Tick

Spec == Init /\ [][Next]_vars

----------------------------------------------------------------------------
(* Properties *)

Done(c) == call[c].at = "done"

\* Every variable has the type of the structure it stands for, and the cache fits its array.
TypeOK ==
  /\ running \subseteq started /\ started \subseteq Procs /\ now \in 0..MaxTime
  /\ slots \subseteq [source : Pids, target : Procs, rights : SUBSET (0..31), since : 0..MaxTime]
  /\ Cardinality(slots) <= MaxSlots
  /\ \A c \in Calls : call[c] # NoCall =>
       /\ [kind |-> call[c].kind, rights |-> call[c].rights] \in Requests
       /\ call[c].kept \subseteq call[c].rights /\ call[c].stamp <= now

\* A cached verdict lets a request through only if consultations about that very target
\* process, asked by the same process id, have let each of its dangerous rights through,
\* the last of them within the time to live: a recycled target id, an expired or a
\* replaced slot never answers for another.  (Rights are compared as bits, as the cache
\* compares them.)
CacheHitJustified ==
  \A c \in Calls : Done(c) /\ call[c].why = "cached" =>
    /\ \A r \in Wanted(c) : <<Key(c)[1], Key(c)[2], r>> \in granted
    /\ call[c].stamp - lastGrant[Key(c)] <= TTL

\* Concurrent calls never leave two slots for one source and target: the first of them would
\* hide the merges into the other.
OneSlotPerKey ==
  \A s, u \in slots : s.source = u.source /\ s.target = u.target => s = u

\* The cache of several concurrent calls and one array answers only for itself.
CacheSound == CacheHitJustified /\ OneSlotPerKey

\* A dangerous right on a critical system process, in a process handle, survives only an
\* explicit Allow of that very call, unless the actor is the client, trusted or a system
\* process: neither a time-out, nor a cached verdict, nor an exclusion lets it through.
CriticalNeedsAllow ==
  \A c \in Calls :
    Done(c) /\ CriticalGate(call[c].target, call[c].kind) /\ call[c].kept \cap Wanted(c) # {} =>
      \/ call[c].answer = "allow"
      \/ call[c].why \in {"fast", "trusted", "known"}
      \/ TerminateGate(call[c].target, call[c].kind, call[c].rights)

\* A process handle on the protected process keeps PROCESS_TERMINATE only by an explicit
\* Allow, or if its owner is the protected process or the client.
TerminateNeedsAllow ==
  \A c \in Calls :
    Done(c) /\ TerminateGate(call[c].target, call[c].kind, call[c].kept) =>
      \/ call[c].answer = "allow"
      \/ call[c].source = call[c].target \/ PidOf[call[c].source] = ClientPid
=============================================================================
