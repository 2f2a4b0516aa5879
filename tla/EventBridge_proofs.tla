--------------------------- MODULE EventBridge_proofs ---------------------------
(***************************************************************************)
(* Proofs about EventBridge for every set of calls, clients and verdicts   *)
(* and every bound.  The inductive invariant is StructureInv (typing, and  *)
(* the pending list against the flags and the memory of its entries) with  *)
(* VerdictInv (which verdict a signalled event or a leaving waiter may     *)
(* carry) and ReviewInv (deliveries, and what a reset may throw away).     *)
(* CriticalFirst is inductive by itself; StandsInv, OwnedInv and WakeInv   *)
(* strengthen three more properties, each with an induction of its own.    *)
(***************************************************************************)
EXTENDS EventBridge, LibraryLemmas, TLAPS

----------------------------------------------------------------------------
(* Type correctness. *)

\* No control request writes the state of a waiting call, nor the Async flag of an entry.
LEMMA ThreadFrame == ASSUME NEW t \in Threads, ThreadStep(t) PROVE UNCHANGED <<callVars, async>>
  BY ZenonT(30) DEF ThreadStep, StartPoll, ScanDelivers, ScanFindsNothing, EnterWait,
       PollExpires,
       DrainOne, DrainDone, Deliver, Submit, Register, StartDisconnect, ProcessExit, Clear,
       WakePollers, SweepAsync, SweepAnswer, SweepSignal, SweepDone, callVars, entryVars

\* No step of QueueEventAndWait writes the session, the clients' requests, or what a client
\* writes into an entry.
LEMMA CallFrame ==
  ASSUME NEW c \in Calls, CallStep(c)
  PROVE  UNCHANGED <<session, localList, current, taken, worldVars, delivered, userPending, final,
                     decision>>
  BY DEF CallStep, RaisedIrql, ArriveDropped, ArriveThrottled, ArriveDisconnected, ArriveFull,
       ArriveAdmitted, AllocationFails, Prepare, Insert, InsertRefused, Wake, ResetDecisionEvent,
       WaitExpires, Leave, bridgeVars, entryVars, threadVars

\* Every step keeps the types of the calls' own variables.
LEMMA CallTypedStep ==
  ASSUME CallTyped, EntryTyped, [Next]_vars
  PROVE  CallTyped'
<1> USE DEF Return, GoTo, CallPcs, Statuses, Decisions, callVars, CallTyped
<1>1. ASSUME NEW c \in Calls, CallStep(c)
      PROVE  CallTyped'
  <2>1. CASE RaisedIrql(c)  BY <2>1 DEF RaisedIrql
  <2>2. CASE ArriveThrottled(c)  BY <2>2 DEF ArriveThrottled, ArriveDropped
  <2>3. ASSUME NEW expired \in BOOLEAN,
               ArriveDisconnected(c, expired) \/ ArriveFull(c, expired)
        PROVE  CallTyped'
    BY <2>3 DEF ArriveDisconnected, ArriveFull, ArriveDropped
  <2>4. ASSUME NEW expired \in BOOLEAN, ArriveAdmitted(c, expired)
        PROVE  CallTyped'
    BY <2>4 DEF ArriveAdmitted
  <2>5. CASE AllocationFails(c) \/ Prepare(c)  BY <2>5 DEF AllocationFails, Prepare
  <2>6. CASE Insert(c) \/ InsertRefused(c)  BY <2>6 DEF Insert, InsertRefused
  <2>7. CASE Wake(c)  BY <2>7 DEF Wake, EntryTyped
  <2>8. CASE ResetDecisionEvent(c) \/ WaitExpires(c)
    BY <2>8 DEF ResetDecisionEvent, WaitExpires
  <2>9. CASE Leave(c)
    <3>1. Outcome(c) \in Decisions  BY DEF Outcome
    <3> QED BY <2>9, <3>1 DEF Leave
  <2> QED BY <1>1, <2>1, <2>2, <2>3, <2>4, <2>5, <2>6, <2>7, <2>8, <2>9 DEF CallStep
<1>2. ASSUME NEW t \in Threads, ThreadStep(t)
      PROVE  CallTyped'
  BY <1>2, ThreadFrame
<1>3. CASE Shutdown \/ UNCHANGED vars
  BY <1>3 DEF Shutdown, vars
<1> QED BY <1>1, <1>2, <1>3 DEF Next, Stopped

\* Handing an entry to a client keeps the types.
LEMMA DeliverTyped ==
  ASSUME StructureInv, NEW t \in Threads, Deliver(t)
  PROVE  BridgeTyped' /\ EntryTyped' /\ WorldTyped'
<1> /\ BridgeTyped /\ EntryTyped /\ WorldTyped /\ QueueSound
  BY DEF StructureInv, TypeOK
<1>1. PICK i \in 1..Len(queue) : HandOver(t, i) /\ queue[i] \in Calls
  BY DEF BridgeTyped, Deliver
<1>2. (/\ delivered \in [Calls -> BOOLEAN] /\ linked \in [Calls -> BOOLEAN]
       /\ memory \in [Calls -> {"none", "live", "freed"}])'
  BY <1>1 DEF EntryTyped, HandOver
<1>3. Append(readers[queue[i]], t) \in Seq(Threads)
  BY <1>1 DEF WorldTyped
<1>4. (readers \in [Calls -> Seq(Threads)])'
  BY <1>1, <1>3 DEF WorldTyped, HandOver
<1>5. (queue \in Seq(Calls) /\ count \in 0..MaxPending)'
  <2>1. RemoveAt(queue, i) \in Seq(Calls) /\ count - 1 \in 0..MaxPending
    BY <1>1, RemoveAtIsSeq, BoundAssumption DEF BridgeTyped, QueueSound, IsRemoval
  <2> QED BY <1>1, <2>1 DEF HandOver, BridgeTyped
<1>6. EntryTyped'  BY <1>2 DEF EntryTyped, Deliver
<1>7. WorldTyped'  BY <1>4 DEF WorldTyped, Deliver
<1>8. BridgeTyped'  BY <1>5 DEF BridgeTyped, Deliver
<1> QED BY <1>6, <1>7, <1>8

\* Every step keeps the types of the entries.
LEMMA EntryTypedStep ==
  ASSUME StructureInv, VerdictInv, [Next]_vars
  PROVE  EntryTyped'
<1> EntryTyped /\ BridgeTyped
  BY DEF StructureInv, TypeOK
<1> USE DEF EntryTyped, entryVars
<1>1. ASSUME NEW c \in Calls, CallStep(c)
      PROVE  EntryTyped'
  <2>1. CASE Prepare(c)
    <3>1. ReviewedAsync(c) \in BOOLEAN  BY DEF ReviewedAsync, BridgeTyped
    <3> QED BY <2>1, <3>1 DEF Prepare
  <2>2. CASE Insert(c) \/ InsertRefused(c)  BY <2>2 DEF Insert, InsertRefused
  <2>3. CASE ResetDecisionEvent(c)  BY <2>3 DEF ResetDecisionEvent
  <2>4. CASE Leave(c)  BY <2>4 DEF Leave
  <2>5. CASE UNCHANGED entryVars  BY <2>5
  <2>6. \/ Prepare(c) \/ Insert(c) \/ InsertRefused(c) \/ ResetDecisionEvent(c) \/ Leave(c)
        \/ UNCHANGED entryVars
    BY <1>1 DEF CallStep, RaisedIrql, ArriveThrottled, ArriveDisconnected, ArriveFull,
         ArriveDropped, ArriveAdmitted, AllocationFails, Wake, WaitExpires
  <2> QED BY <2>1, <2>2, <2>3, <2>4, <2>5, <2>6
<1>2. ASSUME NEW t \in Threads, ThreadStep(t)
      PROVE  EntryTyped'
  <2>1. CASE ScanDelivers(t) \/ DrainOne(t)
    BY <2>1, DeliverTyped DEF ScanDelivers, DrainOne
  <2>2. ASSUME NEW c \in Calls, NEW d \in Verdicts, Submit(t, c, d)
        PROVE  EntryTyped'
    <3>1. CASE d = "pending"  BY <2>2, <3>1, VerdictAssumption DEF Submit, Decisions
    <3>2. CASE d # "pending"  BY <2>2, <3>2, VerdictAssumption DEF Submit, Decisions
    <3> QED BY <3>1, <3>2
  <2>3. CASE Clear(t)  BY <2>3 DEF Clear
  <2>4. CASE SweepAsync(t)  BY <2>4 DEF SweepAsync
  <2>5. CASE SweepAnswer(t)  BY <2>5 DEF SweepAnswer, Touch, Decisions
  <2>6. CASE SweepSignal(t)
    <3>1. current[t] \in Calls  BY <2>6 DEF SweepSignal, VerdictInv
    <3>2. CASE memory[current[t]] = "freed"  BY <2>6, <3>2 DEF SweepSignal, Touch
    <3>3. CASE memory[current[t]] # "freed"  BY <2>6, <3>1, <3>3 DEF SweepSignal, Touch
    <3> QED BY <3>2, <3>3
  <2>7. CASE UNCHANGED entryVars  BY <2>7
  <2>8. \/ ScanDelivers(t) \/ DrainOne(t) \/ (\E c \in Calls, d \in Verdicts : Submit(t, c, d))
        \/ Clear(t) \/ SweepAsync(t) \/ SweepAnswer(t) \/ SweepSignal(t) \/ UNCHANGED entryVars
    BY ZenonT(30), <1>2 DEF ThreadStep, StartPoll, ScanFindsNothing, EnterWait, PollExpires,
         DrainDone,
         Register, StartDisconnect, ProcessExit, WakePollers, SweepDone
  <2> QED BY <2>1, <2>2, <2>3, <2>4, <2>5, <2>6, <2>7, <2>8
<1>3. CASE Shutdown  BY <1>3 DEF Shutdown, Decisions
<1>4. CASE UNCHANGED vars  BY <1>4 DEF vars
<1> QED BY <1>1, <1>2, <1>3, <1>4 DEF Next, Stopped

\* Every step keeps the types of the clients' requests.
LEMMA ThreadTypedStep ==
  ASSUME StructureInv, [Next]_vars
  PROVE  ThreadTyped'
<1> ThreadTyped /\ BridgeTyped
  BY DEF StructureInv, TypeOK
<1> USE DEF ThreadTyped, threadVars
<1>1. ASSUME NEW c \in Calls, CallStep(c)
      PROVE  ThreadTyped'
  <2>1. CASE Insert(c)
    BY <2>1 DEF Insert, SignalAvailable, Blocked, ThreadPcs
  <2>2. CASE UNCHANGED threadVars  BY <2>2
  <2>3. Insert(c) \/ UNCHANGED threadVars
    BY <1>1 DEF CallStep, RaisedIrql, ArriveThrottled, ArriveDisconnected, ArriveFull,
         ArriveDropped, ArriveAdmitted, AllocationFails, Prepare, InsertRefused, Wake,
         ResetDecisionEvent, WaitExpires, Leave
  <2> QED BY <2>1, <2>2, <2>3
<1>2. ASSUME NEW t \in Threads, ThreadStep(t)
      PROVE  ThreadTyped'
  <2> USE DEF Move, ThreadPcs
  <2>1. CASE StartPoll(t) \/ ScanDelivers(t) \/ ScanFindsNothing(t)
    BY <2>1 DEF StartPoll, ScanDelivers, ScanFindsNothing, Deliver
  <2>2. CASE EnterWait(t) \/ PollExpires(t)
    BY <2>2 DEF EnterWait, PollExpires
  <2>3. CASE DrainOne(t)
    BY <2>3, BoundAssumption DEF DrainOne, Deliver
  <2>4. CASE DrainDone(t)
    BY <2>4, BoundAssumption DEF DrainDone
  <2>5. CASE (\E c \in Calls, d \in Verdicts : Submit(t, c, d))
    BY <2>5 DEF Submit
  <2>6. ASSUME NEW review \in BOOLEAN, NEW tokenFails \in BOOLEAN,
               Register(t, review, tokenFails)
        PROVE  ThreadTyped'
    BY <2>6 DEF Register
  <2>7. CASE StartDisconnect(t) \/ ProcessExit(t)
    BY <2>7 DEF StartDisconnect, ProcessExit
  <2>8. CASE Clear(t)
    BY <2>8 DEF Clear, BridgeTyped
  <2>9. CASE WakePollers(t)
    BY <2>9 DEF WakePollers, SignalAvailable, Blocked
  <2>10. CASE SweepAsync(t)
    <3>1. Tail(localList[t]) \in Seq(Calls)  BY <2>10 DEF SweepAsync
    <3> QED BY <2>10, <3>1 DEF SweepAsync
  <2>11. CASE SweepAnswer(t)
    <3>1. Tail(localList[t]) \in Seq(Calls) /\ Head(localList[t]) \in Calls
      BY <2>11 DEF SweepAnswer
    <3> QED BY <2>11, <3>1 DEF SweepAnswer
  <2>12. CASE SweepSignal(t)
    BY <2>12 DEF SweepSignal
  <2>13. CASE SweepDone(t)
    BY <2>13 DEF SweepDone
  <2> QED BY <1>2, <2>1, <2>2, <2>3, <2>4, <2>5, <2>6, <2>7, <2>8, <2>9, <2>10, <2>11, <2>12,
             <2>13 DEF ThreadStep
<1>3. CASE Shutdown \/ UNCHANGED vars
  BY <1>3 DEF Shutdown, vars
<1> QED BY <1>1, <1>2, <1>3 DEF Next, Stopped

\* Every step keeps the types of the processes and of the delivery history.
LEMMA WorldTypedStep ==
  ASSUME StructureInv, [Next]_vars
  PROVE  WorldTyped'
<1> WorldTyped
  BY DEF StructureInv, TypeOK
<1> USE DEF WorldTyped, worldVars
<1>1. ASSUME NEW c \in Calls, CallStep(c)
      PROVE  WorldTyped'
  BY <1>1, CallFrame
<1>2. ASSUME NEW t \in Threads, ThreadStep(t)
      PROVE  WorldTyped'
  <2>1. CASE ScanDelivers(t) \/ DrainOne(t)
    BY <2>1, DeliverTyped DEF ScanDelivers, DrainOne
  <2>2. CASE ProcessExit(t)  BY <2>2 DEF ProcessExit
  <2>3. CASE SweepAnswer(t)  BY <2>3 DEF SweepAnswer, Touch
  <2>4. CASE SweepSignal(t)  BY <2>4 DEF SweepSignal, Touch
  <2>5. CASE UNCHANGED worldVars  BY <2>5
  <2>6. \/ ScanDelivers(t) \/ DrainOne(t) \/ ProcessExit(t) \/ SweepAnswer(t) \/ SweepSignal(t)
        \/ UNCHANGED worldVars
    BY ZenonT(30), <1>2 DEF ThreadStep, StartPoll, ScanFindsNothing, EnterWait, PollExpires,
         DrainDone,
         Submit, Register, StartDisconnect, Clear, WakePollers, SweepAsync, SweepDone
  <2> QED BY <2>1, <2>2, <2>3, <2>4, <2>5, <2>6
<1>3. CASE Shutdown \/ UNCHANGED vars
  BY <1>3 DEF Shutdown, threadVars, vars
<1> QED BY <1>1, <1>2, <1>3 DEF Next, Stopped

\* Every step keeps the types of the bridge; the count stays in range because it is the length
\* of the list (QueueSound).
LEMMA BridgeTypedStep ==
  ASSUME StructureInv, [Next]_vars
  PROVE  BridgeTyped'
<1> /\ BridgeTyped /\ QueueSound
  BY DEF StructureInv, TypeOK
<1> USE DEF BridgeTyped, bridgeVars
<1>1. ASSUME NEW c \in Calls, CallStep(c)
      PROVE  BridgeTyped'
  <2>1. ASSUME NEW k \in Classes, NEW field \in {"received", "dropped", "timedOut"}
        PROVE  Counted(k, field) \in [Classes -> [received : Nat, dropped : Nat, timedOut : Nat]]
    BY <2>1 DEF Counted
  <2>2. Class(c) \in Classes
    BY DEF Class, Classes
  <2>3. ASSUME NEW expired \in BOOLEAN, ~Throttled(c, expired)
        PROVE  SlotAfter(c, expired) \in 0..NoiseLimit
    BY <2>3, BoundAssumption DEF Throttled, SlotAfter
  <2>4. [stats EXCEPT ![Class(c)] =
           [received |-> @.received + 1, dropped |-> @.dropped + 1, timedOut |-> @.timedOut]]
          \in [Classes -> [received : Nat, dropped : Nat, timedOut : Nat]]
    BY <2>2
  <2>5. CASE ArriveThrottled(c)
    BY <2>4, <2>5 DEF ArriveThrottled, ArriveDropped
  <2>6. ASSUME NEW expired \in BOOLEAN,
               ArriveDisconnected(c, expired) \/ ArriveFull(c, expired)
        PROVE  BridgeTyped'
    BY <2>3, <2>4, <2>6 DEF ArriveDisconnected, ArriveFull, ArriveDropped
  <2>7. ASSUME NEW expired \in BOOLEAN, ArriveAdmitted(c, expired)
        PROVE  BridgeTyped'
    BY <2>1, <2>2, <2>3, <2>7 DEF ArriveAdmitted
  <2>8. CASE Insert(c)
    <3>1. PICK i \in 1..(Len(queue) + 1) : queue' = InsertAt(queue, i, c)
      BY <2>8 DEF Insert
    <3>2. queue' \in Seq(Calls)  BY <3>1, InsertAtIsSeq DEF IsInsertion
    <3>3. (count \in 0..MaxPending)'  BY <2>8, BoundAssumption DEF Insert, InsertAllowed
    <3>4. (available \in BOOLEAN)'  BY <2>8 DEF Insert, SignalAvailable
    <3> QED BY <2>8, <3>2, <3>3, <3>4 DEF Insert
  <2>9. CASE InsertRefused(c)
    BY <2>1, <2>2, <2>9 DEF InsertRefused
  <2>10. CASE Leave(c)
    <3>1. (queue \in Seq(Calls) /\ count \in 0..MaxPending)'
      <4>1. CASE linked[c]
        <5>1. IndexOf(c) \in 1..Len(queue)
          BY <4>1 DEF QueueSound, Queued, IndexOf
        <5> QED BY <2>10, <4>1, <5>1, RemoveAtIsSeq, BoundAssumption DEF IsRemoval, Leave,
             StillLinked,
             QueueSound
      <4>2. CASE ~linked[c]  BY <2>10, <4>2 DEF Leave, StillLinked
      <4> QED BY <4>1, <4>2
    <3>2. (stats \in [Classes -> [received : Nat, dropped : Nat, timedOut : Nat]])'
      BY <2>1, <2>2, <2>10 DEF Leave
    <3> QED BY <2>10, <3>1, <3>2 DEF Leave
  <2>11. CASE UNCHANGED bridgeVars  BY <2>11
  <2>12. \/ ArriveThrottled(c) \/ Insert(c) \/ InsertRefused(c) \/ Leave(c) \/ UNCHANGED bridgeVars
         \/ \E expired \in BOOLEAN :
              ArriveDisconnected(c, expired) \/ ArriveFull(c, expired) \/ ArriveAdmitted(c, expired)
    BY <1>1 DEF CallStep, RaisedIrql, AllocationFails, Prepare, Wake, ResetDecisionEvent,
         WaitExpires
  <2> QED BY <2>5, <2>6, <2>7, <2>8, <2>9, <2>10, <2>11, <2>12
<1>2. ASSUME NEW t \in Threads, ThreadStep(t)
      PROVE  BridgeTyped'
  <2>1. CASE ScanDelivers(t) \/ DrainOne(t)
    BY <2>1, DeliverTyped DEF ScanDelivers, DrainOne
  <2>2. CASE EnterWait(t)  BY <2>2 DEF EnterWait
  <2>3. ASSUME NEW review \in BOOLEAN, NEW tokenFails \in BOOLEAN,
               Register(t, review, tokenFails)
        PROVE  BridgeTyped'
    <3>1. (session \in [connected : BOOLEAN, pid : Pids \cup {NoPid}, async : BOOLEAN,
                        initialized : BOOLEAN])'
      BY <2>3, ClientAssumption DEF Register
    <3> QED BY <2>3, <3>1 DEF Register
  <2>4. CASE Clear(t)
    <3>1. (session \in [connected : BOOLEAN, pid : Pids \cup {NoPid}, async : BOOLEAN,
                        initialized : BOOLEAN])'
      BY <2>4 DEF Clear
    <3> QED BY <2>4, <3>1, BoundAssumption DEF Clear
  <2>5. CASE WakePollers(t)  BY <2>5 DEF WakePollers, SignalAvailable
  <2>6. CASE UNCHANGED bridgeVars  BY <2>6
  <2>7. \/ ScanDelivers(t) \/ DrainOne(t) \/ EnterWait(t) \/ Clear(t) \/ WakePollers(t)
        \/ UNCHANGED bridgeVars
        \/ \E review, tokenFails \in BOOLEAN : Register(t, review, tokenFails)
    BY <1>2 DEF ThreadStep, StartPoll, ScanFindsNothing, PollExpires, DrainDone,
         Submit, StartDisconnect, ProcessExit, SweepAsync, SweepAnswer, SweepSignal, SweepDone
  <2> QED BY <2>1, <2>2, <2>3, <2>4, <2>5, <2>6, <2>7
<1>3. CASE Shutdown
  <2>1. (session \in [connected : BOOLEAN, pid : Pids \cup {NoPid}, async : BOOLEAN,
                      initialized : BOOLEAN])'
    BY <1>3 DEF Shutdown
  <2> QED BY <1>3, <2>1, BoundAssumption DEF Shutdown
<1>4. CASE UNCHANGED vars  BY <1>4 DEF vars
<1> QED BY <1>1, <1>2, <1>3, <1>4 DEF Next, Stopped

----------------------------------------------------------------------------
(* The list. *)

(* The parts of StructureInv below QueueSound. *)
BeforeSound == \A c \in Calls : pc[c] \in BeforeInsertion => ~linked[c]
PreparedSound == \A c \in Calls : pc[c] = "prepared" => memory[c] = "live"
ReturnedSound == \A c \in Calls : pc[c] = "returned" /\ linked[c] => async[c]
LocalSound ==
  \A t \in Threads : \A i \in DOMAIN localList[t] :
    ~linked[localList[t][i]] /\ pc[localList[t][i]] \notin BeforeInsertion
ListSound == QueueSound /\ LiveWhileUsed /\ BeforeSound /\ PreparedSound /\ ReturnedSound /\ LocalSound

\* StructureInv is the typing and the soundness of the list.
LEMMA StructureParts == StructureInv <=> TypeOK /\ ListSound
  BY DEF StructureInv, ListSound, BeforeSound, PreparedSound, ReturnedSound,
     LocalSound

\* A step that leaves the list, the links and the memory alone and only moves calls on.
LEMMA ListUndisturbed ==
  ASSUME TypeOK, ListSound, UNCHANGED <<queue, count, linked, memory, localList, async>>,
         \A c \in Calls : \/ pc'[c] = pc[c]
                          \/ pc[c] = "idle" /\ pc'[c] = "admitted"
                          \/ pc[c] \in {"waiting", "resetting"}
                             /\ pc'[c] \in {"waiting", "resetting", "leaving"}
                          \/ pc[c] \in {"idle", "admitted"} /\ pc'[c] = "returned"
  PROVE  ListSound'
<1>1. QueueSound'  BY DEF ListSound, QueueSound, Queued
<1>2. LiveWhileUsed'  BY DEF ListSound, LiveWhileUsed
<1>3. BeforeSound' /\ PreparedSound' /\ ReturnedSound'
  BY DEF ListSound, BeforeSound, PreparedSound, ReturnedSound, BeforeInsertion
<1>4. LocalSound'
  <2>1. ASSUME NEW t \in Threads, NEW i \in DOMAIN localList[t]
        PROVE  pc'[localList[t][i]] \notin BeforeInsertion
    <3>1. localList[t][i] \in Calls  BY <2>1 DEF TypeOK, ThreadTyped
    <3> QED BY <2>1, <3>1 DEF ListSound, LocalSound, BeforeInsertion
  <2> QED BY <2>1 DEF ListSound, LocalSound
<1> QED BY <1>1, <1>2, <1>3, <1>4 DEF ListSound

\* Inserting an entry keeps the list sound.
LEMMA InsertListSound ==
  ASSUME TypeOK, ListSound, NEW c \in Calls, Insert(c)
  PROVE  ListSound'
<1> USE DEF ListSound
<1>1. PICK i \in 1..(Len(queue) + 1) : queue' = InsertAt(queue, i, c)
  BY DEF Insert
<1>2. /\ pc[c] = "prepared" /\ count < MaxPending /\ count' = count + 1
      /\ linked' = [linked EXCEPT ![c] = TRUE]
      /\ UNCHANGED <<memory, localList, async>>
      /\ pc' = [pc EXCEPT ![c] = IF async[c] THEN "returned" ELSE "waiting"]
  BY DEF Insert, InsertAllowed, Return, GoTo
<1>3. ~linked[c] /\ memory[c] = "live"
  BY <1>2 DEF BeforeSound, BeforeInsertion, PreparedSound
<1>4. /\ queue \in Seq(Calls) /\ count \in Nat /\ linked \in [Calls -> BOOLEAN]
      /\ pc \in [Calls -> CallPcs]
  BY BoundAssumption DEF TypeOK, BridgeTyped, EntryTyped, CallTyped
<1>5. QueueSound'
  <2>1. Distinct(queue) /\ \A x \in Calls : linked[x] <=> Has(queue, x)
    BY DEF QueueSound, Queued, Distinct, Has
  <2>2. Distinct(queue') /\ \A x : Has(queue', x) <=> (x = c \/ Has(queue, x))
    BY <1>1, <1>3, <1>4, <2>1, InsertKeeps
  <2>3. (count = Len(queue) /\ count <= MaxPending)'
    BY <1>1, <1>2, <1>4, InsertAtIsSeq, BoundAssumption DEF QueueSound, IsInsertion
  <2>4. (\A x \in Calls : linked[x] <=> Queued(x))'
    BY <1>2, <1>4, <2>1, <2>2 DEF Queued, Has
  <2>5. (\A x \in Calls : linked[x] => memory[x] = "live")'
    BY <1>2, <1>3, <1>4 DEF QueueSound
  <2> QED BY <2>2, <2>3, <2>4, <2>5 DEF QueueSound, Distinct
<1>6. LiveWhileUsed' /\ BeforeSound' /\ PreparedSound' /\ ReturnedSound'
  BY <1>2, <1>3, <1>4 DEF LiveWhileUsed, BeforeSound, PreparedSound, ReturnedSound,
       BeforeInsertion
<1>7. LocalSound'
  <2>1. ASSUME NEW t \in Threads, NEW j \in DOMAIN localList[t]
        PROVE  localList[t][j] \in Calls /\ localList[t][j] # c
    BY <1>2, <2>1 DEF TypeOK, ThreadTyped, LocalSound, BeforeInsertion
  <2> QED BY <1>2, <1>4, <2>1 DEF LocalSound, BeforeInsertion
<1> QED BY <1>5, <1>6, <1>7

\* Taking one entry off the list and freeing it keeps the list sound.
LEMMA RemoveListSound ==
  ASSUME TypeOK, ListSound, NEW i \in 1..Len(queue), NEW c \in Calls, c = queue[i],
         queue' = RemoveAt(queue, i), count' = count - 1,
         linked' = [linked EXCEPT ![c] = FALSE], memory' = [memory EXCEPT ![c] = "freed"]
  PROVE  QueueSound'
<1>1. /\ queue \in Seq(Calls) /\ count \in Nat /\ linked \in [Calls -> BOOLEAN]
      /\ memory \in [Calls -> {"none", "live", "freed"}]
  BY BoundAssumption DEF TypeOK, BridgeTyped, EntryTyped
<1>2. Distinct(queue) /\ \A x \in Calls : linked[x] <=> Has(queue, x)
  BY DEF ListSound, QueueSound, Queued, Distinct, Has
<1>3. Distinct(queue') /\ \A x : Has(queue', x) <=> (Has(queue, x) /\ x # c)
  BY <1>1, <1>2, RemoveKeeps
<1>4. (count = Len(queue) /\ count <= MaxPending)'
  BY <1>1, RemoveAtIsSeq, BoundAssumption DEF ListSound, QueueSound, IsRemoval
<1>5. (\A x \in Calls : linked[x] <=> Queued(x))'
  BY <1>1, <1>2, <1>3 DEF Queued, Has
<1>6. (\A x \in Calls : linked[x] => memory[x] = "live")'
  BY <1>1 DEF ListSound, QueueSound
<1> QED BY <1>3, <1>4, <1>5, <1>6 DEF QueueSound, Distinct

\* A leaving waiter keeps the list sound.
LEMMA LeaveListSound ==
  ASSUME TypeOK, ListSound, NEW c \in Calls, Leave(c)
  PROVE  ListSound'
<1> USE DEF ListSound
<1>1. /\ linked \in [Calls -> BOOLEAN] /\ memory \in [Calls -> {"none", "live", "freed"}]
      /\ pc \in [Calls -> CallPcs]
  BY DEF TypeOK, EntryTyped, CallTyped
<1>2. /\ linked' = [linked EXCEPT ![c] = FALSE] /\ memory' = [memory EXCEPT ![c] = "freed"]
      /\ pc[c] = "leaving" /\ pc' = [pc EXCEPT ![c] = "returned"]
      /\ UNCHANGED <<async, localList>>
  BY DEF Leave, GoTo, threadVars
<1>3. QueueSound'
  <2>1. CASE linked[c]
    <3>1. IndexOf(c) \in 1..Len(queue) /\ queue[IndexOf(c)] = c
      BY <2>1 DEF QueueSound, Queued, IndexOf, TypeOK, BridgeTyped
    <3>2. queue' = RemoveAt(queue, IndexOf(c)) /\ count' = count - 1
      BY <2>1 DEF Leave, StillLinked
    <3> QED BY <1>2, <3>1, <3>2, RemoveListSound
  <2>2. CASE ~linked[c]
    <3>1. UNCHANGED <<queue, count, linked>>
      BY <1>1, <1>2, <2>2 DEF Leave, StillLinked
    <3> QED BY <1>1, <1>2, <2>2, <3>1 DEF QueueSound, Queued
  <2> QED BY <2>1, <2>2
<1>4. LiveWhileUsed' /\ BeforeSound' /\ PreparedSound' /\ ReturnedSound'
  BY <1>1, <1>2 DEF LiveWhileUsed, BeforeSound, PreparedSound, ReturnedSound, BeforeInsertion
<1>5. LocalSound'
  <2>1. ASSUME NEW t \in Threads, NEW j \in DOMAIN localList[t]
        PROVE  localList[t][j] \in Calls
    BY <2>1 DEF TypeOK, ThreadTyped
  <2> QED BY <1>1, <1>2, <2>1 DEF LocalSound, BeforeInsertion
<1> QED BY <1>3, <1>4, <1>5

\* Handing an entry to a client keeps the list sound.
LEMMA DeliverListSound ==
  ASSUME TypeOK, ListSound, NEW t \in Threads, Deliver(t)
  PROVE  ListSound'
<1> USE DEF ListSound
<1>1. PICK i \in 1..Len(queue) : HandOver(t, i) /\ queue[i] \in Calls
  BY DEF Deliver, TypeOK, BridgeTyped
<1>2. UNCHANGED <<pc, async, localList>>
  BY DEF Deliver, callVars
<1> DEFINE c == queue[i]
<1>3. /\ linked \in [Calls -> BOOLEAN] /\ memory \in [Calls -> {"none", "live", "freed"}]
      /\ pc \in [Calls -> CallPcs]
  BY DEF TypeOK, EntryTyped, CallTyped
<1>4. CASE ReleasedOnRead(c)
  <2>1. /\ linked' = [linked EXCEPT ![c] = FALSE] /\ memory' = [memory EXCEPT ![c] = "freed"]
        /\ queue' = RemoveAt(queue, i) /\ count' = count - 1
    BY <1>1, <1>4 DEF HandOver
  <2>2. linked[c] /\ async[c]
    <3>1. c \in Calls /\ i \in DOMAIN queue
      BY <1>1 DEF TypeOK, BridgeTyped
    <3>2. Queued(c)  BY <3>1 DEF Queued
    <3>3. linked[c] <=> Queued(c)  BY <3>1 DEF QueueSound
    <3> QED BY <1>4, <3>2, <3>3 DEF ReleasedOnRead
  <2>3. QueueSound'  BY <1>1, <2>1, RemoveListSound
  <2>4. LiveWhileUsed' /\ BeforeSound' /\ PreparedSound' /\ ReturnedSound'
    BY <1>1, <1>2, <1>3, <2>1, <2>2 DEF LiveWhileUsed, BeforeSound, PreparedSound,
         ReturnedSound, BeforeInsertion
  <2>5. LocalSound'
    <3>1. ASSUME NEW u \in Threads, NEW j \in DOMAIN localList[u]
          PROVE  localList[u][j] \in Calls
      BY <3>1 DEF TypeOK, ThreadTyped
    <3> QED BY <1>1, <1>2, <1>3, <2>1, <3>1 DEF LocalSound
  <2> QED BY <2>3, <2>4, <2>5
<1>5. CASE ~ReleasedOnRead(c)
  <2>1. UNCHANGED <<linked, memory, queue, count>>  BY <1>1, <1>5 DEF HandOver
  <2> QED BY <1>2, <2>1, ListUndisturbed
<1> QED BY <1>4, <1>5

\* Every step of QueueEventAndWait keeps the list sound.
LEMMA CallListSound ==
  ASSUME TypeOK, ListSound, NEW c \in Calls, CallStep(c)
  PROVE  ListSound'
<1>1. CASE Insert(c)  BY <1>1, InsertListSound
<1>2. CASE Leave(c)  BY <1>2, LeaveListSound
<1>3. CASE Prepare(c) \/ InsertRefused(c)
  <2> USE DEF ListSound
  <2>1. /\ pc \in [Calls -> CallPcs] /\ memory \in [Calls -> {"none", "live", "freed"}]
        /\ async \in [Calls -> BOOLEAN]
    BY DEF TypeOK, CallTyped, EntryTyped
  <2>2. UNCHANGED <<queue, count, linked, localList>> /\ pc[c] \in {"admitted", "prepared"}
    BY <1>3 DEF Prepare, InsertRefused, bridgeVars, threadVars
  <2>3. ~linked[c]  BY <2>2 DEF BeforeSound, BeforeInsertion
  <2>4. \/ /\ pc' = [pc EXCEPT ![c] = "prepared"] /\ memory' = [memory EXCEPT ![c] = "live"]
           /\ \A x \in Calls \ {c} : async'[x] = async[x]
        \/ /\ pc' = [pc EXCEPT ![c] = "returned"] /\ memory' = [memory EXCEPT ![c] = "freed"]
           /\ async' = async
    BY <1>3, <2>1 DEF Prepare, InsertRefused, Return, GoTo
  <2>5. QueueSound'  BY <2>1, <2>2, <2>3, <2>4 DEF QueueSound, Queued
  <2>6. LiveWhileUsed' /\ BeforeSound' /\ PreparedSound' /\ ReturnedSound'
    BY <2>1, <2>2, <2>3, <2>4 DEF LiveWhileUsed, BeforeSound, PreparedSound, ReturnedSound,
         BeforeInsertion
  <2>7. LocalSound'
    <3>1. ASSUME NEW t \in Threads, NEW i \in DOMAIN localList[t]
          PROVE  localList[t][i] \in Calls \ {c}
      BY <2>2, <3>1 DEF TypeOK, ThreadTyped, LocalSound, BeforeInsertion
    <3> QED BY <2>1, <2>2, <2>4, <3>1 DEF LocalSound
  <2> QED BY <2>5, <2>6, <2>7
<1>4. CASE ~(Insert(c) \/ Leave(c) \/ Prepare(c) \/ InsertRefused(c))
  <2>1. pc \in [Calls -> CallPcs]
    BY DEF TypeOK, CallTyped
  <2> USE DEF bridgeVars, entryVars, threadVars, Return, GoTo
  <2>2. UNCHANGED <<queue, count, linked, memory, localList, async>>
    BY <1>4 DEF CallStep, RaisedIrql, ArriveThrottled, ArriveDisconnected, ArriveFull,
         ArriveDropped, ArriveAdmitted, AllocationFails, Wake, ResetDecisionEvent, WaitExpires
  <2>3. \/ pc[c] = "idle" /\ pc' = [pc EXCEPT ![c] = "admitted"]
        \/ pc[c] \in {"idle", "admitted"} /\ pc' = [pc EXCEPT ![c] = "returned"]
        \/ /\ pc[c] \in {"waiting", "resetting"}
           /\ \E p \in {"waiting", "resetting", "leaving"} : pc' = [pc EXCEPT ![c] = p]
    BY <1>4 DEF CallStep, RaisedIrql, ArriveThrottled, ArriveDisconnected, ArriveFull,
         ArriveDropped, ArriveAdmitted, AllocationFails, Wake, ResetDecisionEvent, WaitExpires
  <2> QED BY <2>1, <2>2, <2>3, ListUndisturbed
<1> QED BY <1>1, <1>2, <1>3, <1>4

\* A disconnect that detaches every entry keeps the list sound.
LEMMA ClearListSound ==
  ASSUME TypeOK, ListSound, NEW t \in Threads, Clear(t)
  PROVE  ListSound'
<1> USE DEF ListSound
<1>1. /\ linked' = [c \in Calls |-> linked[c] /\ ~Queued(c)]
      /\ localList' = [localList EXCEPT ![t] = queue] /\ queue' = <<>> /\ count' = 0
      /\ UNCHANGED <<pc, memory, async>>
  BY DEF Clear, callVars
<1>2. /\ queue \in Seq(Calls) /\ localList \in [Threads -> Seq(Calls)]
  BY DEF TypeOK, BridgeTyped, ThreadTyped
<1>3. \A c \in Calls : ~linked'[c]
  BY <1>1 DEF QueueSound
<1>4. QueueSound'  BY <1>1, <1>3, BoundAssumption DEF QueueSound, Queued
<1>5. LiveWhileUsed' /\ BeforeSound' /\ PreparedSound' /\ ReturnedSound'
  BY <1>1, <1>3 DEF LiveWhileUsed, BeforeSound, PreparedSound, ReturnedSound
<1>6. LocalSound'
  <2>1. ASSUME NEW u \in Threads, NEW i \in DOMAIN localList'[u]
        PROVE  localList'[u][i] \in Calls /\ pc[localList'[u][i]] \notin BeforeInsertion
    <3>1. CASE u = t
      BY <1>1, <1>2, <2>1, <3>1 DEF QueueSound, Queued, BeforeSound
    <3>2. CASE u # t
      BY <1>1, <1>2, <2>1, <3>2 DEF LocalSound
    <3> QED BY <3>1, <3>2
  <2> QED BY <1>1, <1>3, <2>1 DEF LocalSound
<1> QED BY <1>4, <1>5, <1>6

\* A disconnecting thread takes an entry off its own list, and may free it.
LEMMA SweepListSound ==
  ASSUME TypeOK, ListSound, NEW t \in Threads, SweepAsync(t) \/ SweepAnswer(t)
  PROVE  ListSound'
<1> USE DEF ListSound
<1> DEFINE c == Head(localList[t])
<1>1. localList[t] \in Seq(Calls) /\ localList[t] # <<>>
  BY DEF TypeOK, ThreadTyped, SweepAsync, SweepAnswer
<1>2. /\ c \in Calls /\ ~linked[c] /\ pc[c] \notin BeforeInsertion
      /\ \A i \in DOMAIN Tail(localList[t]) :
           i + 1 \in DOMAIN localList[t] /\ Tail(localList[t])[i] = localList[t][i + 1]
  BY <1>1, HeadTailProperties DEF LocalSound
<1>3. /\ UNCHANGED <<queue, count, linked, pc, async>>
      /\ localList' = [localList EXCEPT ![t] = Tail(localList[t])]
  BY DEF SweepAsync, SweepAnswer, bridgeVars, callVars
<1>4. memory' = memory \/ (async[c] /\ memory' = [memory EXCEPT ![c] = "freed"])
  BY DEF SweepAsync, SweepAnswer
<1>5. memory \in [Calls -> {"none", "live", "freed"}] /\ localList \in [Threads -> Seq(Calls)]
  BY DEF TypeOK, EntryTyped, ThreadTyped
<1>6. QueueSound'  BY <1>2, <1>3, <1>4, <1>5 DEF QueueSound, Queued
<1>7. LiveWhileUsed' /\ BeforeSound' /\ PreparedSound' /\ ReturnedSound'
  BY <1>2, <1>3, <1>4, <1>5 DEF LiveWhileUsed, BeforeSound, PreparedSound, ReturnedSound,
       BeforeInsertion
<1>8. LocalSound'
  BY <1>2, <1>3, <1>5 DEF LocalSound
<1> QED BY <1>6, <1>7, <1>8

\* Shutting the bridge down keeps the list sound.
LEMMA ShutdownListSound ==
  ASSUME TypeOK, ListSound, Shutdown
  PROVE  ListSound'
<1> USE DEF ListSound
<1>1. /\ linked' = [c \in Calls |-> linked[c] /\ ~Queued(c)] /\ queue' = <<>> /\ count' = 0
      /\ memory' = [c \in Calls |-> IF Queued(c) /\ async[c] THEN "freed" ELSE memory[c]]
      /\ UNCHANGED <<pc, async, localList>>
  BY DEF Shutdown, callVars, threadVars
<1>2. \A c \in Calls : ~linked'[c]
  BY <1>1 DEF QueueSound
<1>3. QueueSound'  BY <1>1, <1>2, BoundAssumption DEF QueueSound, Queued
<1>4. LiveWhileUsed' /\ BeforeSound' /\ PreparedSound' /\ ReturnedSound'
  BY <1>1, <1>2 DEF LiveWhileUsed, BeforeSound, PreparedSound, ReturnedSound, QueueSound,
       BeforeInsertion
<1>5. ASSUME NEW u \in Threads, NEW i \in DOMAIN localList[u]
      PROVE  localList[u][i] \in Calls
  BY <1>5 DEF TypeOK, ThreadTyped
<1>6. LocalSound'  BY <1>1, <1>2, <1>5 DEF LocalSound
<1> QED BY <1>3, <1>4, <1>6

\* StructureInv is preserved by every step, given VerdictInv (for the entry a thread signals).
LEMMA StructureStep ==
  ASSUME StructureInv, VerdictInv, [Next]_vars
  PROVE  StructureInv'
<1> TypeOK /\ ListSound
  BY StructureParts
<1>1. TypeOK'
  BY CallTypedStep, EntryTypedStep, ThreadTypedStep, WorldTypedStep, BridgeTypedStep
     DEF TypeOK
<1>2. ListSound'
  <2>1. ASSUME NEW c \in Calls, CallStep(c)
        PROVE  ListSound'
    BY <2>1, CallListSound
  <2>2. ASSUME NEW t \in Threads, ThreadStep(t)
        PROVE  ListSound'
    <3>1. CASE ScanDelivers(t) \/ DrainOne(t)
      BY <3>1, DeliverListSound DEF ScanDelivers, DrainOne
    <3>2. CASE Clear(t)  BY <3>2, ClearListSound
    <3>3. CASE SweepAsync(t) \/ SweepAnswer(t)  BY <3>3, SweepListSound
    <3>4. CASE UNCHANGED <<queue, count, linked, memory, localList, async, pc>>
      BY <3>4, ListUndisturbed
    <3>5. \/ ScanDelivers(t) \/ DrainOne(t) \/ Clear(t) \/ SweepAsync(t) \/ SweepAnswer(t)
          \/ UNCHANGED <<queue, count, linked, memory, localList, async, pc>>
      BY ZenonT(30), <2>2 DEF ThreadStep, StartPoll, ScanFindsNothing, EnterWait, PollExpires,
           DrainDone,
           Submit, Register, StartDisconnect, ProcessExit, WakePollers, SweepSignal, SweepDone,
           bridgeVars, callVars, entryVars, threadVars
    <3> QED BY <3>1, <3>2, <3>3, <3>4, <3>5
  <2>3. CASE Shutdown  BY <2>3, ShutdownListSound
  <2>4. CASE UNCHANGED vars
    BY <2>4, ListUndisturbed DEF vars, bridgeVars, callVars, entryVars, threadVars
  <2> QED BY <2>1, <2>2, <2>3, <2>4 DEF Next, Stopped
<1> QED BY <1>1, <1>2 DEF StructureInv, ListSound, BeforeSound, PreparedSound, ReturnedSound,
             LocalSound

----------------------------------------------------------------------------
(* The verdicts. *)

(* The parts of VerdictInv: what holds of one call, and of a thread about to signal. *)
CallVerdict(c) ==
  /\ pc[c] \in BeforeInsertion => final[c] = "none" /\ ~signalled[c] /\ ~held[c]
  /\ signalled[c] => decision[c] \in VerdictOf(c) \cup {"pending"}
  /\ pc[c] = "leaving" => status[c] \in {"success", "timeout"}
  /\ pc[c] = "leaving" /\ status[c] = "success" => verdict[c] \in VerdictOf(c) \ {"pending"}
  /\ pc[c] = "returned" /\ held[c] => verdict[c] # "timeout" /\ verdict[c] \in {"block", final[c]}
  /\ pc[c] = "returned" /\ status[c] = "success" /\ ~async[c] =>
       verdict[c] \in VerdictOf(c) \cup {"block"}
  /\ c \in Critical => ~async[c]
SignalSound(t) ==
  at[t] = "answered" =>
    /\ current[t] \in Calls
    /\ pc[current[t]] \notin BeforeInsertion
    /\ memory[current[t]] = "freed"
         \/ decision[current[t]] \in VerdictOf(current[t]) \cup {"pending"}

\* VerdictInv is the conjunction of its parts.
LEMMA VerdictParts ==
  VerdictInv <=> (\A c \in Calls : CallVerdict(c)) /\ (\A t \in Threads : SignalSound(t))
  BY CallsAssumption DEF VerdictInv, CallVerdict, SignalSound

\* A step of QueueEventAndWait keeps the facts about every call's verdict.
LEMMA CallStepVerdict ==
  ASSUME StructureInv, VerdictInv, NEW c \in Calls, CallStep(c)
  PROVE  \A x \in Calls : CallVerdict(x)'
<1> /\ CallTyped /\ EntryTyped /\ ListSound /\ \A x \in Calls : CallVerdict(x)
  BY StructureParts, VerdictParts DEF TypeOK
<1>1. /\ UNCHANGED <<decision, final>>
      /\ \A x \in Calls \ {c} :
           /\ pc'[x] = pc[x] /\ held'[x] = held[x] /\ status'[x] = status[x]
           /\ verdict'[x] = verdict[x] /\ signalled'[x] = signalled[x] /\ async'[x] = async[x]
  <2> USE DEF callVars, entryVars, CallTyped, EntryTyped, Return, GoTo
  <2>1. UNCHANGED <<decision, final>>  BY CallFrame
  <2> QED BY ZenonT(30), <2>1 DEF CallStep, RaisedIrql, ArriveThrottled, ArriveDisconnected,
       ArriveFull,
         ArriveDropped, ArriveAdmitted, AllocationFails, Prepare, Insert, InsertRefused, Wake,
         ResetDecisionEvent, WaitExpires, Leave
<1>2. ASSUME NEW x \in Calls \ {c}
      PROVE  CallVerdict(x)'
  BY <1>1, <1>2 DEF CallVerdict, VerdictOf
<1>3. CallVerdict(c)'
  <2> CallVerdict(c)
    OBVIOUS
  <2> USE DEF CallTyped, EntryTyped, callVars, Return, GoTo
  <2>1. CASE RaisedIrql(c) \/ ArriveThrottled(c)
    BY <2>1 DEF RaisedIrql, ArriveThrottled, ArriveDropped, entryVars, CallVerdict,
         BeforeInsertion, VerdictOf
  <2>2. ASSUME NEW expired \in BOOLEAN, ArriveDisconnected(c, expired) \/ ArriveFull(c, expired)
        PROVE  CallVerdict(c)'
    BY <2>2 DEF ArriveDisconnected, ArriveFull, ArriveDropped, entryVars, CallVerdict,
         BeforeInsertion, VerdictOf
  <2>3. ASSUME NEW expired \in BOOLEAN, ArriveAdmitted(c, expired)
        PROVE  CallVerdict(c)'
    BY <2>3 DEF ArriveAdmitted, entryVars, CallVerdict, BeforeInsertion, VerdictOf
  <2>4. CASE AllocationFails(c) \/ InsertRefused(c)
    BY <2>4 DEF AllocationFails, InsertRefused, entryVars, CallVerdict, BeforeInsertion,
         VerdictOf
  <2>5. CASE Prepare(c)
    BY <2>5 DEF Prepare, ReviewedAsync, CallVerdict, BeforeInsertion, VerdictOf
  <2>6. CASE Insert(c)
    BY <2>6 DEF Insert, CallVerdict, BeforeInsertion, VerdictOf
  <2>7. CASE Wake(c)
    BY <2>7 DEF Wake, entryVars, CallVerdict, BeforeInsertion, VerdictOf
  <2>8. CASE ResetDecisionEvent(c)
    BY <2>8 DEF ResetDecisionEvent, CallVerdict, BeforeInsertion, VerdictOf
  <2>9. CASE WaitExpires(c)
    BY <2>9 DEF WaitExpires, entryVars, CallVerdict, BeforeInsertion, VerdictOf
  <2>10. CASE Leave(c)
    BY <2>10 DEF Leave, Outcome, CallVerdict, BeforeInsertion, VerdictOf
  <2> QED BY <1>1, <2>1, <2>2, <2>3, <2>4, <2>5, <2>6, <2>7, <2>8, <2>9, <2>10 DEF CallStep
<1> QED BY <1>2, <1>3

\* A control request keeps the facts about every call's verdict.
LEMMA ThreadStepVerdict ==
  ASSUME StructureInv, VerdictInv, NEW t \in Threads, ThreadStep(t)
  PROVE  \A x \in Calls : CallVerdict(x)'
<1> /\ CallTyped /\ EntryTyped /\ ListSound /\ \A x \in Calls : CallVerdict(x)
    /\ SignalSound(t)
  BY StructureParts, VerdictParts DEF TypeOK
<1>1. UNCHANGED <<pc, held, status, verdict, async>>
  BY ThreadFrame DEF callVars
<1>2. ASSUME NEW c \in Calls, NEW d \in Verdicts, Submit(t, c, d)
      PROVE  \A x \in Calls : CallVerdict(x)'
  <2>1. linked[c] /\ pc[c] \notin BeforeInsertion /\ final[c] = "none"
    BY <1>2 DEF Submit, SubmitAccepts, ListSound, BeforeSound
  <2>2. pc[c] = "returned" => async[c]
    BY <2>1 DEF ListSound, ReturnedSound
  <2>3. /\ decision' = [decision EXCEPT ![c] = d] /\ signalled' = [signalled EXCEPT ![c] = TRUE]
        /\ final' = IF d = "pending" THEN final ELSE [final EXCEPT ![c] = d]
    BY <1>2 DEF Submit
  <2>4. verdict[c] # "none"
    BY DEF CallTyped, Decisions
  <2>5. ASSUME NEW x \in Calls
        PROVE  CallVerdict(x)'
    <3>1. CASE x = c
      BY <1>1, <2>1, <2>2, <2>3, <2>4, <3>1 DEF CallVerdict, VerdictOf, EntryTyped
    <3>2. CASE x # c
      BY <1>1, <2>3, <3>2 DEF CallVerdict, VerdictOf, EntryTyped
    <3> QED BY <3>1, <3>2
  <2> QED BY <2>5
<1>3. CASE SweepAnswer(t)
  <2>1. UNCHANGED <<final, signalled>> /\ \A x \in Calls : decision'[x] \in {decision[x], "timeout"}
    BY <1>3 DEF SweepAnswer, Touch, EntryTyped
  <2> QED BY <1>1, <2>1 DEF CallVerdict, VerdictOf
<1>4. CASE SweepSignal(t)
  <2> DEFINE c == current[t]
  <2>1. /\ c \in Calls /\ pc[c] \notin BeforeInsertion /\ UNCHANGED <<decision, final>>
        /\ memory[c] = "freed" \/ decision[c] \in VerdictOf(c) \cup {"pending"}
    BY <1>4 DEF SweepSignal, SignalSound
  <2>2. signalled' = signalled \/ (memory[c] # "freed" /\ signalled' = [signalled EXCEPT ![c] = TRUE])
    BY <1>4 DEF SweepSignal, Touch
  <2>3. ASSUME NEW x \in Calls
        PROVE  CallVerdict(x)'
    <3>1. CASE x = c
      BY <1>1, <2>1, <2>2, <3>1 DEF CallVerdict, VerdictOf, EntryTyped
    <3>2. CASE x # c
      BY <1>1, <2>1, <2>2, <3>2 DEF CallVerdict, VerdictOf, EntryTyped
    <3> QED BY <3>1, <3>2
  <2> QED BY <2>3
<1>5. CASE UNCHANGED <<decision, final, signalled>>
  BY <1>1, <1>5 DEF CallVerdict, VerdictOf
<1>6. \/ \E c \in Calls, d \in Verdicts : Submit(t, c, d)
      \/ SweepAnswer(t) \/ SweepSignal(t) \/ UNCHANGED <<decision, final, signalled>>
  BY ZenonT(30) DEF ThreadStep, StartPoll, ScanDelivers, ScanFindsNothing, EnterWait,
       PollExpires,
       DrainOne,
       DrainDone, Deliver, Register, StartDisconnect, ProcessExit, Clear, WakePollers, SweepAsync,
       SweepDone, entryVars
<1> QED BY <1>2, <1>3, <1>4, <1>5, <1>6

\* What a thread about to signal relies on: a call past its insertion stays past it, a freed
\* entry stays freed, and a verdict is only ever replaced by another verdict.
Settled(c) ==
  /\ pc[c] \notin BeforeInsertion
  /\ memory[c] = "freed" \/ decision[c] \in VerdictOf(c) \cup {"pending"}

\* A step of QueueEventAndWait keeps an entry settled.
LEMMA CallStepSettled ==
  ASSUME StructureInv, NEW c \in Calls, CallStep(c), NEW x \in Calls, Settled(x)
  PROVE  Settled(x)'
<1> CallTyped /\ EntryTyped
  BY DEF StructureInv, TypeOK
<1>1. UNCHANGED <<decision, final>>
  BY CallFrame
<1>2. pc'[x] \notin BeforeInsertion
  BY DEF CallTyped, callVars, Return, GoTo, Settled, BeforeInsertion, CallStep, RaisedIrql,
         ArriveThrottled, ArriveDisconnected, ArriveFull, ArriveDropped, ArriveAdmitted,
         AllocationFails, Prepare, Insert, InsertRefused, Wake, ResetDecisionEvent, WaitExpires,
         Leave
<1>3. memory'[x] \in {memory[x], "freed"}
  <2>1. CASE Prepare(c)
    <3>1. x # c  BY <2>1 DEF Prepare, Settled, BeforeInsertion
    <3> QED BY <2>1, <3>1 DEF Prepare, EntryTyped
  <2>2. CASE InsertRefused(c) \/ Leave(c)
    BY <2>2 DEF InsertRefused, Leave, EntryTyped
  <2>3. Prepare(c) \/ InsertRefused(c) \/ Leave(c) \/ memory' = memory
    BY DEF entryVars, CallStep, RaisedIrql, ArriveThrottled, ArriveDisconnected, ArriveFull,
           ArriveDropped, ArriveAdmitted, AllocationFails, Insert, Wake, ResetDecisionEvent,
           WaitExpires
  <2> QED BY <2>1, <2>2, <2>3
<1> QED BY <1>1, <1>2, <1>3 DEF Settled, VerdictOf

\* A control request keeps an entry settled.
LEMMA ThreadStepSettled ==
  ASSUME StructureInv, NEW t \in Threads, ThreadStep(t), NEW x \in Calls, Settled(x)
  PROVE  Settled(x)'
<1> BridgeTyped /\ EntryTyped /\ ThreadTyped
  BY DEF StructureInv, TypeOK
<1>1. UNCHANGED pc
  BY ThreadFrame DEF callVars
<1>2. memory'[x] \in {memory[x], "freed"}
  <2>1. CASE ScanDelivers(t) \/ DrainOne(t)
    BY <2>1 DEF ScanDelivers, DrainOne, Deliver, HandOver, EntryTyped
  <2>2. CASE SweepAsync(t)  BY <2>2 DEF SweepAsync, EntryTyped
  <2>3. ScanDelivers(t) \/ DrainOne(t) \/ SweepAsync(t) \/ memory' = memory
    BY ZenonT(30) DEF ThreadStep, StartPoll, ScanFindsNothing, EnterWait, PollExpires,
         DrainDone, Submit,
       Register, StartDisconnect, ProcessExit, Clear, WakePollers, SweepAnswer, SweepSignal,
       SweepDone, entryVars
  <2> QED BY <2>1, <2>2, <2>3
<1>3. decision[x] \in VerdictOf(x) \cup {"pending"} => (decision[x] \in VerdictOf(x) \cup {"pending"})'
  <2>1. ASSUME NEW c \in Calls, NEW d \in Verdicts, Submit(t, c, d)
        PROVE  \/ decision'[x] = decision[x] /\ final'[x] = final[x]
               \/ decision'[x] \in {final'[x], "pending"}
    <3>1. CASE x = c  BY <2>1, <3>1 DEF Submit, EntryTyped
    <3>2. CASE x # c  BY <2>1, <3>2 DEF Submit, EntryTyped
    <3> QED BY <3>1, <3>2
  <2>2. CASE SweepAnswer(t)
    BY <2>2 DEF SweepAnswer, Touch, EntryTyped, VerdictOf
  <2>3. CASE UNCHANGED <<decision, final>>  BY <2>3 DEF VerdictOf
  <2>4. \/ \E c \in Calls, d \in Verdicts : Submit(t, c, d)
        \/ SweepAnswer(t) \/ UNCHANGED <<decision, final>>
    BY ZenonT(30) DEF ThreadStep, StartPoll, ScanDelivers, ScanFindsNothing, EnterWait,
         PollExpires,
       DrainOne, DrainDone, Deliver, Register, StartDisconnect, ProcessExit, Clear, WakePollers,
       SweepAsync, SweepSignal, SweepDone, entryVars
  <2> QED BY <2>1, <2>2, <2>3, <2>4 DEF VerdictOf
<1> QED BY <1>1, <1>2, <1>3 DEF Settled

\* The entry a disconnecting thread is about to signal keeps carrying a verdict.
LEMMA SignalStep ==
  ASSUME StructureInv, VerdictInv, [Next]_vars, NEW t \in Threads
  PROVE  SignalSound(t)'
<1> BridgeTyped /\ EntryTyped /\ ThreadTyped /\ ListSound /\ SignalSound(t)
  BY StructureParts, VerdictParts DEF TypeOK
<1>1. SignalSound(t) <=> (at[t] = "answered" => current[t] \in Calls /\ Settled(current[t]))
  BY DEF SignalSound, Settled
<1>2. CASE at[t] = "answered" /\ at'[t] = "answered" /\ current'[t] = current[t]
  <2>1. PICK x \in Calls : x = current[t] /\ x = current'[t] /\ Settled(x)
    BY <1>1, <1>2
  <2>2. ASSUME NEW c \in Calls, CallStep(c)
        PROVE  Settled(x)'
    BY <2>1, <2>2, CallStepSettled
  <2>3. ASSUME NEW u \in Threads, ThreadStep(u)
        PROVE  Settled(x)'
    BY <2>1, <2>3, ThreadStepSettled
  <2>4. ~Shutdown  BY <1>2 DEF Shutdown, Quiet
  <2>5. ASSUME UNCHANGED vars
        PROVE  Settled(x)'
    BY <2>1, <2>5 DEF vars, callVars, entryVars, Settled, VerdictOf
  <2>6. Settled(x)'
    BY <2>2, <2>3, <2>4, <2>5 DEF Next, Stopped
  <2> QED BY <2>1, <2>6 DEF SignalSound, Settled
<1>3. CASE SweepAnswer(t)
  <2> DEFINE c == Head(localList[t])
  <2>1. localList[t] \in Seq(Calls) /\ localList[t] # <<>>
    BY <1>3 DEF ThreadTyped, SweepAnswer
  <2>2. c \in Calls /\ pc[c] \notin BeforeInsertion /\ pc' = pc
    BY <1>3, <2>1 DEF ListSound, LocalSound, SweepAnswer, callVars
  <2>3. current'[t] = c /\ memory' = memory /\ (memory[c] # "freed" => decision'[c] = "timeout")
    BY <1>3, <2>2 DEF SweepAnswer, Touch, ThreadTyped, EntryTyped
  <2> QED BY <2>2, <2>3 DEF SignalSound, VerdictOf
<1>4. \/ at'[t] # "answered" \/ SweepAnswer(t)
      \/ at[t] = "answered" /\ at'[t] = "answered" /\ current'[t] = current[t]
  <2> USE DEF ThreadTyped, Move, SignalAvailable, Blocked
  <2>1. ASSUME NEW c \in Calls, CallStep(c)
        PROVE  current' = current /\ (at'[t] \in {at[t], "polling"})
    BY <2>1, CallFrame DEF CallStep, RaisedIrql, ArriveThrottled, ArriveDisconnected,
         ArriveFull,
         ArriveDropped, ArriveAdmitted, AllocationFails, Prepare, Insert, InsertRefused, Wake,
         ResetDecisionEvent, WaitExpires, Leave, threadVars
  <2>2. ASSUME NEW u \in Threads, ThreadStep(u), u # t
        PROVE  current'[t] = current[t] /\ (at'[t] \in {at[t], "polling"})
    BY ZenonT(30), <2>2 DEF ThreadStep, StartPoll, ScanDelivers, ScanFindsNothing, EnterWait,
         PollExpires,
       DrainOne, DrainDone, Deliver, Submit, Register, StartDisconnect, ProcessExit, Clear,
       WakePollers, SweepAsync, SweepAnswer, SweepSignal, SweepDone, threadVars
  <2>3. ASSUME ThreadStep(t)
        PROVE  SweepAnswer(t) \/ at'[t] # "answered"
    BY ZenonT(30), <2>3 DEF ThreadStep, StartPoll, ScanDelivers, ScanFindsNothing, EnterWait,
         PollExpires,
       DrainOne, DrainDone, Deliver, Submit, Register, StartDisconnect, ProcessExit, Clear,
       WakePollers, SweepAsync, SweepSignal, SweepDone, AdmittedTo, threadVars
  <2>4. CASE Shutdown \/ UNCHANGED vars
    BY <2>4 DEF Shutdown, vars, threadVars
  <2> QED BY <2>1, <2>2, <2>3, <2>4 DEF Next, Stopped
<1> QED BY <1>2, <1>3, <1>4 DEF SignalSound

\* Shutdown finds only async entries in the list: it answers no waiter.
LEMMA ShutdownQuiet ==
  ASSUME StructureInv, VerdictInv, Shutdown
  PROVE  UNCHANGED <<callVars, decision, final, signalled, async, delivered, userPending, readers>>
<1> EntryTyped /\ ListSound
  BY StructureParts DEF TypeOK
<1>1. \A c \in Calls : Queued(c) => async[c]
  BY DEF Shutdown, Quiet, ListSound, QueueSound, ReturnedSound, BeforeSound, BeforeInsertion
<1>2. decision' = decision /\ signalled' = signalled
  BY <1>1 DEF Shutdown, EntryTyped
<1> QED BY <1>2 DEF Shutdown, worldVars

\* VerdictInv is preserved by every step, given StructureInv.
LEMMA VerdictStep ==
  ASSUME StructureInv, VerdictInv, [Next]_vars
  PROVE  VerdictInv'
<1>1. \A t \in Threads : SignalSound(t)'
  BY SignalStep
<1>2. \A c \in Calls : CallVerdict(c)'
  <2>1. ASSUME UNCHANGED <<callVars, decision, final, signalled, async>>
        PROVE  \A c \in Calls : CallVerdict(c)'
    BY <2>1, VerdictParts DEF CallVerdict, VerdictOf, callVars
  <2>2. CASE Shutdown  BY <2>1, <2>2, ShutdownQuiet
  <2>3. CASE UNCHANGED vars  BY <2>1, <2>3 DEF vars, entryVars
  <2> QED BY <2>2, <2>3, CallStepVerdict, ThreadStepVerdict DEF Next, Stopped
<1> QED BY <1>1, <1>2, CallsAssumption DEF VerdictInv, CallVerdict, SignalSound

(* The parts of ReviewInv, for one call. *)
CallReview(c) ==
  /\ Len(readers[c]) <= 1 /\ (~delivered[c] => readers[c] = <<>>)
  /\ pc[c] \in BeforeInsertion => readers[c] = <<>>
  /\ readers[c] # <<>> /\ linked[c] => ~async[c]
  /\ InReview(c) => ~async[c]
  /\ held[c] => userPending[c]
  /\ decision[c] = "pending" \/ pc[c] = "resetting" => final[c] = "none"
  /\ final[c] # "none" /\ pc[c] = "waiting" => signalled[c]

\* ReviewInv is the conjunction of its parts.
LEMMA ReviewParts == ReviewInv <=> \A c \in Calls : CallReview(c)
  BY DEF ReviewInv, CallReview

\* A step of QueueEventAndWait keeps the facts about every event's review.
LEMMA CallStepReview ==
  ASSUME StructureInv, VerdictInv, ReviewInv, NEW c \in Calls, CallStep(c)
  PROVE  \A x \in Calls : CallReview(x)'
<1> /\ CallTyped /\ EntryTyped /\ \A x \in Calls : CallVerdict(x) /\ CallReview(x)
  BY ReviewParts, VerdictParts DEF StructureInv, TypeOK
<1>1. UNCHANGED <<readers, delivered, userPending, decision, final>>
  BY CallFrame DEF worldVars
<1>2. /\ \A x \in Calls \ {c} :
           /\ pc'[x] = pc[x] /\ held'[x] = held[x] /\ linked'[x] = linked[x]
           /\ signalled'[x] = signalled[x] /\ async'[x] = async[x]
  <2> USE DEF callVars, entryVars, CallTyped, EntryTyped, Return, GoTo
  <2> QED BY DEF CallStep, RaisedIrql, ArriveThrottled, ArriveDisconnected, ArriveFull,
         ArriveDropped, ArriveAdmitted, AllocationFails, Prepare, Insert, InsertRefused, Wake,
         ResetDecisionEvent, WaitExpires, Leave
<1>3. ASSUME NEW x \in Calls \ {c}
      PROVE  CallReview(x)'
  BY <1>1, <1>2, <1>3 DEF CallReview, InReview
<1>4. CallReview(c)'
  <2> CallReview(c) /\ CallVerdict(c)
    OBVIOUS
  <2> USE <1>1 DEF CallTyped, EntryTyped, callVars, entryVars, Return, GoTo, CallReview,
       InReview,
                   BeforeInsertion
  <2>1. CASE RaisedIrql(c) \/ ArriveThrottled(c)
    BY <2>1 DEF RaisedIrql, ArriveThrottled, ArriveDropped
  <2>2. ASSUME NEW expired \in BOOLEAN, ArriveDisconnected(c, expired) \/ ArriveFull(c, expired)
        PROVE  CallReview(c)'
    BY <2>2 DEF ArriveDisconnected, ArriveFull, ArriveDropped
  <2>3. ASSUME NEW expired \in BOOLEAN, ArriveAdmitted(c, expired)
        PROVE  CallReview(c)'
    BY <2>3 DEF ArriveAdmitted
  <2>4. CASE AllocationFails(c) \/ InsertRefused(c)
    BY <2>4 DEF AllocationFails, InsertRefused
  <2>5. CASE Prepare(c)
    BY <2>5 DEF Prepare
  <2>6. CASE Insert(c)
    BY <2>6 DEF Insert, CallVerdict
  <2>7. CASE Wake(c)
    BY <2>7 DEF Wake
  <2>8. CASE ResetDecisionEvent(c)
    BY <2>8 DEF ResetDecisionEvent
  <2>9. CASE WaitExpires(c)
    BY <2>9 DEF WaitExpires
  <2>10. CASE Leave(c)
    BY <2>10 DEF Leave
  <2> QED BY <1>1, <2>1, <2>2, <2>3, <2>4, <2>5, <2>6, <2>7, <2>8, <2>9, <2>10 DEF CallStep
<1> QED BY <1>3, <1>4

\* Handing an entry to a client keeps the facts about every event's review.
LEMMA DeliverReview ==
  ASSUME StructureInv, ReviewInv, NEW t \in Threads, Deliver(t)
  PROVE  \A x \in Calls : CallReview(x)'
<1> /\ BridgeTyped /\ EntryTyped /\ WorldTyped /\ ListSound /\ \A x \in Calls : CallReview(x)
  BY StructureParts, ReviewParts DEF TypeOK
<1>1. PICK i \in 1..Len(queue) : First(i) /\ HandOver(t, i) /\ queue[i] \in Calls
  BY DEF BridgeTyped, Deliver
<1> DEFINE c == queue[i]
<1>2. linked[c] /\ pc[c] \notin BeforeInsertion /\ readers[c] = <<>>
  BY <1>1 DEF First, Undelivered, ListSound, QueueSound, Queued, BeforeSound, CallReview,
       BridgeTyped
<1>3. UNCHANGED <<pc, held, userPending, decision, final, signalled, async>>
  BY DEF Deliver, callVars
<1>4. /\ readers' = [readers EXCEPT ![c] = <<t>>]
      /\ delivered' = [delivered EXCEPT ![c] = TRUE]
      /\ linked' = IF async[c] THEN [linked EXCEPT ![c] = FALSE] ELSE linked
  BY <1>1, <1>2 DEF HandOver, ReleasedOnRead
<1>5. ASSUME NEW x \in Calls
      PROVE  CallReview(x)'
  <2>1. CASE x = c
    BY <1>2, <1>3, <1>4, <2>1 DEF CallReview, InReview, EntryTyped, WorldTyped
  <2>2. CASE x # c
    BY <1>3, <1>4, <2>2 DEF CallReview, InReview, EntryTyped, WorldTyped
  <2> QED BY <2>1, <2>2
<1> QED BY <1>5

\* A control request keeps the facts about every event's review.
LEMMA ThreadStepReview ==
  ASSUME StructureInv, VerdictInv, ReviewInv, NEW t \in Threads, ThreadStep(t)
  PROVE  \A x \in Calls : CallReview(x)'
<1> /\ CallTyped /\ EntryTyped /\ ListSound /\ \A x \in Calls : CallReview(x)
  BY StructureParts, ReviewParts DEF TypeOK
<1>1. UNCHANGED <<pc, held, async>>
  BY ThreadFrame DEF callVars
<1>2. CASE ScanDelivers(t) \/ DrainOne(t)
  BY <1>2, DeliverReview DEF ScanDelivers, DrainOne
<1>3. ASSUME NEW c \in Calls, NEW d \in Verdicts, Submit(t, c, d)
      PROVE  \A x \in Calls : CallReview(x)'
  <2>1. final[c] = "none" /\ pc[c] # "resetting" /\ UNCHANGED <<readers, delivered, linked>>
    BY <1>3 DEF Submit, SubmitAccepts, AdmittedTo, LockFree, worldVars
  <2>2. /\ decision' = [decision EXCEPT ![c] = d] /\ signalled' = [signalled EXCEPT ![c] = TRUE]
        /\ final' = IF d = "pending" THEN final ELSE [final EXCEPT ![c] = d]
        /\ userPending' = IF d = "pending" THEN [userPending EXCEPT ![c] = TRUE] ELSE userPending
    BY <1>3 DEF Submit
  <2>3. ASSUME NEW x \in Calls
        PROVE  CallReview(x)'
    <3>1. CASE x = c
      BY <1>1, <2>1, <2>2, <3>1 DEF CallReview, InReview, EntryTyped
    <3>2. CASE x # c
      BY <1>1, <2>1, <2>2, <3>2 DEF CallReview, InReview, EntryTyped
    <3> QED BY <3>1, <3>2
  <2> QED BY <2>3
<1>4. CASE SweepAnswer(t)
  <2>1. /\ UNCHANGED <<final, signalled, delivered, userPending, linked, readers>>
        /\ \A x \in Calls : decision'[x] \in {decision[x], "timeout"}
    BY <1>4 DEF SweepAnswer, Touch, EntryTyped
  <2> QED BY <1>1, <2>1 DEF CallReview, InReview
<1>5. CASE SweepSignal(t)
  <2>1. /\ UNCHANGED <<final, decision, delivered, userPending, linked, readers>>
        /\ \A x \in Calls : signalled[x] => signalled'[x]
    BY <1>5 DEF SweepSignal, Touch, EntryTyped
  <2> QED BY <1>1, <2>1 DEF CallReview, InReview
<1>6. CASE /\ UNCHANGED <<readers, delivered, userPending, decision, final, signalled>>
           /\ \A x \in Calls : linked'[x] => linked[x]
  BY <1>1, <1>6 DEF CallReview, InReview
<1>7. \/ ScanDelivers(t) \/ DrainOne(t) \/ SweepAnswer(t) \/ SweepSignal(t)
      \/ \E c \in Calls, d \in Verdicts : Submit(t, c, d)
      \/ /\ UNCHANGED <<readers, delivered, userPending, decision, final, signalled>>
         /\ \A x \in Calls : linked'[x] => linked[x]
  BY ZenonT(30) DEF ThreadStep, StartPoll, ScanFindsNothing, EnterWait, PollExpires,
       DrainDone, Register, StartDisconnect, ProcessExit, Clear, WakePollers, SweepAsync,
       SweepDone, entryVars, worldVars
<1> QED BY <1>2, <1>3, <1>4, <1>5, <1>6, <1>7

\* ReviewInv is preserved by every step, given the other two.
LEMMA ReviewStep ==
  ASSUME StructureInv, VerdictInv, ReviewInv, [Next]_vars
  PROVE  ReviewInv'
<1> \A x \in Calls : CallReview(x)
  BY ReviewParts
<1>1. ASSUME UNCHANGED <<callVars, decision, final, signalled, async, delivered, userPending, readers>>,
             \A x \in Calls : linked'[x] => linked[x]
      PROVE  \A c \in Calls : CallReview(c)'
  BY <1>1 DEF CallReview, InReview, callVars
<1>2. CASE Shutdown
  BY <1>1, <1>2, ShutdownQuiet DEF Shutdown, ReviewInv, CallReview
<1>3. CASE UNCHANGED vars
  BY <1>1, <1>3 DEF vars, entryVars, worldVars, ReviewInv, CallReview
<1> QED BY <1>2, <1>3, CallStepReview, ThreadStepReview DEF Next, Stopped, ReviewInv, CallReview

\* The initial states satisfy the inductive invariant.
LEMMA InitInv == Init => StructureInv /\ VerdictInv /\ ReviewInv
<1> SUFFICES ASSUME Init
             PROVE  StructureInv /\ VerdictInv /\ ReviewInv
  OBVIOUS
<1> USE DEF Init
<1>1. TypeOK
  <2>1. BridgeTyped
    <3>1. [received |-> 0, dropped |-> 0, timedOut |-> 0]
            \in [received : Nat, dropped : Nat, timedOut : Nat]
      OBVIOUS
    <3>2. stats \in [Classes -> [received : Nat, dropped : Nat, timedOut : Nat]]
      BY <3>1
    <3>3. session \in [connected : BOOLEAN, pid : Pids \cup {NoPid}, async : BOOLEAN,
                       initialized : BOOLEAN]
      OBVIOUS
    <3>4. queue \in Seq(Calls) /\ count \in 0..MaxPending /\ throttle \in 0..NoiseLimit
      BY BoundAssumption
    <3> QED BY <3>2, <3>3, <3>4 DEF BridgeTyped
  <2>2. CallTyped  BY DEF CallTyped, CallPcs, Statuses, Decisions
  <2>3. EntryTyped  BY DEF EntryTyped, Decisions
  <2>4. ThreadTyped  BY BoundAssumption DEF ThreadTyped, ThreadPcs
  <2>5. WorldTyped
    <3>1. <<>> \in Seq(Threads)
      OBVIOUS
    <3> QED BY <3>1 DEF WorldTyped
  <2> QED BY <2>1, <2>2, <2>3, <2>4, <2>5 DEF TypeOK
<1>2. QueueSound
  BY BoundAssumption DEF QueueSound, Queued
<1>3. StructureInv
  BY <1>1, <1>2 DEF StructureInv, LiveWhileUsed, BeforeInsertion
<1>4. VerdictInv
  BY CallsAssumption DEF VerdictInv, BeforeInsertion
<1>5. ReviewInv
  BY DEF ReviewInv, InReview
<1> QED BY <1>3, <1>4, <1>5

\* The inductive invariant holds in every reachable state, for every set of calls, clients and
\* verdicts and every bound.
THEOREM BridgeInvariant == Spec => [](StructureInv /\ VerdictInv /\ ReviewInv)
<1>1. StructureInv /\ VerdictInv /\ ReviewInv /\ [Next]_vars
        => (StructureInv /\ VerdictInv /\ ReviewInv)'
  BY StructureStep, VerdictStep, ReviewStep
<1> QED BY InitInv, <1>1, PTL DEF Spec

\* Every reachable state is well typed; in particular PendingEventCount never leaves its range.
THEOREM TypeCorrect == Spec => []TypeOK
<1>1. StructureInv => TypeOK  BY DEF StructureInv
<1> QED BY BridgeInvariant, <1>1, PTL

\* Count, list, Linked flags and allocations agree in every reachable state, however inserts,
\* reads, leaving waiters and disconnects interleave (DriverContext.c).
THEOREM QueueIsSound == Spec => []QueueSound
<1>1. StructureInv => QueueSound  BY DEF StructureInv
<1> QED BY BridgeInvariant, <1>1, PTL

\* No waiter and no list link ever refers to a freed entry.
THEOREM EntriesLiveWhileUsed == Spec => []LiveWhileUsed
<1>1. StructureInv => LiveWhileUsed  BY DEF StructureInv
<1> QED BY BridgeInvariant, <1>1, PTL

\* A call that knows it is held for the user returns the client's final verdict or Block.
THEOREM HeldCallsFailClosed == Spec => []HeldFailsClosed
<1>1. VerdictInv => HeldFailsClosed  BY DEF VerdictInv, HeldFailsClosed
<1> QED BY BridgeInvariant, <1>1, PTL

\* A critical event is allowed with success only by the client's accepted final verdict.
THEOREM CriticalAllowNeedsAnswer == Spec => []CriticalAllowIsAnswered
<1>1. VerdictInv => CriticalAllowIsAnswered
  BY CallsAssumption DEF VerdictInv, CriticalAllowIsAnswered, VerdictOf
<1> QED BY BridgeInvariant, <1>1, PTL

\* A final verdict accepted while the call waits leaves its DecisionEvent signalled.
THEOREM FinalVerdictsNotLost == Spec => []NoLostFinal
<1>1. ReviewInv => NoLostFinal  BY DEF ReviewInv, NoLostFinal
<1> QED BY BridgeInvariant, <1>1, PTL

\* No event is handed to two readers.
THEOREM EventsDeliveredOnce == Spec => []DeliveredOnce
<1>1. ReviewInv => DeliveredOnce  BY DEF ReviewInv, DeliveredOnce
<1> QED BY BridgeInvariant, <1>1, PTL

----------------------------------------------------------------------------
(* The order of the list. *)

\* No element of C stands behind one outside it.
Ordered(s, C) == \A i, j \in DOMAIN s : i < j /\ s[j] \in C => s[i] \in C

\* Removing an element keeps a sequence ordered.
LEMMA RemoveOrdered ==
  ASSUME NEW S, NEW C, NEW s \in Seq(S), NEW i \in 1..Len(s), Ordered(s, C)
  PROVE  Ordered(RemoveAt(s, i), C)
<1> DEFINE r == RemoveAt(s, i)
<1>0. IsRemoval(S, s, i, r)
  BY RemoveAtIsSeq
<1> HIDE DEF r
<1>1. /\ r \in Seq(S) /\ Len(r) = Len(s) - 1 /\ DOMAIN r = 1..(Len(s) - 1)
      /\ \A j \in 1..(Len(s) - 1) : r[j] = IF j < i THEN s[j] ELSE s[j + 1]
  BY <1>0 DEF IsRemoval
<1>2. Len(s) \in Nat /\ DOMAIN s = 1..Len(s)
  OBVIOUS
<1>3. ASSUME NEW j \in DOMAIN r, NEW k \in DOMAIN r, j < k, r[k] \in C
      PROVE  r[j] \in C
  <2>1. k < i => r[j] = s[j] /\ r[k] = s[k] /\ j \in DOMAIN s /\ k \in DOMAIN s
    BY <1>1, <1>2, <1>3
  <2>2. j < i /\ k >= i =>
          r[j] = s[j] /\ r[k] = s[k + 1] /\ j \in DOMAIN s /\ k + 1 \in DOMAIN s /\ j < k + 1
    BY <1>1, <1>2, <1>3
  <2>3. j >= i => /\ r[j] = s[j + 1] /\ r[k] = s[k + 1]
                 /\ j + 1 \in DOMAIN s /\ k + 1 \in DOMAIN s /\ j + 1 < k + 1
    BY <1>1, <1>2, <1>3
  <2> QED BY <2>1, <2>2, <2>3, <1>1, <1>2, <1>3 DEF Ordered
<1> QED BY <1>3 DEF Ordered, r

\* Inserting before the first element outside C, or at the end, keeps a sequence ordered.
LEMMA InsertOrdered ==
  ASSUME NEW S, NEW C, NEW s \in Seq(S), NEW e \in S, NEW i \in 1..(Len(s) + 1), Ordered(s, C),
         e \in C => \A j \in 1..(i - 1) : s[j] \in C,
         e \notin C => i = Len(s) + 1
  PROVE  Ordered(InsertAt(s, i, e), C)
<1> DEFINE r == InsertAt(s, i, e)
<1>0. IsInsertion(S, s, i, e, r)
  BY InsertAtIsSeq
<1> HIDE DEF r
<1>1. /\ r \in Seq(S) /\ Len(r) = Len(s) + 1 /\ DOMAIN r = 1..(Len(s) + 1)
      /\ \A j \in 1..(Len(s) + 1) :
           r[j] = IF j < i THEN s[j] ELSE IF j = i THEN e ELSE s[j - 1]
  BY <1>0 DEF IsInsertion
<1>2. Len(s) \in Nat /\ DOMAIN s = 1..Len(s)
  OBVIOUS
<1>3. ASSUME NEW j \in DOMAIN r, NEW k \in DOMAIN r, j < k, r[k] \in C
      PROVE  r[j] \in C
  <2>1. CASE e \in C
    <3>1. j < i => r[j] = s[j] /\ s[j] \in C  BY <1>1, <1>2, <1>3, <2>1
    <3>2. j = i => r[j] = e  BY <1>1, <1>2, <1>3
    <3>3. j > i => /\ r[j] = s[j - 1] /\ r[k] = s[k - 1]
                  /\ j - 1 \in DOMAIN s /\ k - 1 \in DOMAIN s /\ j - 1 < k - 1
      BY <1>1, <1>2, <1>3
    <3> QED BY <1>1, <1>3, <2>1, <3>1, <3>2, <3>3 DEF Ordered
  <2>2. CASE e \notin C
    <3>1. k < i  BY <1>1, <1>2, <1>3, <2>2
    <3>2. r[j] = s[j] /\ r[k] = s[k] /\ j \in DOMAIN s /\ k \in DOMAIN s
      BY <1>1, <1>2, <1>3, <3>1
    <3> QED BY <1>3, <3>2 DEF Ordered
  <2> QED BY <2>1, <2>2
<1> QED BY <1>3 DEF Ordered, r

\* Every step keeps critical events in front.
LEMMA CriticalFirstStep ==
  ASSUME StructureInv, CriticalFirst, [Next]_vars
  PROVE  CriticalFirst'
<1> BridgeTyped /\ QueueSound /\ Ordered(queue, Critical)
  BY DEF StructureInv, TypeOK, CriticalFirst, Ordered
<1>1. ASSUME NEW i \in 1..Len(queue), queue' = RemoveAt(queue, i)
      PROVE  CriticalFirst'
  <2>1. Ordered(queue', Critical)  BY <1>1, RemoveOrdered DEF BridgeTyped
  <2> QED BY <2>1 DEF CriticalFirst, Ordered
<1>2. ASSUME NEW c \in Calls, Insert(c)
      PROVE  CriticalFirst'
  <2>1. PICK i \in 1..(Len(queue) + 1) : InsertionPoint(c, i) /\ queue' = InsertAt(queue, i, c)
    BY <1>2 DEF Insert
  <2>2. Ordered(queue', Critical)
    BY <2>1, InsertOrdered DEF BridgeTyped, InsertionPoint
  <2> QED BY <2>2 DEF CriticalFirst, Ordered
<1>3. ASSUME NEW c \in Calls, Leave(c)
      PROVE  CriticalFirst'
  <2>1. CASE linked[c]
    <3>1. IndexOf(c) \in 1..Len(queue)
      BY <2>1 DEF QueueSound, Queued, IndexOf, BridgeTyped
    <3> QED BY <1>1, <1>3, <2>1, <3>1 DEF Leave, StillLinked
  <2>2. CASE ~linked[c]
    BY <1>3, <2>2 DEF Leave, StillLinked, CriticalFirst
  <2> QED BY <2>1, <2>2
<1>4. ASSUME NEW t \in Threads, Deliver(t)
      PROVE  CriticalFirst'
  <2>1. PICK i \in 1..Len(queue) : HandOver(t, i)
    BY <1>4 DEF BridgeTyped, Deliver
  <2>2. queue' = RemoveAt(queue, i) \/ queue' = queue
    BY <2>1 DEF HandOver
  <2> QED BY <1>1, <2>2 DEF CriticalFirst
<1>5. ASSUME queue' \in {queue, <<>>}
      PROVE  CriticalFirst'
  BY <1>5 DEF CriticalFirst
<1>6. \/ queue' \in {queue, <<>>}
      \/ \E c \in Calls : Insert(c) \/ Leave(c)
      \/ \E t \in Threads : Deliver(t)
  <2>1. ASSUME NEW c \in Calls, CallStep(c)
        PROVE  Insert(c) \/ Leave(c) \/ queue' = queue
    BY <2>1 DEF CallStep, RaisedIrql, ArriveThrottled, ArriveDisconnected, ArriveFull,
         ArriveDropped, ArriveAdmitted, AllocationFails, Prepare, InsertRefused, Wake,
         ResetDecisionEvent, WaitExpires, bridgeVars
  <2>2. ASSUME NEW t \in Threads, ThreadStep(t)
        PROVE  Deliver(t) \/ queue' \in {queue, <<>>}
    BY ZenonT(30), <2>2 DEF ThreadStep, StartPoll, ScanDelivers, ScanFindsNothing, EnterWait,
         PollExpires,
       DrainOne, DrainDone, Submit, Register, StartDisconnect, ProcessExit, Clear, WakePollers,
       SweepAsync, SweepAnswer, SweepSignal, SweepDone, bridgeVars
  <2> QED BY <2>1, <2>2 DEF Next, Stopped, Shutdown, vars, bridgeVars
<1> QED BY <1>2, <1>3, <1>4, <1>5, <1>6

\* Critical events stand before noise events in every reachable state.
THEOREM CriticalEventsFirst == Spec => []CriticalFirst
<1>1. Init => CriticalFirst  BY DEF Init, CriticalFirst
<1>2. StructureInv /\ CriticalFirst /\ [Next]_vars => CriticalFirst'
  BY CriticalFirstStep
<1> QED BY BridgeInvariant, <1>1, <1>2, PTL DEF Spec

----------------------------------------------------------------------------
(* The refinement. *)

\* The bridge starts where the review protocol starts.
LEMMA ReviewInit == Init => Review!Init
  BY DEF Init, Review!Init, ReviewPhase, ReviewOutcome, InReview, Reviewed

\* A step that moves only call c moves only c's phase and outcome.
LEMMA OtherCalls ==
  ASSUME CallTyped, NEW c \in Calls, NEW p, NEW o,
         \A x \in Calls \ {c} :
           pc'[x] = pc[x] /\ held'[x] = held[x] /\ status'[x] = status[x]
           /\ verdict'[x] = verdict[x] /\ async'[x] = async[x],
         ReviewPhase'[c] = p, ReviewOutcome'[c] = o
  PROVE  /\ ReviewPhase' = [ReviewPhase EXCEPT ![c] = p]
         /\ ReviewOutcome' = [ReviewOutcome EXCEPT ![c] = o]
<1>1. ASSUME NEW x \in Calls \ {c}
      PROVE  ReviewPhase'[x] = ReviewPhase[x] /\ ReviewOutcome'[x] = ReviewOutcome[x]
  BY <1>1 DEF ReviewPhase, ReviewOutcome, InReview, Reviewed
<1>2. /\ ReviewPhase = [x \in Calls |-> ReviewPhase[x]]
      /\ ReviewPhase' = [x \in Calls |-> ReviewPhase'[x]]
  BY DEF ReviewPhase
<1>3. /\ ReviewOutcome = [x \in Calls |-> ReviewOutcome[x]]
      /\ ReviewOutcome' = [x \in Calls |-> ReviewOutcome'[x]]
  BY DEF ReviewOutcome
<1> HIDE DEF ReviewPhase, ReviewOutcome
<1>4. ReviewPhase' = [ReviewPhase EXCEPT ![c] = p]
  BY <1>1, <1>2
<1>5. ReviewOutcome' = [ReviewOutcome EXCEPT ![c] = o]
  BY <1>1, <1>3
<1> QED BY <1>4, <1>5

\* A step of QueueEventAndWait is a step of the review protocol, or none.
LEMMA CallStepReviewed ==
  ASSUME StructureInv, VerdictInv, ReviewInv, NEW c \in Calls, CallStep(c)
  PROVE  [Review!Next]_Review!reviewVars
<1> /\ CallTyped /\ EntryTyped /\ CallVerdict(c) /\ CallReview(c)
  BY ReviewParts, VerdictParts DEF StructureInv, TypeOK
<1>1. UNCHANGED final
  BY CallFrame
<1>2. /\ \A x \in Calls \ {c} :
           /\ pc'[x] = pc[x] /\ held'[x] = held[x] /\ status'[x] = status[x]
           /\ verdict'[x] = verdict[x] /\ async'[x] = async[x]
  <2> USE DEF callVars, entryVars, CallTyped, EntryTyped, Return, GoTo
  <2> QED BY DEF CallStep, RaisedIrql, ArriveThrottled, ArriveDisconnected, ArriveFull,
         ArriveDropped, ArriveAdmitted, AllocationFails, Prepare, Insert, InsertRefused, Wake,
         ResetDecisionEvent, WaitExpires, Leave
<1>3. ASSUME NEW p, NEW o, ReviewPhase'[c] = p, ReviewOutcome'[c] = o
      PROVE  /\ ReviewPhase' = [ReviewPhase EXCEPT ![c] = p]
             /\ ReviewOutcome' = [ReviewOutcome EXCEPT ![c] = o]
  BY <1>2, <1>3, OtherCalls
<1>4. CASE /\ ReviewPhase'[c] = ReviewPhase[c] /\ ReviewOutcome'[c] = ReviewOutcome[c]
  <2>1. /\ [ReviewPhase EXCEPT ![c] = ReviewPhase[c]] = ReviewPhase
        /\ [ReviewOutcome EXCEPT ![c] = ReviewOutcome[c]] = ReviewOutcome
    BY DEF ReviewPhase, ReviewOutcome
  <2>2. ReviewPhase' = ReviewPhase /\ ReviewOutcome' = ReviewOutcome
    BY <1>3, <1>4, <2>1
  <2> QED BY <1>1, <2>2 DEF Review!reviewVars
<1>5. CASE /\ ReviewPhase[c] = "unasked" /\ ReviewPhase'[c] = "asked"
           /\ ReviewOutcome'[c] = ReviewOutcome[c]
  <2>1. ReviewPhase' = [ReviewPhase EXCEPT ![c] = "asked"] /\ ReviewOutcome' = ReviewOutcome
    BY <1>3, <1>5 DEF ReviewOutcome
  <2>2. Review!Ask(c)
    BY <1>1, <1>5, <2>1 DEF Review!Ask
  <2> QED BY <2>2 DEF Review!Next
<1>6. CASE ReviewPhase[c] = "unasked" /\ ReviewPhase'[c] = "over" /\ ReviewOutcome'[c] = "unreviewed"
  <2>1. Review!Skip(c)
    BY <1>1, <1>3, <1>6 DEF Review!Skip
  <2> QED BY <2>1 DEF Review!Next
<1>7. CASE /\ ReviewPhase[c] = "asked" /\ ReviewPhase'[c] = "held"
           /\ ReviewOutcome'[c] = ReviewOutcome[c]
  <2>1. ReviewPhase' = [ReviewPhase EXCEPT ![c] = "held"] /\ ReviewOutcome' = ReviewOutcome
    BY <1>3, <1>7 DEF ReviewOutcome
  <2>2. Review!Hold(c)
    BY <1>1, <1>7, <2>1 DEF Review!Hold
  <2> QED BY <2>2 DEF Review!Next
<1>8. CASE /\ ReviewPhase[c] \in {"asked", "held"} /\ ReviewPhase'[c] = "over"
           /\ ReviewOutcome'[c] \in Review!Votes
           /\ \/ ReviewOutcome'[c] = Review!Default(c)
              \/ Review!Counts(c) /\ ReviewOutcome'[c] = final[c]
  <2>1. Review!Conclude(c, ReviewOutcome'[c])
    BY <1>1, <1>3, <1>8 DEF Review!Conclude
  <2> QED BY <1>8, <2>1 DEF Review!Next
<1> USE DEF ReviewPhase, ReviewOutcome, InReview, Reviewed, CallTyped, EntryTyped, callVars,
     entryVars,
            Return, GoTo
<1>9. CASE Leave(c)
  <2>1. /\ pc[c] = "leaving" /\ pc'[c] = "returned" /\ status'[c] = status[c]
        /\ verdict'[c] = Outcome(c) /\ async'[c] = async[c]
    BY <1>9 DEF Leave
  <2>2. status[c] \in {"success", "timeout"} /\ ~async[c]
    BY <2>1 DEF CallVerdict, CallReview
  <2>3. ReviewPhase'[c] = "over" /\ ReviewOutcome'[c] = Outcome(c)
        /\ ReviewPhase[c] = IF held[c] THEN "held" ELSE "asked"
    BY <2>1, <2>2
  <2>4. Outcome(c) = Review!Default(c) \/ (Review!Counts(c) /\ Outcome(c) = final[c])
    BY <2>1, <2>3 DEF Outcome, CallVerdict, VerdictOf, Review!Default, Review!Counts, Decisions
  <2>5. Outcome(c) \in Review!Votes
    BY <2>4 DEF Review!Default, Review!Votes, Review!Counts, Decisions
  <2> QED BY <1>8, <2>3, <2>4, <2>5
<1>10. CASE RaisedIrql(c) \/ ArriveThrottled(c) \/ AllocationFails(c) \/ InsertRefused(c)
  BY <1>6, <1>10 DEF RaisedIrql, ArriveThrottled, ArriveDropped, AllocationFails, InsertRefused
<1>11. ASSUME NEW expired \in BOOLEAN, ArriveDisconnected(c, expired) \/ ArriveFull(c, expired)
       PROVE  [Review!Next]_Review!reviewVars
  BY <1>6, <1>11 DEF ArriveDisconnected, ArriveFull, ArriveDropped
<1>12. ASSUME NEW expired \in BOOLEAN, ArriveAdmitted(c, expired)
       PROVE  [Review!Next]_Review!reviewVars
  BY <1>4, <1>12 DEF ArriveAdmitted
<1>13. CASE Prepare(c)  BY <1>4, <1>13 DEF Prepare
<1>14. CASE Insert(c)
  BY <1>5, <1>6, <1>14 DEF Insert, CallVerdict, BeforeInsertion
<1>15. CASE Wake(c)
  BY <1>4, <1>7, <1>15 DEF Wake, CallReview
<1>16. CASE ResetDecisionEvent(c) \/ WaitExpires(c)
  BY <1>4, <1>16 DEF ResetDecisionEvent, WaitExpires
<1> QED BY <1>9, <1>10, <1>11, <1>12, <1>13, <1>14, <1>15, <1>16 DEF CallStep

\* A control request is a client's final vote, or no step of the review protocol.
LEMMA ThreadStepReviewed ==
  ASSUME StructureInv, VerdictInv, ReviewInv, NEW t \in Threads, ThreadStep(t)
  PROVE  [Review!Next]_Review!reviewVars
<1> /\ CallTyped /\ EntryTyped /\ ListSound /\ \A x \in Calls : CallReview(x)
  BY StructureParts, ReviewParts DEF TypeOK
<1>1. UNCHANGED <<pc, held, status, verdict, async>>
  BY ThreadFrame DEF callVars
<1>2. UNCHANGED <<ReviewPhase, ReviewOutcome>>
  BY <1>1 DEF ReviewPhase, ReviewOutcome, InReview, Reviewed
<1>3. ASSUME NEW c \in Calls, NEW d \in Verdicts, Submit(t, c, d), d # "pending"
      PROVE  Review!Next
  <2>1. linked[c] /\ readers[c] # <<>> /\ final[c] = "none"
    BY <1>3 DEF Submit, HasRead, SubmitAccepts
  <2>2. ~async[c] /\ pc[c] \notin BeforeInsertion
    BY <2>1 DEF CallReview, ListSound, BeforeSound
  <2>3. InReview(c)
    BY <2>1, <2>2 DEF ListSound, ReturnedSound, BeforeInsertion, InReview, CallTyped, CallPcs
  <2>4. d \in Review!Votes
    BY <1>3, VerdictAssumption DEF Review!Votes, Decisions
  <2>5. Review!Vote(c, d)
    BY <1>2, <1>3, <2>1, <2>3 DEF Review!Vote, Submit, ReviewPhase
  <2> QED BY <2>4, <2>5 DEF Review!Next
<1>4. UNCHANGED final \/ \E c \in Calls, d \in Verdicts : Submit(t, c, d) /\ d # "pending"
  BY ZenonT(30) DEF ThreadStep, StartPoll, ScanDelivers, ScanFindsNothing, EnterWait,
       PollExpires,
       DrainOne, DrainDone, Deliver, Submit, Register, StartDisconnect, ProcessExit, Clear,
       WakePollers, SweepAsync, SweepAnswer, SweepSignal, SweepDone, entryVars
<1> QED BY <1>2, <1>3, <1>4 DEF Review!reviewVars

\* The bridge implements the review protocol of EventReview: its every behaviour is, seen
\* through the refinement mapping, a behaviour of that protocol.
THEOREM BridgeImplementsReview == Spec => ImplementsReview
<1>1. Init => Review!Init
  BY ReviewInit
<1>2. StructureInv /\ VerdictInv /\ ReviewInv /\ [Next]_vars => [Review!Next]_Review!reviewVars
  <2> SUFFICES ASSUME StructureInv, VerdictInv, ReviewInv, [Next]_vars
               PROVE  [Review!Next]_Review!reviewVars
    OBVIOUS
  <2>1. ASSUME UNCHANGED <<callVars, final, async>>
        PROVE  UNCHANGED Review!reviewVars
    BY <2>1 DEF Review!reviewVars, ReviewPhase, ReviewOutcome, InReview, Reviewed, callVars
  <2>2. CASE Shutdown  BY <2>1, <2>2, ShutdownQuiet
  <2>3. CASE UNCHANGED vars  BY <2>1, <2>3 DEF vars, entryVars
  <2> QED BY <2>2, <2>3, CallStepReviewed, ThreadStepReviewed DEF Next, Stopped
<1> QED BY BridgeInvariant, <1>1, <1>2, PTL DEF Spec, ImplementsReview, Review!Spec

----------------------------------------------------------------------------
(* Accepted verdicts. *)

\* What makes AcceptedVerdictStands inductive: a Timeout that is not the client's own answer is
\* a disconnect's, whose entry no answer reaches any more, and a waiter that leaves with
\* another verdict than the accepted one leaves with that Timeout.
CallStands(c) ==
  /\ (decision[c] = "timeout" /\ final[c] # "timeout"
        => ~linked[c] /\ pc[c] \notin BeforeInsertion)
  /\ (final[c] # "none" => decision[c] \in {final[c], "timeout"})
  /\ (pc[c] = "leaving" /\ status[c] = "success" /\ verdict[c] # final[c]
        => verdict[c] = "timeout" /\ decision[c] = "timeout")
  /\ (pc[c] = "returned" /\ final[c] \notin {"none", verdict[c]}
        => /\ status[c] = "timeout" \/ decision[c] = "timeout"
           /\ verdict[c] = IF held[c] THEN "block" ELSE "timeout")
StandsInv == \A c \in Calls : CallStands(c)

\* A step of QueueEventAndWait keeps the accepted verdicts standing.
LEMMA CallStepStands ==
  ASSUME StructureInv, VerdictInv, ReviewInv, StandsInv, NEW c \in Calls, CallStep(c)
  PROVE  StandsInv'
<1> /\ CallTyped /\ EntryTyped /\ CallStands(c) /\ CallVerdict(c) /\ CallReview(c)
  BY VerdictParts, ReviewParts DEF StructureInv, TypeOK, StandsInv
<1>1. UNCHANGED <<decision, final>>
  BY CallFrame
<1>2. ASSUME NEW x \in Calls \ {c}
      PROVE  CallStands(x)'
  <2>1. /\ pc'[x] = pc[x] /\ status'[x] = status[x] /\ verdict'[x] = verdict[x]
        /\ held'[x] = held[x] /\ linked'[x] = linked[x]
    BY DEF CallTyped, EntryTyped, callVars, entryVars, Return, GoTo, CallStep, RaisedIrql,
           ArriveThrottled, ArriveDisconnected, ArriveFull, ArriveDropped, ArriveAdmitted,
           AllocationFails, Prepare, Insert, InsertRefused, Wake, ResetDecisionEvent,
           WaitExpires, Leave
  <2>2. CallStands(x)
    BY DEF StandsInv
  <2> QED BY <1>1, <2>1, <2>2 DEF CallStands
<1>3. CallStands(c)'
  <2> USE <1>1 DEF CallStands, CallTyped, EntryTyped, Return, GoTo
  <2>1. ASSUME pc[c] \in BeforeInsertion, UNCHANGED linked,
               pc' = [pc EXCEPT ![c] = pc'[c]], pc'[c] # "leaving"
        PROVE  CallStands(c)'
    BY <2>1 DEF CallVerdict
  <2>2. CASE \/ RaisedIrql(c) \/ ArriveThrottled(c)
             \/ \E expired \in BOOLEAN : ArriveDisconnected(c, expired) \/ ArriveFull(c, expired)
             \/ \E expired \in BOOLEAN : ArriveAdmitted(c, expired)
             \/ AllocationFails(c) \/ Prepare(c) \/ InsertRefused(c)
    <3>1. /\ pc[c] \in BeforeInsertion /\ UNCHANGED linked
          /\ pc' = [pc EXCEPT ![c] = pc'[c]] /\ pc'[c] # "leaving"
      BY <2>2 DEF RaisedIrql, ArriveThrottled, ArriveDisconnected, ArriveFull, ArriveDropped,
           ArriveAdmitted, AllocationFails, Prepare, InsertRefused, BeforeInsertion, entryVars
    <3> QED BY <2>1, <3>1
  <2>3. CASE Insert(c)
    <3>1. final[c] = "none" /\ decision[c] # "timeout" /\ pc'[c] \in {"returned", "waiting"}
      BY <2>3 DEF Insert, CallVerdict, BeforeInsertion
    <3> QED BY <3>1
  <2>4. CASE Wake(c)
    <3>1. /\ pc'[c] \in {"resetting", "leaving"} /\ verdict'[c] = decision[c]
          /\ (pc'[c] = "leaving" => decision[c] # "pending") /\ UNCHANGED linked
          /\ decision[c] \in {"timeout", final[c], "pending"} /\ pc[c] = "waiting"
      BY <2>4 DEF Wake, entryVars, CallVerdict, VerdictOf
    <3> QED BY <3>1 DEF BeforeInsertion
  <2>5. CASE ResetDecisionEvent(c)
    BY <2>5 DEF ResetDecisionEvent, BeforeInsertion
  <2>6. CASE WaitExpires(c)
    BY <2>6 DEF WaitExpires, entryVars, BeforeInsertion
  <2>7. CASE Leave(c)
    <3>1. /\ pc[c] = "leaving" /\ pc'[c] = "returned" /\ ~linked'[c] /\ verdict'[c] = Outcome(c)
          /\ UNCHANGED <<status, held>>
      BY <2>7 DEF Leave
    <3>2. CASE status[c] = "success" /\ verdict[c] # "timeout"
      BY <3>1, <3>2 DEF Outcome, BeforeInsertion
    <3>3. CASE status[c] = "success" /\ verdict[c] = "timeout"
      BY <3>1, <3>3 DEF Outcome, BeforeInsertion
    <3>4. CASE status[c] # "success"
      BY <3>1, <3>4 DEF Outcome, BeforeInsertion, CallVerdict
    <3> QED BY <3>2, <3>3, <3>4
  <2> QED BY <2>2, <2>3, <2>4, <2>5, <2>6, <2>7 DEF CallStep
<1> QED BY <1>2, <1>3 DEF StandsInv

\* A control request keeps them standing: only a linked entry takes an answer, and none twice.
LEMMA ThreadStepStands ==
  ASSUME StructureInv, VerdictInv, ReviewInv, StandsInv, NEW t \in Threads, ThreadStep(t)
  PROVE  StandsInv'
<1> /\ CallTyped /\ EntryTyped /\ ThreadTyped /\ ListSound
    /\ \A x \in Calls : CallReview(x) /\ CallVerdict(x) /\ CallStands(x)
  BY StructureParts, VerdictParts, ReviewParts DEF TypeOK, StandsInv
<1>1. UNCHANGED <<pc, held, status, verdict>>
  BY ThreadFrame DEF callVars
<1>2. ASSUME NEW c \in Calls, NEW d \in Verdicts, Submit(t, c, d)
      PROVE  StandsInv'
  <2>1. /\ linked[c] /\ final[c] = "none" /\ readers[c] # <<>> /\ UNCHANGED linked
        /\ decision' = [decision EXCEPT ![c] = d]
        /\ final' = IF d = "pending" THEN final ELSE [final EXCEPT ![c] = d]
    BY <1>2 DEF Submit, SubmitAccepts, HasRead
  <2>2. pc[c] # "returned"
    BY <2>1 DEF CallReview, ListSound, ReturnedSound
  <2>3. decision[c] # "timeout" /\ pc[c] \notin BeforeInsertion
    BY <2>1 DEF CallStands, ListSound, BeforeSound
  <2>4. ~(pc[c] = "leaving" /\ status[c] = "success")
    BY <2>1, <2>3 DEF CallStands, CallTyped, Decisions
  <2>5. CallStands(c)'
    BY <1>1, <2>1, <2>2, <2>3, <2>4 DEF CallStands, EntryTyped
  <2>6. ASSUME NEW x \in Calls \ {c} PROVE CallStands(x)'
    BY <1>1, <2>1 DEF CallStands, EntryTyped
  <2> QED BY <2>5, <2>6 DEF StandsInv
<1>3. CASE SweepAnswer(t)
  <2> DEFINE c == Head(localList[t])
  <2>1. c \in Calls /\ c = localList[t][1] /\ 1 \in DOMAIN localList[t]
    BY <1>3 DEF SweepAnswer, ThreadTyped
  <2>2. ~linked[c] /\ pc[c] \notin BeforeInsertion
    BY <2>1 DEF ListSound, LocalSound
  <2>3. /\ UNCHANGED <<final, linked>>
        /\ decision' = decision \/ decision' = [decision EXCEPT ![c] = "timeout"]
    BY <1>3 DEF SweepAnswer, Touch
  <2> HIDE DEF c
  <2>4. ASSUME NEW x \in Calls PROVE CallStands(x)'
    BY <1>1, <2>2, <2>3 DEF CallStands, EntryTyped
  <2> QED BY <2>4 DEF StandsInv
<1>4. CASE UNCHANGED <<decision, final>> /\ \A x \in Calls : linked'[x] => linked[x]
  BY <1>1, <1>4 DEF CallStands, StandsInv
<1>5. \/ SweepAnswer(t) \/ \E c \in Calls, d \in Verdicts : Submit(t, c, d)
      \/ UNCHANGED <<decision, final>> /\ \A x \in Calls : linked'[x] => linked[x]
  <2>1. CASE ScanDelivers(t) \/ DrainOne(t)
    BY <2>1 DEF ScanDelivers, DrainOne, Deliver, HandOver, EntryTyped
  <2>2. CASE Clear(t)
    BY <2>2 DEF Clear
  <2> QED BY ZenonT(30), <2>1, <2>2 DEF ThreadStep, StartPoll, ScanFindsNothing, EnterWait,
       PollExpires, DrainDone, Register, StartDisconnect, ProcessExit, WakePollers, SweepAsync,
       SweepSignal, SweepDone, entryVars
<1> QED BY <1>2, <1>3, <1>4, <1>5

\* A call whose event got an accepted verdict returns it, or the default of its phase if the
\* wait ran out or a disconnect overwrote it (QueueEventAndWait, SubmitDecision).
THEOREM AcceptedVerdictsStand == Spec => []AcceptedVerdictStands
<1>1. Init => StandsInv
  BY DEF Init, StandsInv, CallStands, BeforeInsertion
<1>2. StructureInv /\ VerdictInv /\ ReviewInv /\ StandsInv /\ [Next]_vars => StandsInv'
  <2> SUFFICES ASSUME StructureInv, VerdictInv, ReviewInv, StandsInv, [Next]_vars
               PROVE  StandsInv'
    OBVIOUS
  <2>1. CASE Shutdown
    <3>1. UNCHANGED <<callVars, decision, final>> /\ \A x \in Calls : linked'[x] => linked[x]
      BY <2>1, ShutdownQuiet DEF Shutdown
    <3> QED BY <3>1 DEF StandsInv, CallStands, callVars
  <2>2. CASE UNCHANGED vars
    BY <2>2 DEF vars, callVars, entryVars, StandsInv, CallStands
  <2> QED BY <2>1, <2>2, CallStepStands, ThreadStepStands DEF Next, Stopped
<1>3. StandsInv => AcceptedVerdictStands
  BY DEF StandsInv, CallStands, AcceptedVerdictStands
<1> QED BY <1>1, <1>2, <1>3, BridgeInvariant, PTL DEF Spec

----------------------------------------------------------------------------
(* The owner of an async entry. *)

\* What makes AsyncOwned inductive: outside its sweep a thread has no list, no entry stands in
\* two places of the threads' lists, and an async entry in one of them is not freed.
Sweeping == {"cleared", "sweeping", "answered"}
ListsSwept == \A t \in Threads : at[t] \notin Sweeping => localList[t] = <<>>
ListsApart ==
  \A t, u \in Threads : \A i \in DOMAIN localList[t], j \in DOMAIN localList[u] :
    localList[t][i] = localList[u][j] => t = u /\ i = j
AsyncOwnedBy(c) ==
  /\ (pc[c] \in {"idle", "admitted"} => ~async[c])
  /\ (async[c] /\ pc[c] = "returned" /\ memory[c] = "live"
        => linked[c] \/ \E t \in Threads : Has(localList[t], c))
  /\ (async[c] /\ (\E t \in Threads : Has(localList[t], c)) => memory[c] = "live")
OwnedInv == ListsSwept /\ ListsApart /\ \A c \in Calls : AsyncOwnedBy(c)

\* An entry in a thread's list has been inserted and is no longer in the pending list.
LEMMA HeldIsDetached ==
  ASSUME StructureInv, NEW t \in Threads, NEW c, Has(localList[t], c)
  PROVE  c \in Calls /\ ~linked[c] /\ pc[c] \notin BeforeInsertion
<1> ThreadTyped /\ LocalSound
  BY StructureParts DEF TypeOK, ListSound
<1> QED BY DEF ThreadTyped, LocalSound, Has

\* A step of QueueEventAndWait keeps the owners.
LEMMA CallStepOwned ==
  ASSUME StructureInv, VerdictInv, ReviewInv, OwnedInv, NEW c \in Calls, CallStep(c)
  PROVE  OwnedInv'
<1> /\ CallTyped /\ EntryTyped /\ ThreadTyped /\ ListSound
    /\ \A x \in Calls : CallReview(x) /\ AsyncOwnedBy(x)
  BY StructureParts, ReviewParts DEF TypeOK, OwnedInv
<1>1. UNCHANGED localList
  BY CallFrame
<1>2. ListsSwept'
  <2>1. CASE Insert(c)
    <3>1. \A u \in Threads : at'[u] = at[u] \/ (at[u] = "blocked" /\ at'[u] = "polling")
      BY <2>1 DEF Insert, SignalAvailable, Blocked, ThreadTyped
    <3> QED BY <1>1, <3>1 DEF OwnedInv, ListsSwept, Sweeping
  <2>2. Insert(c) \/ UNCHANGED at
    BY DEF CallStep, RaisedIrql, ArriveThrottled, ArriveDisconnected, ArriveFull,
         ArriveDropped, ArriveAdmitted, AllocationFails, Prepare, InsertRefused, Wake,
         ResetDecisionEvent, WaitExpires, Leave, threadVars
  <2> QED BY <1>1, <2>1, <2>2 DEF OwnedInv, ListsSwept
<1>3. ListsApart'
  BY <1>1 DEF OwnedInv, ListsApart
<1>4. ASSUME NEW x \in Calls \ {c}
      PROVE  AsyncOwnedBy(x)'
  <2>1. /\ pc'[x] = pc[x] /\ memory'[x] = memory[x] /\ async'[x] = async[x]
        /\ linked'[x] = linked[x]
    BY DEF CallTyped, EntryTyped, callVars, entryVars, Return, GoTo, CallStep, RaisedIrql,
           ArriveThrottled, ArriveDisconnected, ArriveFull, ArriveDropped, ArriveAdmitted,
           AllocationFails, Prepare, Insert, InsertRefused, Wake, ResetDecisionEvent,
           WaitExpires, Leave
  <2>2. \A t \in Threads : Has(localList[t], x)' <=> Has(localList[t], x)
    BY <1>1 DEF Has
  <2> QED BY <2>1, <2>2 DEF AsyncOwnedBy
<1>5. AsyncOwnedBy(c)'
  <2>1. \A t \in Threads : Has(localList[t], c)' <=> Has(localList[t], c)
    BY <1>1 DEF Has
  <2>2. (\E t \in Threads : Has(localList[t], c)) => pc[c] \notin BeforeInsertion
    BY HeldIsDetached
  <2> USE <2>1, <2>2 DEF AsyncOwnedBy, CallTyped, EntryTyped, Return, GoTo, BeforeInsertion
  <2>3. CASE \/ RaisedIrql(c) \/ ArriveThrottled(c) \/ AllocationFails(c)
             \/ \E expired \in BOOLEAN : ArriveDisconnected(c, expired) \/ ArriveFull(c, expired)
             \/ \E expired \in BOOLEAN : ArriveAdmitted(c, expired)
    <3>1. pc[c] \in {"idle", "admitted"} /\ UNCHANGED <<async, memory, linked>>
      BY <2>3 DEF RaisedIrql, ArriveThrottled, ArriveDisconnected, ArriveFull, ArriveDropped,
           ArriveAdmitted, AllocationFails, entryVars
    <3> QED BY <3>1
  <2>4. CASE Prepare(c)
    BY <2>4 DEF Prepare
  <2>5. CASE InsertRefused(c)
    BY <2>5 DEF InsertRefused
  <2>6. CASE Insert(c)
    <3>1. /\ pc[c] = "prepared" /\ linked'[c] /\ UNCHANGED <<async, memory>>
          /\ pc'[c] \in {"returned", "waiting"}
      BY <2>6 DEF Insert
    <3> QED BY <3>1
  <2>7. CASE Wake(c) \/ ResetDecisionEvent(c) \/ WaitExpires(c) \/ Leave(c)
    <3>1. ~async[c] /\ UNCHANGED async /\ pc'[c] \notin {"idle", "admitted"}
      BY <2>7 DEF Wake, ResetDecisionEvent, WaitExpires, Leave, CallReview, InReview, entryVars
    <3> QED BY <3>1
  <2> QED BY <2>3, <2>4, <2>5, <2>6, <2>7 DEF CallStep
<1> QED BY <1>2, <1>3, <1>4, <1>5 DEF OwnedInv

\* Taking the head off one of the lists takes that entry, and no other, out of all of them.
LEMMA HeadReleased ==
  ASSUME StructureInv, ListsApart, NEW t \in Threads, localList[t] # <<>>,
         localList' = [localList EXCEPT ![t] = Tail(@)]
  PROVE  /\ Head(localList[t]) \in Calls
         /\ ListsApart'
         /\ \A u \in Threads : ~Has(localList'[u], Head(localList[t]))
         /\ \A x \in Calls \ {Head(localList[t])} :
              (\E u \in Threads : Has(localList[u], x))
                => (\E u \in Threads : Has(localList[u], x))'
<1> DEFINE s == localList[t]
           c == Head(s)
<1>0. ThreadTyped
  BY DEF StructureInv, TypeOK
<1>1. s \in Seq(Calls) /\ s # <<>>
  BY <1>0 DEF ThreadTyped
<1>2. /\ c = s[1] /\ 1 \in DOMAIN s /\ Tail(s) \in Seq(Calls)
      /\ DOMAIN s = 1..Len(s) /\ DOMAIN Tail(s) = 1..(Len(s) - 1) /\ Len(s) \in Nat \ {0}
      /\ \A i \in 1..(Len(s) - 1) : Tail(s)[i] = s[i + 1]
  BY <1>1
<1>3. /\ localList'[t] = Tail(s)
      /\ \A u \in Threads \ {t} : localList'[u] = localList[u]
  BY <1>0 DEF ThreadTyped
<1> HIDE DEF s, c
<1>4. localList[t] = s
  BY DEF s
\* The place an element of a list stood at before the step.
<1> DEFINE Before(u, i) == IF u = t THEN i + 1 ELSE i
<1>5. ASSUME NEW u \in Threads, NEW i \in DOMAIN localList'[u]
      PROVE  /\ Before(u, i) \in DOMAIN localList[u]
             /\ localList'[u][i] = localList[u][Before(u, i)]
             /\ u = t => Before(u, i) # 1
  <2>1. CASE u = t
    <3>1. i \in 1..(Len(s) - 1) /\ i + 1 \in 1..Len(s) /\ i + 1 # 1
      BY <1>2, <1>3, <1>5, <2>1
    <3> QED BY <1>2, <1>3, <1>4, <2>1, <3>1
  <2>2. CASE u # t
    BY <1>3, <1>5, <2>2
  <2> QED BY <2>1, <2>2
<1> HIDE DEF Before
<1>6. ListsApart'
  <2> SUFFICES ASSUME NEW u \in Threads, NEW w \in Threads,
                      NEW i \in DOMAIN localList'[u], NEW j \in DOMAIN localList'[w],
                      localList'[u][i] = localList'[w][j]
               PROVE  u = w /\ i = j
    BY DEF ListsApart
  <2>1. localList[u][Before(u, i)] = localList[w][Before(w, j)]
    BY <1>5
  <2>2. u = w /\ Before(u, i) = Before(w, j)
    BY <1>5, <2>1 DEF ListsApart
  <2>3. i \in Int /\ j \in Int
    <3>1. localList' \in [Threads -> Seq(Calls)]
      BY <1>0, <1>2, <1>4 DEF ThreadTyped
    <3> QED BY <3>1
  <2> QED BY <2>2, <2>3 DEF Before
<1>7. ASSUME NEW u \in Threads, NEW i \in DOMAIN localList'[u], localList'[u][i] = c
      PROVE  FALSE
  <2>1. localList[u][Before(u, i)] = localList[t][1]
    BY <1>2, <1>4, <1>5, <1>7
  <2>2. u = t /\ Before(u, i) = 1
    BY <1>2, <1>4, <1>5, <2>1 DEF ListsApart
  <2> QED BY <1>5, <2>2
<1>8. ASSUME NEW x \in Calls, x # c, NEW u \in Threads, Has(localList[u], x)
      PROVE  Has(localList'[u], x)
  <2>1. CASE u # t
    BY <1>3, <1>8, <2>1 DEF Has
  <2>2. CASE u = t
    <3>1. PICK i \in 1..Len(s) : s[i] = x /\ i # 1
      BY <1>2, <1>4, <1>8, <2>2 DEF Has
    <3>2. i - 1 \in 1..(Len(s) - 1) /\ (i - 1) + 1 = i
      BY <1>2, <3>1
    <3>3. Tail(s)[i - 1] = x
      BY <1>2, <3>1, <3>2
    <3>4. i - 1 \in DOMAIN localList'[u] /\ localList'[u][i - 1] = x
      BY <1>2, <1>3, <2>2, <3>2, <3>3
    <3> QED BY <3>4 DEF Has
  <2> QED BY <2>1, <2>2
<1>9. c \in Calls
  BY <1>1, <1>2
<1> QED BY <1>6, <1>7, <1>8, <1>9 DEF Has, s, c

\* A control request keeps the owners: a read or a disconnect takes an entry from the list, and
\* only the disconnect whose list holds it releases it.
LEMMA ThreadStepOwned ==
  ASSUME StructureInv, VerdictInv, ReviewInv, OwnedInv, NEW t \in Threads, ThreadStep(t)
  PROVE  OwnedInv'
<1> /\ CallTyped /\ EntryTyped /\ ThreadTyped /\ BridgeTyped /\ ListSound
    /\ ListsSwept /\ ListsApart
    /\ \A x \in Calls : AsyncOwnedBy(x)
  BY StructureParts DEF TypeOK, OwnedInv
<1>1. UNCHANGED <<pc, async>>
  BY ThreadFrame DEF callVars
<1>2. ASSUME UNCHANGED <<localList, linked, memory>>, ListsSwept'
      PROVE  OwnedInv'
  BY <1>1, <1>2 DEF OwnedInv, ListsApart, AsyncOwnedBy, Has
<1>3. CASE ScanDelivers(t) \/ DrainOne(t)
  <2>1. /\ at[t] \notin Sweeping /\ UNCHANGED localList /\ Deliver(t)
        /\ \A u \in Threads \ {t} : at'[u] = at[u]
    BY <1>3 DEF ScanDelivers, DrainOne, MayDrain, Deliver, Move, Sweeping, ThreadTyped
  <2>2. ListsSwept' /\ ListsApart'
    BY <2>1 DEF ListsSwept, ListsApart
  <2>3. PICK i \in DOMAIN queue : HandOver(t, i)
    BY <2>1 DEF Deliver
  <2>4. queue[i] \in Calls /\ linked[queue[i]]
    BY <2>3 DEF BridgeTyped, ListSound, QueueSound, Queued
  <2>5. \A u \in Threads : ~Has(localList[u], queue[i])
    BY <2>4, HeldIsDetached
  <2>6. ASSUME NEW x \in Calls PROVE AsyncOwnedBy(x)'
    <3>1. \A u \in Threads : Has(localList[u], x)' <=> Has(localList[u], x)
      BY <2>1 DEF Has
    <3>2. CASE x # queue[i] \/ ~async[x]
      <4>1. linked'[x] = linked[x] /\ memory'[x] = memory[x]
        BY <2>3, <2>4, <3>2 DEF HandOver, ReleasedOnRead, EntryTyped
      <4> QED BY <1>1, <3>1, <4>1 DEF AsyncOwnedBy
    <3>3. CASE x = queue[i] /\ async[x]
      <4>1. memory'[x] = "freed"
        BY <2>3, <2>4, <3>3 DEF HandOver, ReleasedOnRead, EntryTyped
      <4> QED BY <1>1, <2>5, <3>1, <3>3, <4>1 DEF AsyncOwnedBy
    <3> QED BY <3>2, <3>3
  <2> QED BY <2>2, <2>6 DEF OwnedInv
<1>4. CASE Clear(t)
  <2>1. /\ at[t] = "clearing" /\ at'[t] = "cleared" /\ UNCHANGED memory
        /\ \A u \in Threads \ {t} : at'[u] = at[u] /\ localList'[u] = localList[u]
        /\ localList'[t] = queue
        /\ \A x \in Calls : linked'[x] = (linked[x] /\ ~Queued(x))
    BY <1>4 DEF Clear, Move, ThreadTyped
  <2>2. localList[t] = <<>>
    BY <2>1 DEF ListsSwept, Sweeping
  <2>3. ListsSwept'
    BY <2>1 DEF ListsSwept, Sweeping
  <2>4. /\ \A i \in DOMAIN queue : linked[queue[i]]
        /\ \A i, j \in DOMAIN queue : queue[i] = queue[j] => i = j
        /\ \A x \in Calls : linked[x] => Has(queue, x) /\ memory[x] = "live"
    BY DEF BridgeTyped, ListSound, QueueSound, Queued, Has
  <2>5. \A u \in Threads : \A i \in DOMAIN localList[u] : ~linked[localList[u][i]]
    BY DEF ListSound, LocalSound
  <2>6. ListsApart'
    <3> SUFFICES ASSUME NEW u \in Threads, NEW w \in Threads,
                        NEW i \in DOMAIN localList'[u], NEW j \in DOMAIN localList'[w],
                        localList'[u][i] = localList'[w][j]
                 PROVE  u = w /\ i = j
      BY DEF ListsApart
    <3>1. CASE u = t /\ w = t  BY <2>1, <2>4, <3>1
    <3>2. CASE u # t /\ w # t  BY <2>1, <3>2 DEF ListsApart
    <3>3. CASE u = t /\ w # t  BY <2>1, <2>4, <2>5, <3>3
    <3>4. CASE u # t /\ w = t  BY <2>1, <2>4, <2>5, <3>4
    <3> QED BY <3>1, <3>2, <3>3, <3>4
  <2>7. ASSUME NEW x \in Calls PROVE AsyncOwnedBy(x)'
    <3>1. Has(queue, x) <=> linked[x]
      BY DEF BridgeTyped, ListSound, QueueSound, Queued, Has
    <3>2. \A u \in Threads : Has(localList[u], x)'
            <=> (Has(localList[u], x) \/ (u = t /\ linked[x]))
      <4>1. ~Has(localList[t], x)
        BY <2>2 DEF Has
      <4>2. ASSUME NEW u \in Threads \ {t} PROVE Has(localList[u], x)' <=> Has(localList[u], x)
        BY <2>1 DEF Has
      <4>3. Has(localList[t], x)' <=> Has(queue, x)
        BY <2>1 DEF Has
      <4> QED BY <3>1, <4>1, <4>2, <4>3
    <3>3. linked[x] => memory[x] = "live"
      BY <2>4
    <3> QED BY <1>1, <2>1, <3>2, <3>3 DEF AsyncOwnedBy
  <2> QED BY <2>3, <2>6, <2>7 DEF OwnedInv
<1>5. CASE WakePollers(t)
  <2>1. /\ UNCHANGED <<localList, linked, memory>> /\ at[t] = "cleared" /\ at'[t] = "sweeping"
        /\ \A u \in Threads \ {t} : at'[u] = at[u] \/ at[u] = "blocked"
    BY <1>5 DEF WakePollers, SignalAvailable, Blocked, ThreadTyped, entryVars
  <2>2. ListsSwept'
    BY <2>1 DEF ListsSwept, Sweeping
  <2> QED BY <1>2, <2>1, <2>2
<1>6. CASE SweepAsync(t) \/ SweepAnswer(t)
  <2> DEFINE c == Head(localList[t])
  <2>1. /\ localList[t] # <<>> /\ localList' = [localList EXCEPT ![t] = Tail(@)]
        /\ UNCHANGED linked /\ at'[t] \in Sweeping
        /\ \A u \in Threads \ {t} : at'[u] = at[u] /\ localList'[u] = localList[u]
    BY <1>6 DEF SweepAsync, SweepAnswer, Move, ThreadTyped, Sweeping
  <2>2. /\ c \in Calls /\ ListsApart'
        /\ \A u \in Threads : ~Has(localList'[u], c)
        /\ \A x \in Calls \ {c} : (\E u \in Threads : Has(localList[u], x))
                                    => (\E u \in Threads : Has(localList[u], x))'
    BY <2>1, HeadReleased
  <2>3. \A x \in Calls \ {c} : memory'[x] = memory[x]
    BY <1>6 DEF SweepAsync, SweepAnswer, EntryTyped
  <2>4. async[c] => memory'[c] = "freed"
    BY <1>6, <2>2 DEF SweepAsync, SweepAnswer, EntryTyped
  <2>5. ASSUME NEW x \in Calls, (\E u \in Threads : Has(localList[u], x))'
        PROVE  \E u \in Threads : Has(localList[u], x)
    <3>1. PICK u \in Threads : Has(localList[u], x)'
      BY <2>5
    <3>2. CASE u # t
      BY <2>1, <3>1, <3>2 DEF Has
    <3>3. CASE u = t
      <4> DEFINE s == localList[t]
      <4>1. s \in Seq(Calls) /\ s # <<>> /\ localList'[t] = Tail(s)
        BY <2>1 DEF ThreadTyped
      <4> HIDE DEF s
      <4>2. Has(Tail(s), x)
        BY <3>1, <3>3, <4>1 DEF Has
      <4>3. PICK i \in 1..(Len(s) - 1) : Tail(s)[i] = x
        BY <4>1, <4>2 DEF Has
      <4>4. i + 1 \in DOMAIN s /\ s[i + 1] = x
        BY <4>1, <4>3
      <4>5. Has(s, x)
        BY <4>4 DEF Has
      <4> QED BY <4>5 DEF s
    <3> QED BY <3>2, <3>3
  <2> HIDE DEF c
  <2>6. ASSUME NEW x \in Calls PROVE AsyncOwnedBy(x)'
    <3>1. CASE x # c
      BY <1>1, <2>1, <2>2, <2>3, <2>5, <3>1 DEF AsyncOwnedBy
    <3>2. CASE x = c
      BY <1>1, <2>2, <2>4, <3>2 DEF AsyncOwnedBy
    <3> QED BY <3>1, <3>2
  <2>7. ListsSwept'
    BY <2>1 DEF ListsSwept
  <2> QED BY <2>2, <2>6, <2>7 DEF OwnedInv
<1>7. CASE /\ UNCHANGED <<localList, linked, memory>>
           /\ \A u \in Threads \ {t} : at'[u] = at[u]
           /\ at[t] \in Sweeping /\ at'[t] \notin Sweeping => localList[t] = <<>>
  <2>1. ListsSwept'
    BY <1>7 DEF ListsSwept
  <2> QED BY <1>2, <1>7, <2>1
<1>8. \/ ScanDelivers(t) \/ DrainOne(t) \/ Clear(t) \/ WakePollers(t)
      \/ SweepAsync(t) \/ SweepAnswer(t)
      \/ /\ UNCHANGED <<localList, linked, memory>>
         /\ \A u \in Threads \ {t} : at'[u] = at[u]
         /\ at[t] \in Sweeping /\ at'[t] \notin Sweeping => localList[t] = <<>>
  <2> USE DEF Sweeping, Move, ThreadTyped, entryVars, threadVars
  <2>1. CASE StartPoll(t) \/ ScanFindsNothing(t) \/ EnterWait(t) \/ PollExpires(t)
    BY <2>1 DEF StartPoll, AdmittedTo, ScanFindsNothing, EnterWait, PollExpires
  <2>2. CASE DrainDone(t)
    BY <2>2 DEF DrainDone, MayDrain
  <2>3. CASE \E d \in Verdicts, c \in Calls : Submit(t, c, d)
    BY <2>3 DEF Submit
  <2>4. CASE \E review, tokenFails \in BOOLEAN : Register(t, review, tokenFails)
    BY <2>4 DEF Register
  <2>5. CASE StartDisconnect(t) \/ ProcessExit(t)
    BY <2>5 DEF StartDisconnect, AdmittedTo, ProcessExit
  <2>6. CASE SweepSignal(t)
    BY <2>6 DEF SweepSignal
  <2>7. CASE SweepDone(t)
    BY <2>7 DEF SweepDone
  <2> QED BY <2>1, <2>2, <2>3, <2>4, <2>5, <2>6, <2>7 DEF ThreadStep
<1> QED BY <1>3, <1>4, <1>5, <1>6, <1>7, <1>8

\* An async entry has one owner until it is released: the list, or one disconnecting thread
\* (QueueEventAndWait, TryDequeuePendingEvent, DisconnectClient, ShutdownGlobalContext).
THEOREM AsyncEntriesOwned == Spec => []AsyncOwned
<1>1. Init => OwnedInv
  BY DEF Init, OwnedInv, ListsSwept, ListsApart, AsyncOwnedBy, Has
<1>2. StructureInv /\ VerdictInv /\ ReviewInv /\ OwnedInv /\ [Next]_vars => OwnedInv'
  <2> SUFFICES ASSUME StructureInv, VerdictInv, ReviewInv, OwnedInv, [Next]_vars
               PROVE  OwnedInv'
    OBVIOUS
  <2>1. CASE Shutdown
    <3>1. /\ \A t \in Threads : localList[t] = <<>>
          /\ UNCHANGED <<pc, async, at, localList>>
      BY <2>1 DEF Shutdown, Quiet, OwnedInv, ListsSwept, Sweeping, callVars, threadVars
    <3>2. \A x \in Calls : linked[x] => Queued(x)
      BY DEF StructureInv, QueueSound
    <3>3. \A x \in Calls : (async[x] /\ memory'[x] = "live" => memory[x] = "live" /\ ~Queued(x))
      BY <2>1 DEF Shutdown
    <3>4. \A x \in Calls, t \in Threads : ~Has(localList[t], x)
      BY <3>1 DEF Has
    <3>5. \A x \in Calls, t \in Threads : ~Has(localList[t], x)'
      BY <3>1, <3>4 DEF Has
    <3>6. ASSUME NEW x \in Calls PROVE AsyncOwnedBy(x)'
      <4>1. memory'[x] \in {"live", "freed", "none"}
        BY <2>1 DEF Shutdown, StructureInv, TypeOK, EntryTyped
      <4>2. AsyncOwnedBy(x)
        BY DEF OwnedInv
      <4> QED BY <3>1, <3>2, <3>3, <3>4, <3>5, <4>2 DEF AsyncOwnedBy
    <3>7. ListsSwept' /\ ListsApart'
      BY <3>1 DEF OwnedInv, ListsSwept, ListsApart
    <3> QED BY <3>6, <3>7 DEF OwnedInv
  <2>2. CASE UNCHANGED vars
    BY <2>2 DEF vars, callVars, entryVars, threadVars, OwnedInv, ListsSwept, ListsApart,
         AsyncOwnedBy, Has
  <2> QED BY <2>1, <2>2, CallStepOwned, ThreadStepOwned DEF Next, Stopped
<1>3. StructureInv /\ OwnedInv => AsyncOwned
  <2> SUFFICES ASSUME StructureInv, OwnedInv, NEW c \in Calls, async[c], pc[c] = "returned"
               PROVE  LET holders == {t \in Threads : \E i \in DOMAIN localList[t] :
                                                        localList[t][i] = c} IN
                      /\ (memory[c] = "live" => linked[c] \/ holders # {})
                      /\ (memory[c] = "freed" => ~linked[c] /\ holders = {})
                      /\ Cardinality(holders) <= 1 /\ (holders # {} => ~linked[c])
    BY DEF AsyncOwned
  <2> DEFINE holders == {t \in Threads : \E i \in DOMAIN localList[t] : localList[t][i] = c}
  <2>1. \A t \in Threads : t \in holders <=> Has(localList[t], c)
    BY DEF Has
  <2>2. \A t, u \in holders : t = u
    BY DEF OwnedInv, ListsApart
  <2>3. holders = {} \/ \E t : holders = {t}
    BY <2>2
  <2>4. Cardinality(holders) <= 1
    <3>1. CASE holders = {}  BY <3>1, FS_EmptySet
    <3>2. CASE \E t : holders = {t}
      <4>1. PICK t : holders = {t}  BY <3>2
      <4>2. Cardinality({t}) = 1  BY FS_Singleton
      <4> HIDE DEF holders
      <4> QED BY <4>1, <4>2
    <3> QED BY <2>3, <3>1, <3>2
  <2>5. linked[c] => memory[c] = "live"
    BY DEF StructureInv, QueueSound
  <2>6. \A t \in Threads : Has(localList[t], c) => ~linked[c] /\ memory[c] = "live"
    BY HeldIsDetached DEF OwnedInv, AsyncOwnedBy
  <2>7. memory[c] = "live" => linked[c] \/ \E t \in Threads : Has(localList[t], c)
    BY DEF OwnedInv, AsyncOwnedBy
  <2> HIDE DEF holders
  <2>8. holders \subseteq Threads
    BY DEF holders
  <2>9. /\ (memory[c] = "live" => linked[c] \/ holders # {})
        /\ (memory[c] = "freed" => ~linked[c] /\ holders = {})
        /\ (holders # {} => ~linked[c])
    BY <2>1, <2>5, <2>6, <2>7, <2>8
  <2> QED BY <2>4, <2>9 DEF holders
<1> QED BY <1>1, <1>2, <1>3, BridgeInvariant, PTL DEF Spec

----------------------------------------------------------------------------
(* The wake-up of the poller. *)

\* What makes NoMissedWakeup inductive when p is the only poller: no other thread waits for
\* events, and p neither starts a wait without a signal nor sleeps while an event is undelivered.
Polling == {"polling", "entering", "blocked", "batching", "draining"}
AllDelivered == \A x : Has(queue, x) => delivered[x]
WakeInv(p) ==
  /\ \A t \in Threads \ {p} : at[t] \notin Polling
  /\ (at[p] = "entering" => AllDelivered \/ available)
  /\ (at[p] = "blocked" => AllDelivered)

\* A scan that finds nothing has found every entry delivered.
LEMMA NoneUndelivered == Undelivered = {} <=> AllDelivered
BY DEF Undelivered, AllDelivered, Has

\* A step of QueueEventAndWait keeps the poller's wake-up: the only one that adds an event
\* signals it.
LEMMA CallStepWakes ==
  ASSUME StructureInv, NEW p, Pollers = {p}, WakeInv(p), NEW c \in Calls, CallStep(c)
  PROVE  WakeInv(p)'
<1> /\ ThreadTyped /\ BridgeTyped /\ ListSound /\ p \in Threads
  BY StructureParts, ClientAssumption DEF TypeOK
<1>1. UNCHANGED delivered
  BY CallFrame
<1>2. CASE Insert(c)
  <2>1. SignalAvailable(at)
    BY <1>2 DEF Insert
  <2>2. CASE at[p] = "blocked"
    <3>1. \A t \in Threads : t \in Blocked <=> t = p
      BY <2>2 DEF Blocked, WakeInv, Polling
    <3>2. at' = [at EXCEPT ![p] = "polling"]
      BY <2>1, <3>1 DEF SignalAvailable, Blocked
    <3> QED BY <3>2 DEF WakeInv, ThreadTyped
  <2>3. CASE at[p] # "blocked"
    <3>1. Blocked = {}
      BY <2>3 DEF Blocked, WakeInv, Polling
    <3>2. available' /\ at' = at
      BY <2>1, <3>1 DEF SignalAvailable
    <3> QED BY <2>3, <3>2 DEF WakeInv
  <2> QED BY <2>2, <2>3
<1>3. CASE UNCHANGED <<at, available>> /\ (AllDelivered => AllDelivered')
  BY <1>3 DEF WakeInv
<1>4. CASE Leave(c)
  <2>1. UNCHANGED <<at, available>>
    BY <1>4 DEF Leave, threadVars
  <2>2. CASE linked[c]
    <3>1. IndexOf(c) \in 1..Len(queue) /\ queue' = RemoveAt(queue, IndexOf(c))
      BY <1>4, <2>2 DEF Leave, StillLinked, ListSound, QueueSound, Queued, IndexOf, BridgeTyped
    <3>2. Distinct(queue) /\ queue \in Seq(Calls)
      BY DEF ListSound, QueueSound, BridgeTyped, Distinct
    <3>3. \A x : Has(queue', x) => Has(queue, x)
      BY <3>1, <3>2, RemoveKeeps
    <3>4. AllDelivered => AllDelivered'
      BY <1>1, <3>3 DEF AllDelivered, Has
    <3> QED BY <1>3, <2>1, <3>4
  <2>3. CASE ~linked[c]
    <3>1. UNCHANGED queue
      BY <1>4, <2>3 DEF Leave, StillLinked
    <3>2. AllDelivered => AllDelivered'
      BY <1>1, <3>1 DEF AllDelivered, Has
    <3> QED BY <1>3, <2>1, <3>2
  <2> QED BY <2>2, <2>3
<1>5. Insert(c) \/ Leave(c) \/ UNCHANGED <<at, available, queue>>
  BY DEF CallStep, RaisedIrql, ArriveThrottled, ArriveDisconnected, ArriveFull, ArriveDropped,
       ArriveAdmitted, AllocationFails, Prepare, InsertRefused, Wake, ResetDecisionEvent,
       WaitExpires, bridgeVars, threadVars
<1>6. UNCHANGED queue => (AllDelivered => AllDelivered')
  BY <1>1 DEF AllDelivered, Has
<1> QED BY <1>2, <1>3, <1>4, <1>5, <1>6

\* A control request keeps it: only the poller reads, and it looks before it waits.
LEMMA ThreadStepWakes ==
  ASSUME StructureInv, NEW p, Pollers = {p}, WakeInv(p), NEW t \in Threads, ThreadStep(t)
  PROVE  WakeInv(p)'
<1> /\ ThreadTyped /\ BridgeTyped /\ p \in Threads
  BY StructureParts, ClientAssumption DEF StructureInv, TypeOK
<1> USE DEF Polling, Move
<1>1. t # p => at[t] \notin Polling
  BY DEF WakeInv
\* A request that moves its own thread to a place where it does not wait.
<1>2. ASSUME \A u \in Threads \ {t} : at'[u] = at[u],
             t # p => at'[t] \notin Polling,
             t = p => at'[t] \notin {"entering", "blocked"},
             t # p => UNCHANGED <<queue, delivered, available>>
      PROVE  WakeInv(p)'
  <2>1. CASE t = p
    BY <1>2, <2>1 DEF WakeInv
  <2>2. CASE t # p
    <3>1. at'[p] = at[p] /\ (AllDelivered => AllDelivered') /\ UNCHANGED available
      BY <1>2, <2>2 DEF AllDelivered, Has
    <3> QED BY <1>2, <2>2, <3>1 DEF WakeInv
  <2> QED BY <2>1, <2>2
<1>3. CASE UNCHANGED <<at, available, queue, delivered>>
  BY <1>3 DEF WakeInv, AllDelivered, Has
<1>4. CASE ScanDelivers(t) \/ DrainOne(t)
  BY <1>1, <1>2, <1>4 DEF ScanDelivers, DrainOne, MayDrain, ThreadTyped
<1>5. CASE StartPoll(t)
  BY <1>2, <1>5 DEF StartPoll, ThreadTyped
<1>6. CASE ScanFindsNothing(t)
  <2>1. t = p /\ AllDelivered /\ UNCHANGED <<queue, delivered>>
    BY <1>1, <1>6, NoneUndelivered DEF ScanFindsNothing, bridgeVars, entryVars
  <2>2. AllDelivered' /\ at'[p] = "entering" /\ \A u \in Threads \ {p} : at'[u] = at[u]
    BY <1>6, <2>1 DEF ScanFindsNothing, AllDelivered, Has, ThreadTyped
  <2> QED BY <2>2 DEF WakeInv
<1>7. CASE EnterWait(t)
  <2>1. t = p /\ at[p] = "entering" /\ UNCHANGED <<queue, delivered>>
    BY <1>1, <1>7 DEF EnterWait, entryVars
  <2>2. CASE available
    BY <1>2, <1>7, <2>1, <2>2 DEF EnterWait, ThreadTyped
  <2>3. CASE ~available
    <3>1. AllDelivered /\ AllDelivered'
      BY <2>1, <2>3 DEF WakeInv, AllDelivered, Has
    <3>2. at'[p] = "blocked" /\ \A u \in Threads \ {p} : at'[u] = at[u]
      BY <1>7, <2>1, <2>3 DEF EnterWait, ThreadTyped
    <3> QED BY <3>1, <3>2 DEF WakeInv
  <2> QED BY <2>2, <2>3
<1>8. CASE PollExpires(t) \/ DrainDone(t) \/ StartDisconnect(t) \/ SweepSignal(t) \/ SweepDone(t)
  BY <1>2, <1>8 DEF PollExpires, DrainDone, StartDisconnect, SweepSignal, SweepDone, ThreadTyped,
       bridgeVars, entryVars
<1>9. ASSUME NEW review \in BOOLEAN, NEW tokenFails \in BOOLEAN, Register(t, review, tokenFails)
      PROVE  WakeInv(p)'
  BY <1>2, <1>3, <1>9 DEF Register, ThreadTyped, entryVars
<1>10. CASE ProcessExit(t)
  BY <1>2, <1>3, <1>10 DEF ProcessExit, ThreadTyped, bridgeVars, entryVars
<1>11. CASE SweepAnswer(t)
  BY <1>2, <1>11 DEF SweepAnswer, ThreadTyped, bridgeVars
<1>12. CASE \/ \E c \in Calls, d \in Verdicts : Submit(t, c, d)
            \/ SweepAsync(t)
  BY <1>3, <1>12 DEF Submit, SweepAsync, bridgeVars, threadVars
<1>13. CASE Clear(t)
  <2>1. /\ at'[t] = "cleared" /\ \A u \in Threads \ {t} : at'[u] = at[u]
        /\ queue' = <<>> /\ UNCHANGED delivered
    BY <1>13 DEF Clear, ThreadTyped
  <2>2. AllDelivered'
    BY <2>1 DEF AllDelivered, Has
  <2> QED BY <2>1, <2>2 DEF WakeInv
<1>14. CASE WakePollers(t)
  <2>1. at[t] = "cleared" /\ SignalAvailable([at EXCEPT ![t] = "sweeping"])
        /\ UNCHANGED <<queue, delivered>>
    BY <1>14 DEF WakePollers, entryVars
  <2>2. CASE at[p] = "blocked"
    <3>1. t # p /\ \A u \in Threads : u \in Blocked <=> u = p
      BY <2>1, <2>2 DEF Blocked, WakeInv
    <3>2. at' = [[at EXCEPT ![t] = "sweeping"] EXCEPT ![p] = "polling"]
      BY <2>1, <3>1 DEF SignalAvailable, Blocked
    <3> QED BY <3>1, <3>2 DEF WakeInv, ThreadTyped
  <2>3. CASE at[p] # "blocked"
    <3>1. Blocked = {}
      BY <2>3 DEF Blocked, WakeInv
    <3>2. available' /\ at' = [at EXCEPT ![t] = "sweeping"]
      BY <2>1, <3>1 DEF SignalAvailable
    <3> QED BY <2>3, <3>2 DEF WakeInv, ThreadTyped
  <2> QED BY <2>2, <2>3
<1> QED BY <1>4, <1>5, <1>6, <1>7, <1>8, <1>9, <1>10, <1>11, <1>12, <1>13, <1>14 DEF ThreadStep

\* With one polling thread, an event never waits in the list while that thread sleeps without
\* a signal (the auto-reset PendingAvailableEvent and the poller's look at the list before it).
THEOREM WakeupsNotMissed ==
  ASSUME NEW p, Pollers = {p}
  PROVE  Spec => []NoMissedWakeup
<1>1. Init => WakeInv(p)
  BY ClientAssumption DEF Init, WakeInv, Polling
<1>2. StructureInv /\ WakeInv(p) /\ [Next]_vars => WakeInv(p)'
  <2> SUFFICES ASSUME StructureInv, WakeInv(p), [Next]_vars
               PROVE  WakeInv(p)'
    OBVIOUS
  <2>1. CASE Shutdown
    <3>1. queue' = <<>> /\ UNCHANGED at
      BY <2>1 DEF Shutdown, threadVars
    <3>2. AllDelivered'
      BY <3>1 DEF AllDelivered, Has
    <3> QED BY <3>1, <3>2 DEF WakeInv
  <2>2. CASE UNCHANGED vars
    BY <2>2 DEF vars, bridgeVars, entryVars, threadVars, WakeInv, AllDelivered, Has
  <2> QED BY <2>1, <2>2, CallStepWakes, ThreadStepWakes DEF Next, Stopped
<1>3. WakeInv(p) => NoMissedWakeup
  BY NoneUndelivered DEF WakeInv, NoMissedWakeup, Blocked, Polling
<1> QED BY <1>1, <1>2, <1>3, BridgeInvariant, PTL DEF Spec
=============================================================================
