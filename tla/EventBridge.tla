------------------------------ MODULE EventBridge ------------------------------
(***************************************************************************)
(* The kernel side of the driver's event bridge (DriverContext.c).  A      *)
(* protection callback calls QueueEventAndWait, which links a pending      *)
(* entry into a bounded list and waits on the entry's DecisionEvent.  The  *)
(* user-mode client reads entries (GET_NEXT_EVENT, GET_NEXT_EVENTS) and    *)
(* answers them (SUBMIT_DECISION).  A disconnect detaches every entry      *)
(* under the lock and answers the waiters after releasing it.              *)
(*                                                                         *)
(* A call of QueueEventAndWait, its entry and its event are one element of *)
(* Calls: each call allocates at most one entry.  A thread of a client     *)
(* executes one control request at a time; the queue dispatches requests   *)
(* in parallel.  Every action is one section under the spin lock or one    *)
(* step outside it; a step that keeps the lock across two actions is a     *)
(* program counter of its own, and LockFree holds the other sections back. *)
(***************************************************************************)
EXTENDS Naturals, FiniteSets, SequencesExt

CONSTANTS
  Calls,       \* the executions of QueueEventAndWait
  Critical,    \* those whose event type IsCriticalEventType accepts
  Pids,        \* processes that may be the registered client
  Threads,     \* client threads, each issuing one control request at a time
  Owner,       \* the process of each thread
  Pollers,     \* the threads in which clients poll for events
  Verdicts,    \* the decision values clients submit
  MaxPending,  \* XDOWS_SECURITY_MAX_PENDING_EVENTS
  NoiseLimit,  \* ThrottleLimitPerType of the one noise type modelled
  BatchSize,   \* XDOWS_SECURITY_EVENT_BATCH_SIZE
  NoPid,       \* a NULL ClientProcessId
  NoCall       \* no entry

Decisions == {"unknown", "allow", "block", "timeout", "pending"}

ASSUME CallsAssumption == Critical \subseteq Calls /\ NoCall \notin Calls
ASSUME ClientAssumption ==
  Owner \in [Threads -> Pids] /\ Pollers \subseteq Threads /\ NoPid \notin Pids
ASSUME VerdictAssumption == Verdicts \subseteq Decisions
ASSUME BoundAssumption ==
  MaxPending \in Nat \ {0} /\ NoiseLimit \in Nat \ {0} /\ BatchSize \in Nat \ {0}

VARIABLES
  session,     \* ClientConnected, ClientProcessId, AsyncReviewEnabled, Initialized
  queue,       \* PendingEvents
  count,       \* PendingEventCount
  available,   \* the signal state of PendingAvailableEvent
  throttle,    \* Count of the noise type's throttle slot
  stats,       \* ReceivedByType, DroppedByType, TimedOutByType, per class of types
  \* each call of QueueEventAndWait
  pc,          \* where it is
  held,        \* its local userDecisionPending
  status,      \* its status
  verdict,     \* the Decision it returns
  \* each call's XDOWS_PENDING_EVENT
  decision,    \* Decision.Decision
  linked,      \* Linked
  delivered,   \* Delivered
  userPending, \* UserDecisionPending
  final,       \* FinalDecisionSubmitted: the verdict accepted, "none" before
  signalled,   \* the state of DecisionEvent
  async,       \* Async
  memory,      \* its allocation
  \* each client thread
  at,          \* where its request is
  localList,   \* DisconnectClient's list of detached entries
  current,     \* the entry DisconnectClient answers
  taken,       \* how many entries a batch holds
  \* the machine
  alive,       \* the processes that have not exited
  halted,      \* it has bugchecked
  readers      \* history: the threads each event was delivered to

bridgeVars == <<session, queue, count, available, throttle, stats>>
callVars == <<pc, held, status, verdict>>
entryVars == <<decision, linked, delivered, userPending, final, signalled, async, memory>>
threadVars == <<at, localList, current, taken>>
worldVars == <<alive, halted, readers>>
vars == <<bridgeVars, callVars, entryVars, threadVars, worldVars>>

Classes == {"critical", "noise"}
Class(c) == IF c \in Critical THEN "critical" ELSE "noise"

Init ==
  /\ session = [connected |-> FALSE, pid |-> NoPid, async |-> FALSE, initialized |-> TRUE]
  /\ queue = <<>> /\ count = 0 /\ available = FALSE /\ throttle = 0
  /\ stats = [k \in Classes |-> [received |-> 0, dropped |-> 0, timedOut |-> 0]]
  /\ pc = [c \in Calls |-> "idle"]
  /\ held = [c \in Calls |-> FALSE]
  /\ status = [c \in Calls |-> "none"]
  /\ verdict = [c \in Calls |-> "allow"]
  /\ decision = [c \in Calls |-> "unknown"]
  /\ linked = [c \in Calls |-> FALSE]
  /\ delivered = [c \in Calls |-> FALSE]
  /\ userPending = [c \in Calls |-> FALSE]
  /\ final = [c \in Calls |-> "none"]
  /\ signalled = [c \in Calls |-> FALSE]
  /\ async = [c \in Calls |-> FALSE]
  /\ memory = [c \in Calls |-> "none"]
  /\ at = [t \in Threads |-> "idle"]
  /\ localList = [t \in Threads |-> <<>>]
  /\ current = [t \in Threads |-> NoCall]
  /\ taken = [t \in Threads |-> 0]
  /\ alive = Pids /\ halted = FALSE
  /\ readers = [c \in Calls |-> <<>>]

(***************************************************************************)
(* The spin lock is held between two actions only by a waiter between      *)
(* copying a Pending verdict and resetting its event, and by a batch drain *)
(* in its loop.                                                            *)
(***************************************************************************)
LockFreeMutReleasedBeforeReset == ~halted /\ \A t \in Threads : at[t] # "draining"
LockFree ==
  /\ ~halted
  /\ \A c \in Calls : pc[c] # "resetting"
  /\ \A t \in Threads : at[t] # "draining"

Registered(p) == session.initialized /\ session.connected /\ session.pid = p

(***************************************************************************)
(* KeSetEvent on the auto-reset PendingAvailableEvent: it releases one     *)
(* blocked poller, and stays signalled only if none is blocked.  `base` is *)
(* the table of thread positions the rest of the action has produced.      *)
(***************************************************************************)
Blocked == {t \in Threads : at[t] = "blocked"}
SignalAvailableMutPulse(base) ==
  \/ Blocked = {} /\ available' = FALSE /\ at' = base
  \/ \E t \in Blocked : at' = [base EXCEPT ![t] = "polling"] /\ UNCHANGED available
SignalAvailable(base) ==
  \/ Blocked = {} /\ available' = TRUE /\ at' = base
  \/ \E t \in Blocked : at' = [base EXCEPT ![t] = "polling"] /\ UNCHANGED available

GoTo(c, place) == pc' = [pc EXCEPT ![c] = place]
Return(c, s) == GoTo(c, "returned") /\ status' = [status EXCEPT ![c] = s]
Counted(k, field) == [stats EXCEPT ![k][field] = @ + 1]

----------------------------------------------------------------------------
(* QueueEventAndWait *)

\* Called above PASSIVE_LEVEL the call returns at once, before it is counted.
RaisedIrql(c) ==
  /\ ~halted /\ session.initialized /\ pc[c] = "idle"
  /\ Return(c, "invalid_device_state")
  /\ UNCHANGED <<bridgeVars, held, verdict, entryVars, threadVars, worldVars>>

\* The throttle slot: a window that has expired restarts the count, and a full
\* window drops.  Whether the window has expired is a choice: time is not modelled.
Throttled(c, expired) ==
  c \notin Critical /\ throttle # 0 /\ ~expired /\ throttle >= NoiseLimit
SlotAfter(c, expired) ==
  IF c \in Critical THEN throttle
  ELSE IF throttle = 0 \/ expired THEN 1
  ELSE throttle + 1

ArriveDropped(c, slot, s) ==
  /\ LockFree /\ session.initialized /\ pc[c] = "idle"
  /\ stats' = [stats EXCEPT ![Class(c)] =
                 [received |-> @.received + 1, dropped |-> @.dropped + 1, timedOut |-> @.timedOut]]
  /\ throttle' = slot
  /\ Return(c, s)
  /\ UNCHANGED <<session, queue, count, available, held, verdict, entryVars, threadVars, worldVars>>

ArriveThrottled(c) ==
  Throttled(c, FALSE) /\ ArriveDropped(c, throttle, "no_more_entries")

ArriveDisconnected(c, expired) ==
  /\ ~Throttled(c, expired)
  /\ ~session.connected
  /\ ArriveDropped(c, SlotAfter(c, expired), "not_connected")

ArriveFull(c, expired) ==
  /\ ~Throttled(c, expired)
  /\ session.connected
  /\ count >= MaxPending
  /\ ArriveDropped(c, SlotAfter(c, expired), "insufficient_resources")

ArriveAdmitted(c, expired) ==
  /\ LockFree /\ session.initialized /\ pc[c] = "idle"
  /\ ~Throttled(c, expired)
  /\ session.connected
  /\ count < MaxPending
  /\ stats' = Counted(Class(c), "received")
  /\ throttle' = SlotAfter(c, expired)
  /\ GoTo(c, "admitted")
  /\ UNCHANGED <<session, queue, count, available, held, status, verdict, entryVars,
                 threadVars, worldVars>>

\* The allocation fails: the event is dropped and not counted as dropped.
AllocationFails(c) ==
  /\ ~halted /\ pc[c] = "admitted"
  /\ Return(c, "insufficient_resources")
  /\ UNCHANGED <<bridgeVars, held, verdict, entryVars, threadVars, worldVars>>

\* The entry is zeroed and filled in outside the lock, AsyncReviewEnabled included.
ReviewedAsyncMutIgnoresType(c) == session.async
ReviewedAsync(c) == session.async /\ c \notin Critical
Prepare(c) ==
  /\ ~halted /\ pc[c] = "admitted"
  /\ memory' = [memory EXCEPT ![c] = "live"]
  /\ async' = [async EXCEPT ![c] = ReviewedAsync(c)]
  /\ GoTo(c, "prepared")
  /\ UNCHANGED <<bridgeVars, held, status, verdict, decision, linked, delivered, userPending,
                 final, signalled, threadVars, worldVars>>

\* Where a new entry goes: before the first noise entry if it is critical, else last.
InsertionPointMutTail(c, i) == i = Len(queue) + 1
InsertionPoint(c, i) ==
  IF c \in Critical
  THEN /\ \A j \in 1..(i - 1) : queue[j] \in Critical
       /\ i <= Len(queue) => queue[i] \notin Critical
  ELSE i = Len(queue) + 1

InsertAllowedMutNoRecheck == TRUE
InsertAllowed == session.connected /\ count < MaxPending
Insert(c) ==
  /\ LockFree /\ pc[c] = "prepared"
  /\ InsertAllowed
  /\ \E i \in 1..(Len(queue) + 1) : InsertionPoint(c, i) /\ queue' = InsertAt(queue, i, c)
  /\ count' = count + 1
  /\ linked' = [linked EXCEPT ![c] = TRUE]
  /\ SignalAvailable(at)
  /\ IF async[c] THEN Return(c, "success") ELSE GoTo(c, "waiting") /\ UNCHANGED status
  /\ UNCHANGED <<session, throttle, stats, held, verdict, decision, delivered, userPending,
                 final, signalled, async, memory, localList, current, taken, worldVars>>

InsertRefused(c) ==
  /\ LockFree /\ pc[c] = "prepared"
  /\ ~InsertAllowed
  /\ stats' = Counted(Class(c), "dropped")
  /\ memory' = [memory EXCEPT ![c] = "freed"]
  /\ Return(c, "not_connected")
  /\ UNCHANGED <<session, queue, count, available, throttle, held, verdict, decision, linked,
                 delivered, userPending, final, signalled, async, threadVars, worldVars>>

\* The wait succeeded: the verdict is copied under the lock; a Pending verdict
\* keeps the lock until the event is reset.
Wake(c) ==
  /\ LockFree /\ pc[c] = "waiting" /\ signalled[c]
  /\ verdict' = [verdict EXCEPT ![c] = decision[c]]
  /\ held' = [held EXCEPT ![c] = userPending[c]]
  /\ status' = [status EXCEPT ![c] = "success"]
  /\ GoTo(c, IF decision[c] = "pending" THEN "resetting" ELSE "leaving")
  /\ UNCHANGED <<bridgeVars, entryVars, threadVars, worldVars>>

ResetDecisionEvent(c) ==
  /\ ~halted /\ pc[c] = "resetting"
  /\ signalled' = [signalled EXCEPT ![c] = FALSE]
  /\ GoTo(c, "waiting")
  /\ UNCHANGED <<bridgeVars, held, status, verdict, decision, linked, delivered, userPending,
                 final, async, memory, threadVars, worldVars>>

\* The timed wait (kernel wait, or the user-decision wait once held) runs out.
WaitExpires(c) ==
  /\ ~halted /\ pc[c] = "waiting" /\ ~signalled[c]
  /\ GoTo(c, "leaving")
  /\ status' = [status EXCEPT ![c] = "timeout"]
  /\ UNCHANGED <<bridgeVars, held, verdict, entryVars, threadVars, worldVars>>

\* The verdict the caller sees: the client's, or what policy makes of none.
OutcomeMutFailOpen(c) == IF status[c] = "success" THEN verdict[c] ELSE "timeout"
OutcomeMutHeldDisconnect(c) ==
  IF status[c] = "success" THEN verdict[c] ELSE IF held[c] THEN "block" ELSE "timeout"
Outcome(c) ==
  IF status[c] = "success" /\ verdict[c] # "timeout" THEN verdict[c]
  ELSE IF held[c] THEN "block" ELSE "timeout"

IndexOf(c) == CHOOSE i \in DOMAIN queue : queue[i] = c
StillLinkedMutNever(c) == FALSE
StillLinked(c) == linked[c]
Leave(c) ==
  /\ LockFree /\ pc[c] = "leaving"
  /\ IF StillLinked(c)
     THEN queue' = RemoveAt(queue, IndexOf(c)) /\ count' = count - 1
     ELSE UNCHANGED <<queue, count>>
  /\ linked' = [linked EXCEPT ![c] = FALSE]
  /\ memory' = [memory EXCEPT ![c] = "freed"]
  /\ GoTo(c, "returned")
  /\ verdict' = [verdict EXCEPT ![c] = Outcome(c)]
  /\ stats' = IF status[c] = "success" THEN stats ELSE Counted(Class(c), "timedOut")
  /\ UNCHANGED <<session, available, throttle, held, status, decision, delivered, userPending,
                 final, signalled, async, threadVars, worldVars>>

----------------------------------------------------------------------------
(* GET_NEXT_EVENT and GET_NEXT_EVENTS *)

Move(t, place) == at' = [at EXCEPT ![t] = place]

\* RequireRegisteredClient; the check and the request it admits are separate
\* sections of the lock.
AdmittedTo(t) ==
  /\ LockFree /\ at[t] = "idle" /\ Owner[t] \in alive
  /\ Registered(Owner[t])

StartPoll(t) ==
  /\ AdmittedTo(t) /\ t \in Pollers
  /\ \E place \in {"polling", "batching"} : Move(t, place)
  /\ UNCHANGED <<bridgeVars, callVars, entryVars, localList, current, taken, worldVars>>

Undelivered == {i \in DOMAIN queue : ~delivered[queue[i]]}
First(i) == i \in Undelivered /\ \A j \in Undelivered : i <= j

ReleasedOnReadMutAll(c) == TRUE
ReleasedOnRead(c) == async[c]

\* Hand the entry at place i to thread t.  An async entry leaves the list and is
\* freed; a synchronous one stays until its decision completes.
HandOverMutForgetsFlag(t, i) ==
  /\ readers' = [readers EXCEPT ![queue[i]] = Append(@, t)]
  /\ UNCHANGED <<delivered, linked, memory, queue, count>>
HandOverMutStaysLinked(t, i) ==
  /\ readers' = [readers EXCEPT ![queue[i]] = Append(@, t)]
  /\ delivered' = [delivered EXCEPT ![queue[i]] = TRUE]
  /\ memory' = [memory EXCEPT ![queue[i]] = IF async[queue[i]] THEN "freed" ELSE @]
  /\ UNCHANGED <<linked, queue, count>>
HandOver(t, i) ==
  /\ readers' = [readers EXCEPT ![queue[i]] = Append(@, t)]
  /\ delivered' = [delivered EXCEPT ![queue[i]] = TRUE]
  /\ IF ReleasedOnRead(queue[i])
     THEN /\ linked' = [linked EXCEPT ![queue[i]] = FALSE]
          /\ memory' = [memory EXCEPT ![queue[i]] = "freed"]
          /\ queue' = RemoveAt(queue, i)
          /\ count' = count - 1
     ELSE UNCHANGED <<linked, memory, queue, count>>
Deliver(t) ==
  /\ \E i \in DOMAIN queue : First(i) /\ HandOver(t, i)
  /\ UNCHANGED <<session, available, throttle, stats, callVars, decision, userPending, final,
                 signalled, async, localList, current, alive, halted>>

ScanDelivers(t) ==
  /\ LockFree /\ at[t] = "polling"
  /\ Deliver(t)
  /\ Move(t, "idle") /\ UNCHANGED taken

ScanFindsNothing(t) ==
  /\ LockFree /\ at[t] = "polling" /\ Undelivered = {}
  /\ Move(t, "entering")
  /\ UNCHANGED <<bridgeVars, callVars, entryVars, localList, current, taken, worldVars>>

\* The one-second wait on PendingAvailableEvent: a signal found set is consumed.
EnterWait(t) ==
  /\ ~halted /\ at[t] = "entering"
  /\ IF available THEN Move(t, "polling") /\ available' = FALSE
     ELSE Move(t, "blocked") /\ UNCHANGED available
  /\ UNCHANGED <<session, queue, count, throttle, stats, callVars, entryVars, localList,
                 current, taken, worldVars>>

PollExpires(t) ==
  /\ ~halted /\ at[t] = "blocked"
  /\ Move(t, "idle")
  /\ UNCHANGED <<bridgeVars, callVars, entryVars, localList, current, taken, worldVars>>

\* The batch loop, one entry per step with the lock held throughout.
MayDrain(t) == \/ at[t] = "batching" /\ LockFree
               \/ at[t] = "draining" /\ ~halted
DrainOne(t) ==
  /\ MayDrain(t) /\ taken[t] < BatchSize
  /\ Deliver(t)
  /\ Move(t, "draining") /\ taken' = [taken EXCEPT ![t] = @ + 1]

DrainDone(t) ==
  /\ MayDrain(t)
  /\ Undelivered = {} \/ taken[t] = BatchSize
  /\ Move(t, "idle") /\ taken' = [taken EXCEPT ![t] = 0]
  /\ UNCHANGED <<bridgeVars, callVars, entryVars, localList, current, worldVars>>

----------------------------------------------------------------------------
(* SUBMIT_DECISION *)

\* Clients answer events they have read.  The gate and the lookup are one step:
\* an entry a client has read leaves the list when that client is disconnected,
\* so an answer admitted before a disconnect finds nothing after it.
HasRead(p, c) == \E i \in DOMAIN readers[c] : Owner[readers[c][i]] = p

SubmitAcceptsMutNoPendingCheck(c, d) == d = "pending" \/ final[c] = "none"
SubmitAcceptsMutTwice(c, d) == d = "pending" => ~userPending[c]
SubmitAccepts(c, d) == final[c] = "none" /\ (d = "pending" => ~userPending[c])

Submit(t, c, d) ==
  /\ AdmittedTo(t) /\ HasRead(Owner[t], c)
  /\ linked[c]
  /\ SubmitAccepts(c, d)
  /\ IF d = "pending" THEN userPending' = [userPending EXCEPT ![c] = TRUE] /\ UNCHANGED final
     ELSE final' = [final EXCEPT ![c] = d] /\ UNCHANGED userPending
  /\ decision' = [decision EXCEPT ![c] = d]
  /\ signalled' = [signalled EXCEPT ![c] = TRUE]
  /\ UNCHANGED <<bridgeVars, callVars, linked, delivered, async, memory, threadVars, worldVars>>

----------------------------------------------------------------------------
(* REGISTER_CLIENT, DISCONNECT_CLIENT, process exit *)

MayRegister(p) == ~session.connected \/ session.pid = p

\* Registration ends, outside the lock, with the token copy; when that fails
\* the request goes on to DisconnectClient.
Register(t, review, tokenFails) ==
  /\ LockFree /\ at[t] = "idle" /\ Owner[t] \in alive /\ session.initialized
  /\ MayRegister(Owner[t])
  /\ session' = [session EXCEPT !.connected = TRUE, !.pid = Owner[t], !.async = review]
  /\ IF tokenFails THEN Move(t, "clearing") ELSE UNCHANGED at
  /\ UNCHANGED <<queue, count, available, throttle, stats, callVars, entryVars, localList,
                 current, taken, worldVars>>

StartDisconnect(t) ==
  /\ AdmittedTo(t)
  /\ Move(t, "clearing")
  /\ UNCHANGED <<bridgeVars, callVars, entryVars, localList, current, taken, worldVars>>

\* The exit notification runs in the last thread of the process, once its
\* requests have completed.
ExitDisconnects(p) == Registered(p)
ProcessExit(t) ==
  /\ LockFree /\ Owner[t] \in alive
  /\ \A u \in Threads : Owner[u] = Owner[t] => at[u] = "idle"
  /\ alive' = alive \ {Owner[t]}
  /\ IF ExitDisconnects(Owner[t]) THEN Move(t, "clearing") ELSE UNCHANGED at
  /\ UNCHANGED <<bridgeVars, callVars, entryVars, localList, current, taken, halted, readers>>

\* DisconnectClient under the lock: every entry moves to the thread's own list.
Queued(c) == \E i \in DOMAIN queue : queue[i] = c
Clear(t) ==
  /\ LockFree /\ at[t] = "clearing"
  /\ session' = [session EXCEPT !.connected = FALSE, !.pid = NoPid, !.async = FALSE]
  /\ localList' = [localList EXCEPT ![t] = queue]
  /\ linked' = [c \in Calls |-> linked[c] /\ ~Queued(c)]
  /\ queue' = <<>> /\ count' = 0
  /\ Move(t, "cleared")
  /\ UNCHANGED <<available, throttle, stats, callVars, decision, delivered, userPending, final,
                 signalled, async, memory, current, taken, worldVars>>

WakePollers(t) ==
  /\ ~halted /\ at[t] = "cleared"
  /\ SignalAvailable([at EXCEPT ![t] = "sweeping"])
  /\ UNCHANGED <<session, queue, count, throttle, stats, callVars, entryVars, localList,
                 current, taken, worldVars>>

SweepAsync(t) ==
  /\ ~halted /\ at[t] = "sweeping" /\ localList[t] # <<>> /\ async[Head(localList[t])]
  /\ memory' = [memory EXCEPT ![Head(localList[t])] = "freed"]
  /\ localList' = [localList EXCEPT ![t] = Tail(@)]
  /\ UNCHANGED <<bridgeVars, callVars, decision, linked, delivered, userPending, final,
                 signalled, async, at, current, taken, worldVars>>

\* The tail of DisconnectClient runs without the lock.  A waiter that has left has
\* freed its entry, which the list still names: touching it then either does
\* nothing (the block was not reused) or bugchecks.
Touch(c, write, keep) ==
  IF memory[c] = "freed" THEN halted' \in BOOLEAN /\ keep ELSE write /\ UNCHANGED halted

SweepAnswer(t) ==
  /\ ~halted /\ at[t] = "sweeping" /\ localList[t] # <<>> /\ ~async[Head(localList[t])]
  /\ LET c == Head(localList[t]) IN
     /\ Touch(c, decision' = [decision EXCEPT ![c] = "timeout"], UNCHANGED decision)
     /\ current' = [current EXCEPT ![t] = c]
  /\ localList' = [localList EXCEPT ![t] = Tail(@)]
  /\ Move(t, "answered")
  /\ UNCHANGED <<bridgeVars, callVars, linked, delivered, userPending, final, signalled, async,
                 memory, taken, alive, readers>>

SweepSignal(t) ==
  /\ ~halted /\ at[t] = "answered"
  /\ Touch(current[t], signalled' = [signalled EXCEPT ![current[t]] = TRUE],
           UNCHANGED signalled)
  /\ current' = [current EXCEPT ![t] = NoCall]
  /\ Move(t, "sweeping")
  /\ UNCHANGED <<bridgeVars, callVars, decision, linked, delivered, userPending, final, async,
                 memory, localList, taken, alive, readers>>

SweepDone(t) ==
  /\ ~halted /\ at[t] = "sweeping" /\ localList[t] = <<>>
  /\ Move(t, "idle")
  /\ UNCHANGED <<bridgeVars, callVars, entryVars, localList, current, taken, worldVars>>

----------------------------------------------------------------------------
(* ShutdownGlobalContext, reached once ModulesShutdown has drained the        *)
(* callbacks and every control handle is closed: only async entries are left. *)

Quiet ==
  /\ \A c \in Calls : pc[c] \in {"idle", "returned"}
  /\ \A t \in Threads : at[t] = "idle"

Shutdown ==
  /\ LockFree /\ session.initialized /\ Quiet
  /\ session' = [session EXCEPT !.connected = FALSE, !.async = FALSE, !.initialized = FALSE]
  /\ linked' = [c \in Calls |-> linked[c] /\ ~Queued(c)]
  /\ memory' = [c \in Calls |-> IF Queued(c) /\ async[c] THEN "freed" ELSE memory[c]]
  /\ decision' = [c \in Calls |-> IF Queued(c) /\ ~async[c] THEN "allow" ELSE decision[c]]
  /\ signalled' = [c \in Calls |-> signalled[c] \/ (Queued(c) /\ ~async[c])]
  /\ queue' = <<>> /\ count' = 0 /\ available' = TRUE
  /\ UNCHANGED <<throttle, stats, callVars, delivered, userPending, final, async, threadVars,
                 worldVars>>

\* Unloaded, or bugchecked: the bridge has stopped.
Stopped == (halted \/ ~session.initialized) /\ UNCHANGED vars

----------------------------------------------------------------------------
CallStep(c) ==
  \/ RaisedIrql(c) \/ ArriveThrottled(c)
  \/ \E expired \in BOOLEAN :
       ArriveDisconnected(c, expired) \/ ArriveFull(c, expired) \/ ArriveAdmitted(c, expired)
  \/ AllocationFails(c) \/ Prepare(c) \/ Insert(c) \/ InsertRefused(c)
  \/ Wake(c) \/ ResetDecisionEvent(c) \/ WaitExpires(c) \/ Leave(c)

ThreadStep(t) ==
  \/ StartPoll(t) \/ ScanDelivers(t) \/ ScanFindsNothing(t) \/ EnterWait(t) \/ PollExpires(t)
  \/ DrainOne(t) \/ DrainDone(t)
  \/ \E c \in Calls, d \in Verdicts : Submit(t, c, d)
  \/ \E review, tokenFails \in BOOLEAN : Register(t, review, tokenFails)
  \/ StartDisconnect(t) \/ ProcessExit(t)
  \/ Clear(t) \/ WakePollers(t) \/ SweepAsync(t) \/ SweepAnswer(t) \/ SweepSignal(t) \/ SweepDone(t)

Next ==
  \/ \E c \in Calls : CallStep(c)
  \/ \E t \in Threads : ThreadStep(t)
  \/ Shutdown
  \/ Stopped

Spec == Init /\ [][Next]_vars

(***************************************************************************)
(* Fairness: a thread that executes QueueEventAndWait keeps running, its   *)
(* timed waits run out, and a batch read, which keeps the lock from step   *)
(* to step, comes to its end.  Nothing is assumed of the client's other    *)
(* requests, nor of the client: it need not poll, answer, disconnect or    *)
(* exit, and its disconnect may stop halfway.                              *)
(***************************************************************************)
CallRuns(c) ==
  AllocationFails(c) \/ Prepare(c) \/ Insert(c) \/ InsertRefused(c)
  \/ Wake(c) \/ ResetDecisionEvent(c) \/ WaitExpires(c) \/ Leave(c)
BatchRuns(t) == DrainOne(t) \/ DrainDone(t)

FairSpec ==
  /\ Spec
  /\ \A c \in Calls : WF_vars(CallRuns(c))
  /\ \A t \in Pollers : WF_vars(BatchRuns(t))

----------------------------------------------------------------------------
(* Properties *)

CallPcs == {"idle", "admitted", "prepared", "waiting", "resetting", "leaving", "returned"}
Statuses == {"none", "success", "timeout", "invalid_device_state", "no_more_entries",
             "not_connected", "insufficient_resources"}
ThreadPcs == {"idle", "polling", "entering", "blocked", "batching", "draining",
              "clearing", "cleared", "sweeping", "answered"}

\* Every variable has the type of the structure it stands for.
BridgeTyped ==
  /\ session \in [connected : BOOLEAN, pid : Pids \cup {NoPid}, async : BOOLEAN,
                  initialized : BOOLEAN]
  /\ queue \in Seq(Calls) /\ count \in 0..MaxPending
  /\ available \in BOOLEAN /\ throttle \in 0..NoiseLimit
  /\ stats \in [Classes -> [received : Nat, dropped : Nat, timedOut : Nat]]
CallTyped ==
  /\ pc \in [Calls -> CallPcs] /\ held \in [Calls -> BOOLEAN]
  /\ status \in [Calls -> Statuses] /\ verdict \in [Calls -> Decisions]
EntryTyped ==
  /\ decision \in [Calls -> Decisions] /\ linked \in [Calls -> BOOLEAN]
  /\ delivered \in [Calls -> BOOLEAN] /\ userPending \in [Calls -> BOOLEAN]
  /\ final \in [Calls -> (Decisions \ {"pending"}) \cup {"none"}]
  /\ signalled \in [Calls -> BOOLEAN] /\ async \in [Calls -> BOOLEAN]
  /\ memory \in [Calls -> {"none", "live", "freed"}]
ThreadTyped ==
  /\ at \in [Threads -> ThreadPcs] /\ localList \in [Threads -> Seq(Calls)]
  /\ current \in [Threads -> Calls \cup {NoCall}] /\ taken \in [Threads -> 0..BatchSize]
WorldTyped ==
  /\ alive \subseteq Pids /\ halted \in BOOLEAN
  /\ readers \in [Calls -> Seq(Threads)]
TypeOK == BridgeTyped /\ CallTyped /\ EntryTyped /\ ThreadTyped /\ WorldTyped

\* PendingEventCount is the length of the list, within its limit, and the list holds
\* exactly the entries marked Linked, each once and none of them freed: what the
\* count's admission test, the unlink of a leaving waiter and the detach of a
\* disconnect rely on when they interleave.
QueueSound ==
  /\ count = Len(queue)
  /\ count <= MaxPending
  /\ \A i, j \in DOMAIN queue : queue[i] = queue[j] => i = j
  /\ \A c \in Calls : linked[c] <=> Queued(c)
  /\ \A c \in Calls : linked[c] => memory[c] = "live"

\* No noise event ever stands before a critical one, whatever has been inserted,
\* removed or read in between (QueueEventAndWait's insertion point).
CriticalFirst ==
  \A i, j \in DOMAIN queue : i < j /\ queue[j] \in Critical => queue[i] \in Critical

\* An async entry has one owner at a time: from its insertion to its release it is in
\* the list or in one disconnecting thread's list, so it is freed once and never leaked.
AsyncOwned ==
  \A c \in Calls : async[c] /\ pc[c] = "returned" =>
    LET holders == {t \in Threads : \E i \in DOMAIN localList[t] : localList[t][i] = c} IN
    /\ memory[c] = "live" => linked[c] \/ holders # {}
    /\ memory[c] = "freed" => ~linked[c] /\ holders = {}
    /\ Cardinality(holders) <= 1 /\ (holders # {} => ~linked[c])

\* A critical event returns success with Allow only because the client's accepted final
\* verdict was Allow: the default Allow the call starts from never escapes.
CriticalAllowIsAnswered ==
  \A c \in Critical :
    pc[c] = "returned" /\ status[c] = "success" /\ verdict[c] = "allow"
      => final[c] = "allow"

\* An event the waiter knows to be held for the user (Pending) ends in the client's own
\* final verdict or in Block: the user-decision wait fails closed on timeout,
\* on disconnect, and on a client that answers Timeout.
HeldFailsClosed ==
  \A c \in Calls :
    pc[c] = "returned" /\ held[c] =>
      /\ verdict[c] # "timeout"
      /\ verdict[c] \in {"block", final[c]}

\* A Pending answer the bridge has accepted puts the call under the user-decision rule: it
\* does not end in the infrastructure timeout callers allow (the flow ProcessProtect.c
\* describes).
PendingFailsClosed ==
  \A c \in Calls :
    pc[c] = "returned" /\ userPending[c] => verdict[c] # "timeout"

\* A call whose event got an accepted final verdict returns that verdict, unless its
\* wait ran out before it saw it or a disconnect overwrote it; then it returns the
\* default of its phase, never another verdict.
AcceptedVerdictStands ==
  \A c \in Calls :
    pc[c] = "returned" /\ final[c] \notin {"none", verdict[c]} =>
      /\ status[c] = "timeout" \/ decision[c] = "timeout"
      /\ verdict[c] = IF held[c] THEN "block" ELSE "timeout"

\* A final verdict accepted while the call waits leaves its event signalled, also when it
\* arrives just after a Pending one: the reset cannot lose it.
NoLostFinal ==
  \A c \in Calls :
    final[c] # "none" /\ pc[c] = "waiting" => signalled[c]

\* Each event is delivered at most once, to whichever thread reads it first.
DeliveredOnce == \A c \in Calls : Len(readers[c]) <= 1

\* The only code that touches a freed entry is the unlocked tail of a disconnect:
\* a live waiter or a linked entry never is a freed one.
LiveWhileUsed ==
  \A c \in Calls :
    pc[c] \in {"prepared", "waiting", "resetting", "leaving"} /\ ~async[c]
      => memory[c] = "live"

\* With one thread polling, an event is never left in the list while that thread sleeps
\* without a signal: the wake-up that goes with each insertion is not lost.
NoMissedWakeup ==
  Undelivered # {} /\ Blocked # {} =>
    \E t \in Threads : at[t] \in {"polling", "entering", "batching", "draining"}

\* What makes QueueSound and LiveWhileUsed inductive: a call's entry is linked only after
\* its insertion, and a list a disconnecting thread has detached names no linked entry.
BeforeInsertion == {"idle", "admitted", "prepared"}
StructureInv ==
  /\ TypeOK
  /\ QueueSound
  /\ LiveWhileUsed
  /\ \A c \in Calls : pc[c] \in BeforeInsertion => ~linked[c]
  /\ \A c \in Calls : pc[c] = "prepared" => memory[c] = "live"
  /\ \A c \in Calls : pc[c] = "returned" /\ linked[c] => async[c]
  /\ \A t \in Threads : \A i \in DOMAIN localList[t] :
       /\ ~linked[localList[t][i]]
       /\ pc[localList[t][i]] \notin BeforeInsertion

\* What makes HeldFailsClosed and CriticalAllowIsAnswered inductive: a signalled event
\* carries Pending, a disconnect's Timeout or the accepted final verdict, and so does the
\* copy a waiter leaves with.
VerdictOf(c) == {"timeout", final[c]}
VerdictInv ==
  /\ \A c \in Calls : pc[c] \in BeforeInsertion =>
       final[c] = "none" /\ ~signalled[c] /\ ~held[c]
  /\ \A c \in Calls : signalled[c] => decision[c] \in VerdictOf(c) \cup {"pending"}
  /\ \A t \in Threads : at[t] = "answered" =>
       /\ current[t] \in Calls
       /\ pc[current[t]] \notin BeforeInsertion
       /\ \/ memory[current[t]] = "freed"
          \/ decision[current[t]] \in VerdictOf(current[t]) \cup {"pending"}
  /\ \A c \in Calls : pc[c] = "leaving" => status[c] \in {"success", "timeout"}
  /\ \A c \in Calls : pc[c] = "leaving" /\ status[c] = "success" =>
       verdict[c] \in VerdictOf(c) \ {"pending"}
  /\ \A c \in Calls : pc[c] = "returned" /\ held[c] =>
       verdict[c] # "timeout" /\ verdict[c] \in {"block", final[c]}
  /\ \A c \in Calls : pc[c] = "returned" /\ status[c] = "success" /\ ~async[c] =>
       verdict[c] \in VerdictOf(c) \cup {"block"}
  /\ \A c \in Critical : ~async[c]

\* What makes DeliveredOnce, NoLostFinal and ImplementsReview inductive: an entry is handed
\* over once and an async one leaves the list with it, and only a decision that is still
\* Pending is reset.
InReview(c) == pc[c] \in {"waiting", "resetting", "leaving"}
ReviewInv ==
  /\ \A c \in Calls : Len(readers[c]) <= 1 /\ (~delivered[c] => readers[c] = <<>>)
  /\ \A c \in Calls : pc[c] \in BeforeInsertion => readers[c] = <<>>
  /\ \A c \in Calls : readers[c] # <<>> /\ linked[c] => ~async[c]
  /\ \A c \in Calls : InReview(c) => ~async[c]
  /\ \A c \in Calls : held[c] => userPending[c]
  /\ \A c \in Calls : decision[c] = "pending" \/ pc[c] = "resetting" => final[c] = "none"
  /\ \A c \in Calls : final[c] # "none" /\ pc[c] = "waiting" => signalled[c]

\* The bridge implements the review protocol of EventReview.
Reviewed(c) ==
  status[c] = "timeout" \/ (status[c] = "success" /\ ~async[c])
ReviewPhase == [c \in Calls |->
  IF InReview(c) THEN IF held[c] THEN "held" ELSE "asked"
  ELSE IF pc[c] = "returned" THEN "over" ELSE "unasked"]
ReviewOutcome == [c \in Calls |->
  IF pc[c] # "returned" THEN "none" ELSE IF Reviewed(c) THEN verdict[c] ELSE "unreviewed"]
Review == INSTANCE EventReview WITH
  phase <- ReviewPhase, vote <- final, outcome <- ReviewOutcome
ImplementsReview == Review!Spec

\* Every call of QueueEventAndWait returns, whatever the client does or fails to do,
\* unless the machine has bugchecked.
EveryCallReturns ==
  \A c \in Calls : pc[c] # "idle" ~> (pc[c] = "returned" \/ halted)
=============================================================================
