----------------------------- MODULE BootWriteGate -----------------------------
(***************************************************************************)
(* The boot-sector write filter (Xdows-Security-BootFilter/Driver.c).  Its *)
(* client configures a disk and byte ranges; the driver attaches a filter  *)
(* device to that disk and holds each write that touches a range until the *)
(* client allows it.  A held write reserves a place and its bytes, waits   *)
(* in a work item, and is forwarded or failed.  A disconnect, a time-out,  *)
(* an overload and an unload all fail it.                                  *)
(*                                                                         *)
(* Each action is one section under the spin lock or one step outside it;  *)
(* no section is ever left while the lock is held.                         *)
(***************************************************************************)
EXTENDS BootRanges, FiniteSetsExt, SequencesExt

CONSTANTS
  Writes,          \* the disk writes that may arrive
  WriteOffset,     \* the offset of each
  WriteLength,     \* its length
  RangeSets,       \* the sets of ranges clients configure
  Pids,            \* processes that may open the control device
  Threads, Owner,  \* their threads, each issuing one request at a time
  MaxRequestBytes, \* XDOWS_BOOT_MAX_REQUEST_BYTES
  MaxPendingBytes, \* XDOWS_BOOT_MAX_PENDING_BYTES
  MaxPending,      \* XDOWS_BOOT_MAX_PENDING_REQUESTS
  MaxHandles,      \* bound: handles a process opens
  NoPid, NoDevice, NoRequest

ASSUME WritesAssumption ==
  /\ WriteOffset \in [Writes -> Offsets] /\ WriteLength \in [Writes -> 0..MaxLength]
  /\ \A rs \in RangeSets : rs \subseteq RawRange
ASSUME ClientAssumption ==
  /\ Owner \in [Threads -> Pids] /\ NoPid \notin Pids /\ NoDevice \notin Threads
ASSUME LimitAssumption ==
  /\ MaxRequestBytes \in Nat /\ MaxPendingBytes \in Nat /\ MaxPending \in Nat \ {0}
  /\ MaxRequestBytes <= MaxPendingBytes /\ MaxHandles \in Nat

VARIABLES
  client,      \* the registered process, or NoPid: ClientConnected, ClientProcessId
  ranges,      \* Ranges, {} until Configured
  stack,       \* the filter devices attached to the disk, lowest first
  filter,      \* FilterDevice: a device is named by the thread that created it
  lower,       \* whether LowerDevice is set
  unloading,   \* "no", "waiting" once Unloading is set, "done" when BootUnload returns
  count,       \* PendingRequestCount
  bytes,       \* PendingBytes
  zero,        \* the state of PendingZeroEvent
  available,   \* the state of the auto-reset EventAvailable
  list,        \* PendingWrites
  \* each write
  pc,          \* where its IRP is
  via,         \* the device it was sent to
  decision,    \* Decision of its pending record
  signalled,   \* the state of its DecisionEvent
  delivered,   \* Delivered, as the process that read the event
  outcome,     \* how its IRP ended
  \* each client thread
  at,          \* where its request is
  request,     \* its argument
  handles,     \* open handles of each process to the control device
  allowedBy    \* history: the client whose SUBMIT_DECISION last allowed the write

sessionVars == <<client, handles>>
diskVars == <<ranges, stack, filter, lower, unloading>>
budgetVars == <<count, bytes, zero>>
writeVars == <<pc, via, decision, signalled, delivered, outcome, allowedBy>>
threadVars == <<at, request>>
vars == <<sessionVars, diskVars, budgetVars, available, list, writeVars, threadVars>>

Init ==
  /\ client = NoPid /\ handles = [p \in Pids |-> 0]
  /\ ranges = {} /\ stack = <<>> /\ filter = NoDevice /\ lower = FALSE /\ unloading = "no"
  /\ count = 0 /\ bytes = 0 /\ zero = TRUE /\ available = FALSE /\ list = <<>>
  /\ pc = [w \in Writes |-> "idle"] /\ via = [w \in Writes |-> NoDevice]
  /\ decision = [w \in Writes |-> "block"] /\ signalled = [w \in Writes |-> FALSE]
  /\ delivered = [w \in Writes |-> NoPid] /\ outcome = [w \in Writes |-> "none"]
  /\ allowedBy = [w \in Writes |-> NoPid]
  /\ at = [t \in Threads |-> "idle"] /\ request = [t \in Threads |-> NoRequest]

GoTo(w, place) == pc' = [pc EXCEPT ![w] = place]
Finish(w, result) == GoTo(w, "done") /\ outcome' = [outcome EXCEPT ![w] = result]
Move(t, place) == at' = [at EXCEPT ![t] = place]

----------------------------------------------------------------------------
(* A write *)

\* BootDispatchWrite on the top device of the disk: a device that is not the one the
\* driver has published is no filter device to it, and the write fails.
WriteArrives(w) ==
  /\ pc[w] = "idle" /\ stack # <<>>
  /\ via' = [via EXCEPT ![w] = Last(stack)]
  /\ IF Last(stack) = filter /\ lower THEN GoTo(w, "dispatched") /\ UNCHANGED outcome
     ELSE Finish(w, "failed")
  /\ UNCHANGED <<sessionVars, diskVars, budgetVars, available, list, decision, signalled,
                 delivered, allowedBy, threadVars>>

\* The range test, then the size test.
MustHold(w) == Intersects(WriteOffset[w], WriteLength[w], ranges)
SizeAllowed(w) == WriteLength[w] # 0 /\ WriteLength[w] <= MaxRequestBytes
Classify(w) ==
  /\ pc[w] = "dispatched"
  /\ IF ~MustHold(w) THEN GoTo(w, "passing") /\ UNCHANGED outcome
     ELSE IF SizeAllowed(w) THEN GoTo(w, "protected") /\ UNCHANGED outcome
     ELSE Finish(w, "blocked")
  /\ UNCHANGED <<sessionVars, diskVars, budgetVars, available, list, via, decision, signalled,
                 delivered, allowedBy, threadVars>>

\* BootDispatchPassThrough reads the published devices again; past the lower device
\* there may be another filter device, which does not know itself.
PassThrough(w) ==
  /\ pc[w] = "passing"
  /\ Finish(w, IF via[w] = filter /\ lower /\ Len(stack) = 1 THEN "passed" ELSE "failed")
  /\ UNCHANGED <<sessionVars, diskVars, budgetVars, available, list, via, decision, signalled,
                 delivered, allowedBy, threadVars>>

\* Reserve a place and the bytes, if there is a client and room for both.
Serving == client # NoPid /\ unloading = "no"
HasRoomMutPlacesOnly(w) == count < MaxPending
HasRoom(w) == count < MaxPending /\ bytes <= MaxPendingBytes - WriteLength[w]
Reserve(w) ==
  /\ pc[w] = "protected"
  /\ IF Serving /\ HasRoom(w)
     THEN /\ GoTo(w, "reserved") /\ UNCHANGED outcome
          /\ count' = count + 1 /\ bytes' = bytes + WriteLength[w]
          /\ zero' = IF count + 1 = 1 THEN FALSE ELSE zero
     ELSE Finish(w, "blocked") /\ UNCHANGED budgetVars
  /\ UNCHANGED <<sessionVars, diskVars, available, list, via, decision, signalled, delivered,
                 allowedBy, threadVars>>

\* BootReleasePendingReservation.
ReleaseMutNotSignalled(w) ==
  /\ count' = IF count > 0 THEN count - 1 ELSE 0
  /\ bytes' = IF bytes >= WriteLength[w] THEN bytes - WriteLength[w] ELSE 0
  /\ UNCHANGED zero
Release(w) ==
  /\ count' = IF count > 0 THEN count - 1 ELSE 0
  /\ bytes' = IF bytes >= WriteLength[w] THEN bytes - WriteLength[w] ELSE 0
  /\ zero' = (zero \/ count' = 0)

\* Either allocation fails.
AllocationFails(w) ==
  /\ pc[w] = "reserved"
  /\ Release(w)
  /\ Finish(w, "blocked")
  /\ UNCHANGED <<sessionVars, diskVars, available, list, via, decision, signalled, delivered,
                 allowedBy, threadVars>>

QueueWorkItem(w) ==
  /\ pc[w] = "reserved"
  /\ GoTo(w, "queued")
  /\ UNCHANGED <<sessionVars, diskVars, budgetVars, available, list, via, decision, signalled,
                 delivered, outcome, allowedBy, threadVars>>

\* KeSetEvent on the auto-reset EventAvailable, as in the event bridge.
Blocked == {t \in Threads : at[t] = "blocked"}
SignalAvailable(base) ==
  \/ Blocked = {} /\ available' = TRUE /\ at' = base
  \/ \E t \in Blocked : at' = [base EXCEPT ![t] = "polling"] /\ UNCHANGED available

\* BootProcessProtectedWrite, in a worker thread.
WorkerQueues(w) ==
  /\ pc[w] = "queued"
  /\ IF Serving
     THEN /\ list' = Append(list, w) /\ SignalAvailable(at)
          /\ GoTo(w, "waiting")
     ELSE GoTo(w, "blocking") /\ UNCHANGED <<list, available, at>>
  /\ UNCHANGED <<sessionVars, diskVars, budgetVars, via, decision, signalled, delivered, outcome,
                 allowedBy, request>>

\* The wait ends, by a signal or by time-out, and the worker takes the lock.
EndOfWaitMutNoTimeout(w) == IF signalled[w] THEN "woken" ELSE "waiting"
EndOfWait(w) == IF signalled[w] THEN "woken" ELSE "expired"
WaitEnds(w) ==
  /\ pc[w] = "waiting"
  /\ GoTo(w, EndOfWait(w))
  /\ UNCHANGED <<sessionVars, diskVars, budgetVars, available, list, via, decision, signalled,
                 delivered, outcome, allowedBy, threadVars>>

Verdict(w) == IF pc[w] = "woken" THEN decision[w] ELSE "block"
StillLinked(w) == \E i \in DOMAIN list : list[i] = w
UnlinkedMutLeft(w) == list
Unlinked(w) == RemoveFirst(list, w)
WorkerDecides(w) ==
  /\ pc[w] \in {"woken", "expired"}
  /\ list' = Unlinked(w)
  /\ GoTo(w, IF Verdict(w) = "allow" THEN "allowed" ELSE "blocking")
  /\ UNCHANGED <<sessionVars, diskVars, budgetVars, available, via, decision, signalled,
                 delivered, outcome, allowedBy, threadVars>>

\* An allowed write is still failed if the driver is unloading.
WorkerForwards(w) ==
  /\ pc[w] = "allowed"
  /\ IF unloading = "no" /\ lower
     THEN /\ GoTo(w, "releasing")
          /\ outcome' = [outcome EXCEPT ![w] = IF Len(stack) = 1 THEN "forwarded" ELSE "failed"]
     ELSE GoTo(w, "blocking") /\ UNCHANGED outcome
  /\ UNCHANGED <<sessionVars, diskVars, budgetVars, available, list, via, decision, signalled,
                 delivered, allowedBy, threadVars>>

WorkerFails(w) ==
  /\ pc[w] = "blocking"
  /\ GoTo(w, "releasing") /\ outcome' = [outcome EXCEPT ![w] = "blocked"]
  /\ UNCHANGED <<sessionVars, diskVars, budgetVars, available, list, via, decision, signalled,
                 delivered, allowedBy, threadVars>>

WorkerReleases(w) ==
  /\ pc[w] = "releasing"
  /\ Release(w) /\ GoTo(w, "done")
  /\ UNCHANGED <<sessionVars, diskVars, available, list, via, decision, signalled, delivered,
                 outcome, allowedBy, threadVars>>

----------------------------------------------------------------------------
(* The client's requests *)

Loaded == unloading = "no"
Open(t) ==
  /\ Loaded /\ at[t] = "idle" /\ handles[Owner[t]] < MaxHandles
  /\ handles' = [handles EXCEPT ![Owner[t]] = @ + 1]
  /\ UNCHANGED <<client, diskVars, budgetVars, available, list, writeVars, threadVars>>

\* A request the I/O manager has accepted on an open handle.
Issues(t) == at[t] = "idle" /\ handles[Owner[t]] > 0

\* BootCallerIsClient: one section of the lock, before the one of the request.
IsClientMutAnyClient(p) == client # NoPid
IsClient(p) == client = p
Admits(t) == Issues(t) /\ IsClient(Owner[t])

\* REGISTER_CLIENT, up to its own section of the lock.
StartRegister(t) ==
  /\ Issues(t)
  /\ Move(t, "registering")
  /\ UNCHANGED <<sessionVars, diskVars, budgetVars, available, list, writeVars, request>>
Register(t) ==
  /\ at[t] = "registering"
  /\ client' = IF client \in {NoPid, Owner[t]} THEN Owner[t] ELSE client
  /\ Move(t, "idle")
  /\ UNCHANGED <<handles, diskVars, budgetVars, available, list, writeVars, request>>

\* CONFIGURE: the disk is attached outside the lock, device by device, then the ranges
\* are replaced under it.
StartConfigure(t, rs) ==
  /\ Admits(t) /\ RangesAreValid(rs)
  /\ request' = [request EXCEPT ![t] = rs]
  /\ Move(t, "configuring")
  /\ UNCHANGED <<sessionVars, diskVars, budgetVars, available, list, writeVars>>

MustAttachMutAlways == TRUE
MustAttach == filter = NoDevice
CheckAttached(t) ==
  /\ at[t] = "configuring"
  /\ Move(t, IF MustAttach THEN "attaching" ELSE "ranging")
  /\ UNCHANGED <<sessionVars, diskVars, budgetVars, available, list, writeVars, request>>

\* The target disk is missing, or a device cannot be created or attached.
AttachFails(t) ==
  /\ at[t] = "attaching"
  /\ Move(t, "idle") /\ request' = [request EXCEPT ![t] = NoRequest]
  /\ UNCHANGED <<sessionVars, diskVars, budgetVars, available, list, writeVars>>
Attach(t) ==
  /\ at[t] = "attaching"
  /\ stack' = Append(stack, t)
  /\ Move(t, "publishing")
  /\ UNCHANGED <<sessionVars, ranges, filter, lower, unloading, budgetVars, available, list,
                 writeVars, request>>
PublishFilter(t) ==
  /\ at[t] = "publishing"
  /\ filter' = t
  /\ Move(t, "linking")
  /\ UNCHANGED <<sessionVars, ranges, stack, lower, unloading, budgetVars, available, list,
                 writeVars, request>>
PublishLower(t) ==
  /\ at[t] = "linking"
  /\ lower' = TRUE
  /\ Move(t, "ranging")
  /\ UNCHANGED <<sessionVars, ranges, stack, filter, unloading, budgetVars, available, list,
                 writeVars, request>>
SetRanges(t) ==
  /\ at[t] = "ranging"
  /\ ranges' = request[t]
  /\ Move(t, "idle") /\ request' = [request EXCEPT ![t] = NoRequest]
  /\ UNCHANGED <<sessionVars, stack, filter, lower, unloading, budgetVars, available, list,
                 writeVars>>

\* GET_NEXT_EVENT.
StartPoll(t) ==
  /\ Admits(t)
  /\ Move(t, "polling")
  /\ UNCHANGED <<sessionVars, diskVars, budgetVars, available, list, writeVars, request>>

Undelivered == {i \in DOMAIN list : delivered[list[i]] = NoPid}
PollDelivers(t) ==
  /\ at[t] = "polling"
  /\ \E i \in Undelivered :
       /\ \A j \in Undelivered : i <= j
       /\ delivered' = [delivered EXCEPT ![list[i]] = Owner[t]]
  /\ Move(t, "idle")
  /\ UNCHANGED <<sessionVars, diskVars, budgetVars, available, list, pc, via, decision,
                 signalled, outcome, allowedBy, request>>
PollFindsNothing(t) ==
  /\ at[t] = "polling" /\ Undelivered = {}
  /\ Move(t, IF Serving THEN "entering" ELSE "idle")
  /\ UNCHANGED <<sessionVars, diskVars, budgetVars, available, list, writeVars, request>>
EnterWait(t) ==
  /\ at[t] = "entering"
  /\ Move(t, IF available THEN "polling" ELSE "blocked") /\ available' = FALSE
  /\ UNCHANGED <<sessionVars, diskVars, budgetVars, list, writeVars, request>>
PollExpires(t) ==
  /\ at[t] = "blocked"
  /\ Move(t, "idle")
  /\ UNCHANGED <<sessionVars, diskVars, budgetVars, available, list, writeVars, request>>

\* SUBMIT_DECISION: the check of the caller, then the lookup.
StartSubmit(t, w, d) ==
  /\ Admits(t) /\ delivered[w] = Owner[t]
  /\ request' = [request EXCEPT ![t] = [write |-> w, decision |-> d]]
  /\ Move(t, "submitting")
  /\ UNCHANGED <<sessionVars, diskVars, budgetVars, available, list, writeVars>>
Submit(t) ==
  /\ at[t] = "submitting"
  /\ LET w == request[t].write  d == request[t].decision IN
     IF StillLinked(w)
     THEN /\ decision' = [decision EXCEPT ![w] = d]
          /\ signalled' = [signalled EXCEPT ![w] = TRUE]
          /\ allowedBy' = [allowedBy EXCEPT ![w] = IF d = "allow" THEN client ELSE @]
     ELSE UNCHANGED <<decision, signalled, allowedBy>>
  /\ Move(t, "idle") /\ request' = [request EXCEPT ![t] = NoRequest]
  /\ UNCHANGED <<sessionVars, diskVars, budgetVars, available, list, pc, via, delivered, outcome>>

\* A handle is closed, by its process or by its exit: BootDispatchCleanup disconnects
\* the client, whichever of its handles it was.
ListedMutDelivered(w) == StillLinked(w) /\ delivered[w] # NoPid
Listed(w) == StillLinked(w)
Disconnect ==
  /\ client' = NoPid
  /\ decision' = [w \in Writes |-> IF Listed(w) THEN "block" ELSE decision[w]]
  /\ signalled' = [w \in Writes |-> signalled[w] \/ Listed(w)]
CleanupDisconnectsMutMissing(p) == FALSE
CleanupDisconnects(p) == client = p
Close(t) ==
  /\ Issues(t)
  /\ handles' = [handles EXCEPT ![Owner[t]] = @ - 1]
  /\ IF CleanupDisconnects(Owner[t])
     THEN Disconnect /\ Move(t, "closing")
     ELSE UNCHANGED <<client, decision, signalled, at>>
  /\ UNCHANGED <<diskVars, budgetVars, available, list, pc, via, delivered, outcome, allowedBy,
                 request>>
\* The wake-up of a poller follows, outside the lock.
Closed(t) ==
  /\ at[t] = "closing"
  /\ SignalAvailable([at EXCEPT ![t] = "idle"])
  /\ UNCHANGED <<sessionVars, diskVars, budgetVars, list, writeVars, request>>

----------------------------------------------------------------------------
(* BootUnload, which the I/O manager calls once no handle is open. *)

StartUnload ==
  /\ Loaded
  /\ \A p \in Pids : handles[p] = 0
  /\ \A t \in Threads : at[t] = "idle"
  /\ unloading' = "waiting"
  /\ IF client = NoPid THEN UNCHANGED <<client, decision, signalled, available>>
     ELSE Disconnect /\ available' = TRUE
  /\ UNCHANGED <<handles, ranges, stack, filter, lower, budgetVars, list, pc, via, delivered,
                 outcome, allowedBy, threadVars>>

MayDetachMutNoWait == TRUE
MayDetach == zero
FinishUnload ==
  /\ unloading = "waiting" /\ MayDetach
  /\ unloading' = "done"
  /\ stack' = IF filter = NoDevice THEN stack ELSE RemoveFirst(stack, filter)
  /\ filter' = NoDevice /\ lower' = FALSE
  /\ UNCHANGED <<sessionVars, ranges, budgetVars, available, list, writeVars, threadVars>>

Stopped == unloading = "done" /\ UNCHANGED vars

----------------------------------------------------------------------------
WorkerStep(w) ==
  \/ Classify(w) \/ PassThrough(w) \/ Reserve(w) \/ AllocationFails(w) \/ QueueWorkItem(w)
  \/ WorkerQueues(w) \/ WaitEnds(w) \/ WorkerDecides(w) \/ WorkerForwards(w)
  \/ WorkerFails(w) \/ WorkerReleases(w)

RequestStep(t) ==
  \/ Register(t) \/ CheckAttached(t) \/ AttachFails(t) \/ Attach(t) \/ PublishFilter(t)
  \/ PublishLower(t) \/ SetRanges(t) \/ PollDelivers(t) \/ PollFindsNothing(t) \/ EnterWait(t)
  \/ PollExpires(t) \/ Submit(t) \/ Closed(t)

ClientStep(t) ==
  \/ Open(t) \/ StartRegister(t) \/ StartPoll(t) \/ Close(t)
  \/ \E rs \in RangeSets : StartConfigure(t, rs)
  \/ \E w \in Writes, d \in {"allow", "block"} : StartSubmit(t, w, d)

Next ==
  \/ \E w \in Writes : WriteArrives(w) \/ WorkerStep(w)
  \/ \E t \in Threads : RequestStep(t) \/ ClientStep(t)
  \/ StartUnload \/ FinishUnload \/ Stopped

Spec == Init /\ [][Next]_vars

\* Worker threads and accepted requests keep running, waits time out, and an unload
\* goes on once its wait is satisfied.  Clients owe the driver nothing.
FairSpec ==
  /\ Spec
  /\ \A w \in Writes : WF_vars(WorkerStep(w))
  /\ \A t \in Threads : WF_vars(RequestStep(t))
  /\ WF_vars(FinishUnload)
----------------------------------------------------------------------------
(* Properties *)

Holding == {w \in Writes : pc[w] \in {"reserved", "queued", "waiting", "woken", "expired",
                                     "allowed", "blocking", "releasing"}}

\* Every variable has the type of the structure it stands for.
TypeOK ==
  /\ client \in Pids \cup {NoPid} /\ handles \in [Pids -> 0..MaxHandles]
  /\ ranges \in RangeSets \cup {{}} /\ stack \in Seq(Threads)
  /\ filter \in Threads \cup {NoDevice} /\ lower \in BOOLEAN
  /\ unloading \in {"no", "waiting", "done"}
  /\ count \in 0..MaxPending /\ bytes \in 0..MaxPendingBytes /\ zero \in BOOLEAN
  /\ available \in BOOLEAN /\ list \in Seq(Writes)
  /\ pc \in [Writes -> {"idle", "dispatched", "passing", "protected", "done", "reserved",
                        "queued", "waiting", "woken", "expired", "allowed", "blocking",
                        "releasing"}]
  /\ via \in [Writes -> Threads \cup {NoDevice}]
  /\ decision \in [Writes -> {"allow", "block"}] /\ signalled \in [Writes -> BOOLEAN]
  /\ delivered \in [Writes -> Pids \cup {NoPid}]
  /\ allowedBy \in [Writes -> Pids \cup {NoPid}]
  /\ outcome \in [Writes -> {"none", "passed", "forwarded", "blocked", "failed"}]
  /\ at \in [Threads -> {"idle", "registering", "configuring", "attaching", "publishing",
                        "linking", "ranging", "polling", "entering", "blocked", "submitting",
                        "closing"}]

\* A held write reaches the disk only if the process that read its event answered Allow
\* while it was the registered client, and nothing has replaced that answer: time-outs,
\* disconnects, overloads and unloads fail closed (each client issues one request at a
\* time).
ForwardedByItsReader ==
  \A w \in Writes : outcome[w] = "forwarded" =>
    decision[w] = "allow" /\ allowedBy[w] = delivered[w] /\ allowedBy[w] # NoPid

\* The reservation is exact: it counts the writes between BootDispatchWrite's admission and
\* their release, and their bytes, within both limits, and PendingZeroEvent is set exactly
\* when there is none.
ReservationExact ==
  /\ count = Cardinality(Holding)
  /\ bytes = MapThenSumSet(LAMBDA w : WriteLength[w], Holding)
  /\ zero <=> count = 0

\* PendingWrites names each write whose worker is between its insertion and its removal,
\* once, and no other: a disconnect or an answer never reaches a freed record.
ListSound ==
  /\ \A i, j \in DOMAIN list : list[i] = list[j] => i = j
  /\ \A w \in Writes : StillLinked(w) <=> pc[w] \in {"waiting", "woken", "expired"}

\* A write never waits for an answer while there is no client to give one: it was queued
\* under a client, and the disconnect that ended the session has signalled it.
NobodyAwaited ==
  client = NoPid => \A w \in Writes : StillLinked(w) => signalled[w]

\* The unload detaches the device only once no held write is left to use it.
UnloadDrains == unloading = "done" => Holding = {}

\* The counter the unload waits for is the one the writes keep.
ReservationSound == ReservationExact /\ UnloadDrains

\* The registered client has the control device open: closing any of its handles ends its
\* session, so a session never outlives the process (each client issues one request at a
\* time).
SessionHasHandle == client # NoPid => handles[client] > 0

\* A session ends with its process, and with a session the waiting for its answers.
SessionSound == SessionHasHandle /\ NobodyAwaited

\* At most one filter device is attached to the disk, and outside CONFIGURE it is the one
\* the dispatch routines know: another would fail every request of the disk (each client
\* issues one request at a time).
DiskHasOneFilter ==
  /\ Len(stack) <= 1
  /\ (\A t \in Threads : at[t] \notin {"publishing", "linking"}) =>
       /\ lower <=> filter # NoDevice
       /\ stack = IF lower THEN <<filter>> ELSE <<>>

\* Whatever CONFIGURE requests have been accepted, a write that starts on the disk is held
\* if and only if it touches a byte of the configured ranges, up to their last byte
\* (BootWriteIntersectsProtectedRange on what BootRangesAreValid lets through).
WritesHeldExactly ==
  \A w \in Writes : WriteOffset[w] >= 0 =>
    TestIsExactFor(WriteOffset[w], WriteLength[w], ranges)

\* A held write is always completed, and an unload ends, whatever the client does.
HeldWritesEnd ==
  /\ \A w \in Writes : w \in Holding ~> pc[w] = "done"
  /\ unloading = "waiting" ~> unloading = "done"
=============================================================================
