# Xdows-Security-Driver: a TLA+ verification project

Xdows-Security-Driver is a pair of Windows kernel drivers. The main driver
(`src/Xdows-Security-Driver`) holds operations of other processes (launches, handle opens,
file and registry changes) while a user-mode client decides about them; the boot filter
(`src/Xdows-Security-BootFilter`) does the same for raw writes to the boot area of a disk.
This project models the parts of both in which several threads, a client that may die at
any moment, time-outs and failures meet, checks them with TLC, and proves the core with TLAPS.

## Inventory

| part | state it keeps | operations | what makes it correct |
|---|---|---|---|
| Event bridge, `DriverContext.c` | client session, list of pending entries and its count, per-entry decision, flags and event, per-type throttles and statistics | `QueueEventAndWait`, `GetNextPendingEvent(sBatch)`, `SubmitDecision`, `RegisterClient`, `DisconnectClient`, `ShutdownGlobalContext` | each event is delivered once, answered at most once, critical events first; a held event fails closed, and nothing waits for ever; entries are freed once and not used after |
| Control queue, `Queue.c` | none; it dispatches requests in parallel | one handler for each control code: admission checks, then calls into the other parts | each call works on the session it was admitted for |
| Shutdown token, `TokenAuth.c` | state, plaintext, digest, lock | initialize, copy once, validate, invalidate, rotate | the registered client can always authorize a shutdown, nobody else can |
| Unload guard, `Driver.c` | the hidden `DriverUnload` entry | lock, authorize, revoke | the driver unloads only after an authorized shutdown |
| Self protection, `SelfProtect.c` | the guarded process, its directory, startup protection | register, permit exit, clear, set startup protection, object and registry callbacks | a guard belongs to the session of its process; the startup protection binds the clients that come after |
| Process protection, `ProcessProtect.c` | none | process notification: launch policy, exit clean-up | verdicts applied as documented; an exit ends what belonged to the process |
| Handle gate, `InjectionProtect.c` | 64 cached verdicts with times | `InjectionPreOperation`, look-up, record | a cached verdict covers only what was allowed; critical and protected targets need an explicit Allow |
| Signature cache, `CodeIntegrity.c` | verdicts of processes, queued work | notifications, work items, initial sweep, query, shutdown | trust is of the image that runs; no work item is left at unload |
| File protection, `FileProtect.c` | protected volume roots, context of a file object | pre/post create, write, set-information, cleanup; configure | changes of boot files need the client's Allow, whatever fails |
| Ransomware monitor, `RansomwareMonitor.c` | two tables of 64 slots: process, count, window, flag | record write, record delete, is flagged, reset | a burst is bounded, a flag is earned by its own process |
| Registry protection, `RegistryProtect.c` | the switch and the listed keys, cookie | the registry callback, configure | a change that reaches a listed key is decided, whatever is configured meanwhile |
| Behaviour rules, `BehaviorRules.c` | configured rules and exclusions, 32 rate slots | inspect a command line, evaluate, configure | a rule fires for a burst of one process and for nothing else; an outage is settled as the matched rule says |
| Process manager, `ProcessManager.c` | none | query, suspend, resume, terminate | snapshot complete |
| Log ring, `Log.c` | ring of records | write, read | oldest records are dropped, the rest in order |
| Module registry, `ModuleRegistry.c` | table of modules and their state | start in order, stop in reverse | what failed to start is not stopped |
| Boot filter, `Xdows-Security-BootFilter/Driver.c` | client, ranges, attached device, pending writes, reserved bytes and places | dispatch of writes, work items, control requests, cleanup, unload | a write to a protected range reaches the disk only by its reader's Allow; every held write ends |
| Tools, packaging | PowerShell scripts, `.inf`, projects, `Trace.h` | none at run time | not modelled |

How they meet. The protections (process, handle, file, registry) run in the context of the
thread they hold and call `QueueEventAndWait`. The client polls with `GET_NEXT_EVENT(S)` and
answers with `SUBMIT_DECISION` through the control queue. The handle gate asks the signature
cache and the exclusions before it asks the client. The file minifilter calls the monitor. The
process exit notification ends the session, clears the guard, and resets the monitor.
The boot filter has a client protocol and a queue of its own and shares no state with the
main driver. No modelled section keeps one lock while it takes another.

What is hard. All request handlers and all callbacks run at once; almost every test of the
session is a locked section that is over when its result is used. The disconnect detaches
entries under the lock and answers them after it. Waits end by answer, time-out, disconnect
or shutdown, in any order. Process ids are reused. Allocation and context calls fail midway.
The hazards are listed one by one, with the line where each bites, in `PROJECT.json`.

## Modules

Each module has one action for each section under a lock, or for each step outside one, in
the order of the code. Where a lock is kept across two actions the model has a place of its
own for it and holds the other sections back (`LockFree` in EventBridge).

- **EventBridge**: one element of `Calls` is one execution of `QueueEventAndWait` with its
  entry and event. `ArriveThrottled`, `ArriveDisconnected`, `ArriveFull`, `ArriveAdmitted`,
  `AllocationFails`, `Prepare`, `Insert`, `InsertRefused`, `Wake`, `ResetDecisionEvent`,
  `WaitExpires`, `Leave` are its sections; `StartPoll` to `DrainDone` are the two read
  requests, with the auto-reset event; `Submit` is the answer; `Register`, `StartDisconnect`,
  `ProcessExit` and `Clear` to `SweepDone` are the session, with the unlocked tail of
  `DisconnectClient` entry by entry, a touch of freed memory included: it is left open what it
  reads, and it may stop the machine. `Shutdown` is `ShutdownGlobalContext`.
- **EventReview**: what the bridge promises, for each call: asked or skipped, held or not, at
  most one final vote, and a conclusion by the vote or the default of the phase.
- **BootRanges**, **BootWriteGate**: the range test with the widths of the code, and the whole
  of the boot filter: writes and their work items, requests, handles, attachment, unload.
  `BootWriteGate` extends `BootRanges`.
- **ClientSession**: the requests REGISTER, PROTECT_PROCESS, EXIT, DISCONNECT, SHUTDOWN and
  STARTUP_PROTECTION, the exit notification, and unload and load, over the token, the guard,
  the startup protection and the two unload entries. The unlocked assignments of
  `TokenAuthInitialize` are steps, and so are the look at the guard and the setting of the
  protection in `SelfProtectSetStartupProtection` (`CheckGuard`, `SetStartup`).
- **HandleGate**: `InjectionPreOperation` with its gates in order, and the verdict cache; a
  request is a set of access bits.
- **TrustCache**: notifications, work items, initial sweep, the two questions a validation
  asks, shutdown.
- **RansomwareMonitor**, **FileGate**: the monitor's tables as operators, one for each
  section of its lock, and the callbacks of the minifilter, which call them. `FileGate` extends
  `RansomwareMonitor`.
- **BehaviorRules**: the configured rules and exclusions and the rate slots. `Match` is the
  first section of `BehaviorEvaluateCustomRules`; `ReadClock`, `FindSlot`, `ClaimSlot`,
  `NoSlotLeft` and `Count` are `BehaviorRuleRateAllows`, cut at the spin lock and, inside it,
  between the search of a slot and the counting, because `Zero`, the `RtlZeroMemory` at the end
  of `BehaviorConfigureRules`, honours no lock. `Zero` writes one aligned word at a time, in
  any order; a zero stored between the read and the write of a counter is lost (`Written`).
- **LaunchGate** extends it by the launch notification: the built-in rules in their order as a
  table (`BuiltIn`), the parent chain, and what an answer, an expired wait or a failed bridge
  makes of the launch (`FailsOpen`, `HeldBlocked`, `ScanBlocked`).
- **RegistryGate** extends it by the registry callback: `RenameSource`, `DecideMutation` and
  `Spare` each take a lock anew.
- **PolicyGates** composes the two: threads enter a launch, a file operation or a registry
  change, and the client replaces one of the three lists between any two of their steps.

`EventReview` is instantiated by `EventBridge` under a refinement mapping (`Review`). The
consultations in HandleGate, FileGate and PolicyGates return any answer: `EventBridge` shows which
answers there are, and that the waits end. The modules `MC...` give TLC its
instances; the `.cfg` files say which. `..._proofs` hold the proofs.

Operators with `Mut` in their names are deliberately wrong variants of the definition they
precede (a missing test, an off-by-one, a forgotten reset). They are used by no specification;
put in the place of the right one each of them breaks the property `PROJECT.json` names, which
shows that the property depends on that code.

Values are abstracted to what the code distinguishes. A path is a model value that belongs
to the classes the code sorts paths into; a process is one creation of a process and has a
process id that another one may have later; a digest is taken to be injective; throttled
event types are one "noise" class; log records are left out. A command line is the set of the
strings the rules look for that it contains, so overlaps of strings (`/s` is in `/shutdown`) are
chosen by the instance; a registry key is the sequence of the names on its path, and listed
keys do not end in a backslash. File operations of a rule are create, write and delete:
`FileClassifyOperation` never returns RENAME.

## Runs

Bounds are constants of the `.cfg` files. Deadlock is checked except where a run says so.

| run | instance | what it shows |
|---|---|---|
| `bridge_review` | one critical call, every answer incl. Pending and Timeout, a client of two threads and a rival | `CriticalAllowIsAnswered`, `HeldFailsClosed`, `AcceptedVerdictStands`, `NoLostFinal`, `DeliveredOnce`, `LiveWhileUsed`, that the bridge implements `EventReview`, and that every call returns (`EveryCallReturns`) |
| `bridge_queue` | three calls, two places, noise limit 1, batches of 2 | `TypeOK`, `QueueSound`, `CriticalFirst`, `AsyncOwned`, `NoMissedWakeup` |
| `bridge_pending` (violation) | one call, one client that only answers Pending | `PendingFailsClosed` is false, see Findings |
| `boot_gate` | two writes, two clients, two configurations, places and bytes for one of them and part of the other | `ForwardedByItsReader`, `ReservationSound` (the reservation is exact; an unload drains it), `ListSound`, `SessionSound` (a session has a handle; nobody waits for a client that is gone), `DiskHasOneFilter`, `WritesHeldExactly` |
| `boot_live` | one write, a client of two threads | `HeldWritesEnd`: held writes are completed and unloads end |
| `session` | two clients of different images, one with two threads; three tokens, two requests at once; unload and load | `UnloadNeedsAuthorization`, `ClientHoldsToken`, `GuardSound` (`GuardIsClients`, `ClearsOwnSession`), `StartupIsClients` |
| `handle_gate` | two concurrent opens, two cache slots, a target id reused by a critical process, an excluded actor | `CacheSound` (`CacheHitJustified`, `OneSlotPerKey`), `CriticalNeedsAllow` |
| `handle_terminate` (violation) | one open of the protected process | `TerminateNeedsAllow` is false, see Findings |
| `trust_cache` | two process ids, each used twice, two slots, two work items | `VerdictsSound` (`TrustIsOwn`, `OneVerdictEach`), `WorkDrained` |
| `file_gate` | two threads of a script host, one file object, four paths, one monitor slot; or two file objects and deletes alone; threshold 2, window 2, five instants | `BootMutationsAllowed`, `MonitorSound` (`FlagIsOwn`, `BurstBounded`) |
| `file_documents` (violation) | one process opening a document again and again | `DocumentBurstBlocked` is false, see Findings |
| `policies` | two threads, three processes (one exempt, one trusted), three rule sets (two thresholds and windows for one id), three exclusion lists, three registry lists, one rate slot, two instants; the client replaces one list | `BurstNeeded`, `BurstCaught`, `OutageFailsAsConfigured`, `ProtectedMutationDecided` |

Why the bounds are enough to be of use. One call meets every section another thread can run
on its entry, so the verdict properties need no second call; the queue properties need a
full list, a second event of the same class and one of the other, hence three calls and two
places. Two writes compete for one budget in the boot filter. A cache with fewer slots
than keys replaces some; a process id used twice is the shortest reuse. A threshold of 2
and a window of 2 instants let a burst reach the limit inside one window and straddle two. The
counters the code has no limit for are bounded by names: `MaxTime` (clocks), `MaxTokens`
(random tokens drawn), `MaxRequests` (control requests under way at once), `MaxHandles` (handles
of a process), `MaxConfigs` (lists replaced), `MaxHits` (matches counted). When a clock is at its bound it
stands still, and nothing else does. `file_gate` explores a state further only if it is in `Scope`:
either the clock has moved once at most and one file object is used, or nothing is protected and
no file stays open. The first is enough for the boot properties, which do not look at the clock;
the second lets two threads delete over five instants, in which `BurstBounded` is reached with
equality.

In `session` a process has two requests under way, and the system goes on after that, only
while two tokens can still be drawn: two registrations may both rotate the token. In `policies` one rate slot is
enough to be taken by another process and to be zeroed while it is searched or counted in;
three matches reach a threshold of 2 and its double less one. `MayBegin` and `Request` keep the
kinds of callbacks apart where they share no state, and let a list be replaced only while a
callback that may see both is under way.

In `handle_gate`, `handle_terminate`, `trust_cache` and `policies` deadlock is not checked:
processes start once each, or matches are counted up to a bound, and the clock has a last
value, so these systems do stop.

Several properties are stated for clients that issue one control request at a time
in each process, and the comments on them say so; `session` runs two at once all the same
(`overlapped` tells), for what holds even then. They are not properties of a client that races
with itself: a DISCONNECT admitted before another thread's registration would clear
that session, two CONFIGURE requests of one boot client would both attach a device, and of two
registrations of one process the responses may overtake each other and carry
tokens in the wrong order.

Fairness. `EventBridge!FairSpec` assumes that a call of `QueueEventAndWait` keeps running and
its waits time out (they have a timer), and that a batch read, which keeps the spin lock from
entry to entry, runs to its end. It assumes nothing of the client's other requests: a
disconnect may stop between two entries. `BootWriteGate!FairSpec` assumes that work items,
accepted control requests (each runs in a thread of the client, inside the kernel) and
`BootUnload` keep running. No fairness is assumed of clients: they may never poll, never answer,
answer Pending for ever, or exit.

## Theorems

- `EventBridge_proofs` proves, for any number of calls, clients, threads and places, that the
  conjunction of `StructureInv`, `VerdictInv` and `ReviewInv` is invariant (`BridgeInvariant`), and
  from it `TypeOK`, `QueueSound`, `LiveWhileUsed`, `HeldFailsClosed`,
  `CriticalAllowIsAnswered`, `NoLostFinal`, `DeliveredOnce`, `CriticalFirst`, and that
  `EventBridge` implements `EventReview` (`BridgeImplementsReview`). The properties are not
  inductive by themselves. `StructureInv` adds that an entry is linked only after its
  insertion and that a list detached by a disconnect names only unlinked entries: without
  it a waiter could be freed under the sweep in the induction step. `VerdictInv` adds what a
  signalled event may carry and what the sweep may have left in an entry, since a waiter's
  verdict is the copy of what it found there. `ReviewInv` adds that an entry is handed over
  once and that the reset after Pending only happens while no final verdict has been
  accepted. `CriticalFirst` has an induction of its own over the insertion point, and three
  more properties have one over a strengthening of theirs: `AcceptedVerdictStands` over
  `StandsInv` (a Timeout in an entry that is not the client's own answer is a disconnect's, and
  no answer reaches that entry again), `AsyncOwned` over `OwnedInv` (no entry stands in two
  places of the threads' lists, a thread outside its sweep has no list, and no async entry in
  one is freed), and `NoMissedWakeup`, for one polling thread, over `WakeInv` (that thread
  neither enters a wait unsignalled nor sleeps while an event is undelivered). The assumptions
  are those `EventBridge` names on its constants.
- `BootWriteGate_proofs` proves every safety property of the boot filter. `TestIsExact`: for all
  ranges CONFIGURE accepts and all writes with a non-negative offset, the overlap test, with its
  sums modulo 2^64, holds exactly if a protected byte is written (`RangeEnd` and `WriteEnd` show
  that no sum wraps); `HeldExactly` follows, as only accepted ranges are ever installed.
  `ListInv` ties the list to the places of the workers, and `ReservationInv` the counter and the
  fold of the lengths to the set of writes that hold a reservation, through what adding one
  element to a set and taking one away do to its sum. `Awaited` says that nobody waits for a
  client that is gone, however many requests a client issues. The three properties whose
  comments say so hold for clients that issue one request at a time: `SessionCorrect`,
  `DiskCorrect` and `ForwardedCorrect` have the assumption `OneThreadEach`, that no two threads
  have one owner. It is true of the run `boot_gate`, and the code does not enforce it: two
  CONFIGURE requests of one client do attach two devices. `AdmittedInv` says what it gives: a
  thread past its admission belongs to the registered client, and no other does.
- `HandleGate_proofs` proves `TypeOK`, `CacheSound` and `CriticalNeedsAllow`, in layers:
  `CallsSound` types the calls and ties each one in progress to its request, `SlotsFit` bounds the
  cache, `GateInv` relates what a call keeps to the answers it was given, and `CacheInv` each
  slot, and each call about to fill one, to the grants that justify it: the property speaks
  of the grants, the code of its own stamps, which are never later.
- `ClientSession_proofs` proves every property of the run `session`. `SessionInv` says that,
  while no process has two requests under way, the session belongs to the one thread past its
  admission: an admission and the section that uses it are apart, and the properties hold
  only because no other request of that process can come between. `GuardInv`, `StartupInv`,
  `UnloadInv` and `TokenInv` add what each property needs to that.
- `TrustCache_proofs` proves every property of the signature cache. `WorkDrained` is inductive by
  itself. `TrustInv` says for the others where a trust may still come from: what a work item
  carries and what a slot holds is trusted only for an image that is signed, or for a process
  that no longer runs, and the table names no process twice, through the insertion, the eviction
  of the oldest, the removal and the renewal.
- `FileGate_proofs` proves `TypeOK`, `BootMutationsAllowed` and `MonitorSound`. `MonitorInv` ties a
  slot's flag to its count and the count to the deletes of its process. `BootInv` follows each
  request and each file object: a file object that is created or cleaned up is that request's
  alone (`Exclusive`), one opened under protection carries its context afterwards
  (`HandleOk`), and a mutation of a protected file is on its way to the client or allowed
  (`Guarded`). `FlagIsOwn`, one half of `MonitorSound`, follows from `MonitorInv`. The other,
  `BurstBounded`, counts, and is far from inductive: `SpanInv` bounds, for each instant from which
  a span of one window may run, the deletes let through in it and those counted but not rated
  together with the ones the window of the process's slot still has room for (`Phase`). Which
  bound holds depends on where that window lies: begun in the span, over before it, or reaching
  into it and running or over; and on how many threads have read the clock, and not counted yet,
  before the span or before the end of that window (`Bounded`). It needs that threads are finite
  in number (`ThreadsAssumption`) and that the threshold exceeds 1, as the source's do.
- `PolicyGates_proofs` proves every property of the run `policies`. `ThreadOk` says what each place of a callback stands for: that the matched rule was the first of a
  sequence in force since the callback began, that a scanned launch was excluded by some list or
  matched by no rule that would hold it, that the source of a rename was protected by some list,
  or was not. A place cannot speak of the list now in force, which may be another one at
  the next step; an existence among the lists so far is kept by every replacement. It rests on
  `InspectFacts` (the least built-in rule names the behavior), `FirstIsMatch`, and
  `UnmatchedUntouched` and `MatchedTouched`: matching a rule, or with ancestors being above
  one, is the same as having a key in common with what the rule protects, since of two
  prefixes of one path one is a prefix of the other. The assumptions say that rules and paths
  are sequences and that the client's first lists are among those it may send.
  `RateInv` types the rate table and the threads in it: who holds the lock is counting, in a slot
  that is its own or has been zeroed since, and what has been counted and what is still to be
  counted never exceed `MaxHits`. `NeedInv` adds to it what a slot's count, start and flag are
  worth: each slot with a key, and the slot of the thread that counts, counts no more than
  there are hits of that key in its window (`Backed`), and no more than there are under the rules
  in force, unless one of these raced with a replacement or the word is still to be zeroed.
  `CountedBacked` is its one interesting step; all others zero words or leave the table alone.
  `CatchInv` bounds, for `BurstCaught`, the unfired hits of a key in the span of one window from
  any instant by what the slot of the key says now (`Bounded`): which bound holds depends on
  whether the slot's window is over before the span, reaches into it, begins with it or begins
  in it, and `OneMoreBounded` shows that one more match keeps it. A word of a slot is zeroed only
  after a replacement, while every match is raced, so nothing has settled that the zero could
  make forgotten (`Wiped`); but a thread that counts while the key of its slot is zeroed may be
  the first to settle after the zeroing has ended, in a slot that is nobody's any more.
  `LostOk` and `Kept` say that this happens once at most, and `Bounded` allows for that one hit.
  Only rules with a threshold above 1 are counted (`HitsInv`).
- `LibraryLemmas` holds what these proofs need of the library's operators: what inserting into,
  removing from and appending to a sequence without repetitions does to what it names, that
  `RemoveFirst` takes away one occurrence, and what a fold that sums over a finite set does when
  an element is added. Each rests on the least number with a property, or on induction stated
  for sets of numbers: the library's own induction theorems take operators, which the provers
  cannot instantiate.

Only model-checked: the liveness properties, since fairness and ENABLED are beyond the prover.
Every safety property of a passing run is a theorem.

## Findings

1. `bridge_pending`. The flow `ProcessProtect.c` describes lets an accepted Pending put an
   event under the rule for user decisions, which fails closed. A Pending that is accepted
   after the wait has run out and before the entry is unlinked is not seen: the call ends in the
   infrastructure time-out, which callers let through.
2. `handle_terminate`. The gate for PROCESS_TERMINATE on the protected process lies behind an
   early return for requests without injection rights (`InjectionProtect.c:836`), so a
   request for that right alone never reaches it.
3. `file_documents`. `FilePreCreate` returns for everything that is not an executable
   (`FileProtect.c:1249`) before it calls the monitor, and the monitor counts documents only;
   no extension is in both lists, so the document dimension never counts.

Read while modelling, and stated by no run of its own:

- `ProcessProtect.c:204-208` and `BehaviorRules.c:24-26` say that the rule for
  `-ExecutionPolicy Bypass` fails open; the list at `ProcessProtect.c:322` does not name it,
  so it fails closed. `OutageFailsAsConfigured` follows the code.
- Rule 11's example `sysprep /generalize /oobe /shutdown` contains `shutdown`, which Rule 9 takes
  first: the launch fails open, although `ProcessProtect.c` counts sysprep among the rules that
  fail closed.
- The "sliding window" of `BehaviorRules.c:70` and `:840` is a window that begins with a match and
  is restarted by the first match after its end. Matches that straddle two windows do not
  add up, so `BurstCaught` speaks of twice the threshold, less one. A rule for launches is counted
  under the id of the new process, which launches once: with a threshold above 1 it never
  fires, and takes a slot each time. Slots are given back only when the rules are replaced.
- A slot is keyed by the id of a rule and a process id (`BehaviorRules.c:878`). Nothing checks
  that ids differ within a set of rules, and a set that replaces another may use an id with
  another threshold or window: a slot that a match of the old rules has flagged, in a race with
  their replacement, then fires for the new ones below their threshold. `BurstNeeded` therefore
  counts a raced window by the threshold of any of its matches, each by its own window, and
  `BurstCaught` promises nothing to a burst of different rules of one id.
- `RegistryProtect.c:12` says "fail-closed semantics"; lines 326-337 allow the change when
  there is no answer.
- A rename that is decided for its source after the second match no longer finds it in the list
  is let through without a look at its new name (`RegistryProtect.c:418`).
- `InjectionProtect.c:175` says that only Allow is cached; a time-out is let through and cached too
  (`:515`). `CacheHitJustified` follows the code.
- `FileProtect.c:20-23` says that a time-out fails the operation; `FileVerdictBlocks` (943-946)
  blocks on Block alone.
- `RansomwareMonitorIsFlagged` clears a flag and the count with it once the window is over, and
  leaves the window's start: a thread that has read the clock before the end of the window
  may then count in it from nothing. With two threads four deletes can pass within one window of
  two instants at a threshold of 2. `BurstBounded` allows each further thread two deletes, this one
  and one that it has counted in an older window and acts on late.
- `SelfProtectInitialize` sets `StartupProtectionInitializing` and, if registering the object
  callbacks fails, returns without clearing it: every client is then refused until the
  system starts again, and with no client the driver cannot be unloaded either. `Loaded` has
  this state.
- With two threads of one client, a STARTUP_PROTECTION admitted before the other thread's
  disconnect pins the image of a process that has no session any more; and a client whose image
  was checked before the pin has a session after it. `StartupIsClients` names both cases.

## Not modelled

- Log ring: one spin lock for each write and each read, and no other state. Module registry: a
  table run through by one thread; `LaunchGate` relies on its order.
- The process manager holds no state; each of its requests is one snapshot or one system call.
- Record layouts and buffer checks of the control codes; the texts of paths, messages and logs.
- In modelled parts: the object callback, the callback of the Run value and the file guard of
  `SelfProtect.c`, which read its state for one decision; start, stop and draining of the
  minifilter; hard links, which are checked as renames are; how `RegistryProtect.c` builds a
  key's path, and the kill a block may ask for there (the same routine is in HandleGate).
- Waits are not timed: a time-out may happen at any moment of a wait.

## Plan

Done, in this order: EventBridge with EventReview and its proofs; BootRanges, BootWriteGate;
ClientSession; HandleGate; TrustCache; RansomwareMonitor and FileGate; the startup protection in
ClientSession; BehaviorRules, LaunchGate, RegistryGate and PolicyGates.

Next: start, stop and draining of the minifilter, beside the callbacks of FileGate; the object
callback of `SelfProtect.c`, composed with HandleGate, which meets the same handles.
