----------------------------- MODULE ClientSession -----------------------------
(***************************************************************************)
(* What a client session changes outside the event bridge: the shutdown    *)
(* token (TokenAuth.c), the guarded process and the startup protection     *)
(* (SelfProtect.c) and the two unload entries (Driver.c, FileProtect.c),   *)
(* as the control requests of Queue.c and the exit notification of         *)
(* ProcessProtect.c use them.  Each is behind a lock of its own and no     *)
(* request holds one across two of them, so a request is a sequence of     *)
(* steps, one per locked section or interlocked write, and requests of     *)
(* different threads interleave.  An authorized unload ends the driver     *)
(* and a new one is loaded.                                                *)
(*                                                                         *)
(* TokenAuthRotate rewrites the token context without its lock: each of    *)
(* its assignments is a step.                                              *)
(***************************************************************************)
EXTENDS Naturals, FiniteSets

CONSTANTS
  Pids,           \* process ids of client images, told from others by their file name
  Images, ImageOf, \* full paths of such images; the one of each process
  Threads, Owner, \* client threads, each issuing one control request at a time
  MaxTokens,      \* bound: how many random tokens are drawn
  MaxRequests,    \* bound: how many requests are under way at once
  NoPid, NoToken, NoImage  \* a NULL process id; a wiped token or image path

Tokens == 1..MaxTokens
ASSUME ClientAssumption ==
  /\ Owner \in [Threads -> Pids] /\ NoPid \notin Pids
  /\ ImageOf \in [Pids -> Images] /\ NoImage \notin Images
  /\ MaxRequests \in Nat
ASSUME TokenAssumption == MaxTokens \in Nat \ {0} /\ NoToken \notin Tokens

VARIABLES
  client,     \* the registered process, or NoPid: ClientConnected, ClientProcessId
  token,      \* State, Plaintext and Digest of the token context
  drawn,      \* how many tokens have been drawn
  guard,      \* Active, ExitPermitted, GuardedProcessId
  startup,    \* StartupProtectionEnabled, ...Initializing, StartupImagePath
  unloadOpen, \* DriverObject->DriverUnload is restored
  filePermit, \* UnloadPermitted of the file guard
  at,         \* where each thread's request is
  local,      \* the token its request carries
  given,      \* the token of the last response each process got
  alive,      \* processes that have not exited
  authorized, \* history: a shutdown was authorized, or that was withdrawn by a registration
  refused,    \* history: a registration has failed for want of a token
  overlapped, \* history: a process has had two requests under way at once
  checked,    \* history: threads whose image was checked under the present startup protection
  inStep      \* history: the session's image was so checked, or its client set the protection

tokenVars == <<token, drawn>>
unloadVars == <<unloadOpen, filePermit, authorized>>
startupVars == <<startup, checked, inStep>>
vars == <<client, tokenVars, guard, startupVars, unloadVars, at, local, given, alive, refused,
          overlapped>>

EmptyToken == [state |-> "empty", plain |-> NoToken, digest |-> NoToken]
NoGuard == [active |-> FALSE, permitted |-> FALSE, pid |-> NoPid]
Unpinned == [enabled |-> FALSE, initializing |-> FALSE, image |-> NoImage]
Pinned(i) == [Unpinned EXCEPT !.enabled = TRUE, !.image = i]

\* The modules of a driver that is loaded: the first token is armed unless the generator or
\* the digest failed; startup protection follows the image path of the Run value, is off
\* without one or without the registry callback, and stays in its initialization when the
\* object callbacks could not be registered.
FirstToken(n) == {EmptyToken, [state |-> "armed", plain |-> n, digest |-> n]}
Loaded == {Unpinned, [Unpinned EXCEPT !.initializing = TRUE]} \cup {Pinned(i) : i \in Images}

\* DriverEntry has started the modules and locked the unload entry.
Init ==
  /\ client = NoPid
  /\ token \in FirstToken(1) /\ drawn = 1
  /\ guard = NoGuard
  /\ startup \in Loaded /\ checked = {} /\ inStep = TRUE
  /\ unloadOpen = FALSE /\ filePermit = FALSE
  /\ at = [t \in Threads |-> "idle"] /\ local = [t \in Threads |-> NoToken]
  /\ given = [p \in Pids |-> NoToken]
  /\ alive = Pids
  /\ authorized = "no" /\ refused = FALSE /\ overlapped = FALSE

Busy == {t \in Threads : at[t] # "idle"}
Serving(p) == \E t \in Busy : Owner[t] = p

\* A request of thread t moves on, or begins; its process has not exited.  Bound: with a
\* second one of the process, and from then on, only while two tokens can still be drawn.
Moves(t, from, to) == at[t] = from /\ at' = [at EXCEPT ![t] = to]
Goes(t, from, to) == Moves(t, from, to) /\ UNCHANGED overlapped
Issued(t, to) ==
  /\ Moves(t, "idle", to) /\ Owner[t] \in alive
  /\ overlapped' = (overlapped \/ Serving(Owner[t]))
  /\ Cardinality(Busy) < MaxRequests /\ (overlapped' => drawn + 1 < MaxTokens)

\* IsRegisteredClientProcess and SelfProtectIsProcessProtected.
Registered(p) == client = p
Protected(p) == guard.active /\ ~guard.permitted /\ guard.pid = p

----------------------------------------------------------------------------
(* REGISTER_CLIENT *)

\* SelfProtectIsClientImageAllowed, long before the session is taken.
AllowedMutOnlyNamed(i) == startup.image # NoImage \/ ~startup.initializing
Allowed(i) == startup = Unpinned \/ startup.image = i
CheckImage(t) ==
  /\ Allowed(ImageOf[Owner[t]]) /\ Issued(t, "registering")
  /\ checked' = checked \cup {t}
  /\ UNCHANGED <<client, tokenVars, guard, startup, inStep, unloadVars, local, given, alive,
                 refused>>
Register(t) ==
  /\ client \in {NoPid, Owner[t]}
  /\ Goes(t, "registering", "copying")
  /\ client' = Owner[t] /\ inStep' = (t \in checked) /\ checked' = checked \ {t}
  /\ UNCHANGED <<tokenVars, guard, startup, unloadVars, local, given, alive, refused>>
Denied(t) ==
  /\ client \notin {NoPid, Owner[t]}
  /\ Goes(t, "registering", "idle") /\ checked' = checked \ {t}
  /\ UNCHANGED <<client, tokenVars, guard, startup, inStep, unloadVars, local, given, alive,
                 refused>>

\* TokenAuthCopyOneTimeToken hands out an armed token and wipes the plaintext.
HandedOutMutNotWiped == [token EXCEPT !.state = "issued"]
HandedOut == [token EXCEPT !.state = "issued", !.plain = NoToken]
CopyToken(t) ==
  /\ token.state = "armed"
  /\ local' = [local EXCEPT ![t] = token.plain]
  /\ token' = HandedOut
  /\ UNCHANGED <<client, drawn, guard, unloadVars, given, startupVars, alive, refused>>
CopyFirst(t) == Goes(t, "copying", "revoking") /\ CopyToken(t)
CopyAgain(t) == Goes(t, "recopying", "revoking") /\ CopyToken(t)
NothingToCopy(t) ==
  /\ token.state # "armed"
  /\ Goes(t, "copying", "invalidating") \/ Goes(t, "recopying", "refusing")
  /\ UNCHANGED <<client, tokenVars, guard, unloadVars, local, given, startupVars, alive, refused>>

\* TokenAuthRotate: TokenAuthInvalidate under the lock, TokenAuthInitialize without it.
Wipe == token' = EmptyToken /\ UNCHANGED drawn
Invalidate == Wipe
RotateInvalidates(t) ==
  /\ Goes(t, "invalidating", "zeroing") /\ Invalidate
  /\ UNCHANGED <<client, guard, unloadVars, local, given, startupVars, alive, refused>>
RotateZeroes(t) ==
  /\ Goes(t, "zeroing", "drawing") /\ Wipe
  /\ UNCHANGED <<client, guard, unloadVars, local, given, startupVars, alive, refused>>
RotateDraws(t) ==
  /\ drawn < MaxTokens
  /\ Goes(t, "drawing", "digesting")
  /\ token' = [token EXCEPT !.plain = drawn + 1] /\ drawn' = drawn + 1
  /\ UNCHANGED <<client, guard, unloadVars, local, given, startupVars, alive, refused>>
RotateDigests(t) ==
  /\ Goes(t, "digesting", "arming")
  /\ token' = [token EXCEPT !.digest = token.plain]
  /\ UNCHANGED <<client, drawn, guard, unloadVars, local, given, startupVars, alive, refused>>
RotateArms(t) ==
  /\ Goes(t, "arming", "recopying")
  /\ token' = [token EXCEPT !.state = "armed"]
  /\ UNCHANGED <<client, drawn, guard, unloadVars, local, given, startupVars, alive, refused>>

\* The random generator or the digest fails; a failed digest wipes both buffers.
RotateFails(t) ==
  /\ \/ Goes(t, "drawing", "refusing") /\ UNCHANGED token
     \/ Goes(t, "digesting", "refusing")
        /\ token' = [token EXCEPT !.plain = NoToken, !.digest = NoToken]
  /\ UNCHANGED <<client, drawn, guard, unloadVars, local, given, startupVars, alive, refused>>

\* Without a token the registration ends in DisconnectClient.
Refuse(t) ==
  /\ Goes(t, "refusing", "idle")
  /\ client' = NoPid /\ refused' = TRUE
  /\ UNCHANGED <<tokenVars, guard, unloadVars, local, given, startupVars, alive>>

\* A registration that succeeds takes back any authorization to unload.
RevokeUnload(t) ==
  /\ Goes(t, "revoking", "responding")
  /\ unloadOpen' = FALSE
  /\ UNCHANGED <<client, tokenVars, guard, filePermit, authorized, local, given, startupVars,
                 alive, refused>>
RespondsMutKeepsFilePermit == UNCHANGED filePermit
Responds == filePermit' = FALSE
Respond(t) ==
  /\ Goes(t, "responding", "idle")
  /\ Responds /\ authorized' = IF authorized = "yes" THEN "withdrawn" ELSE authorized
  /\ given' = [given EXCEPT ![Owner[t]] = local[t]]
  /\ local' = [local EXCEPT ![t] = NoToken]
  /\ UNCHANGED <<client, tokenVars, guard, unloadOpen, startupVars, alive, refused>>

----------------------------------------------------------------------------
(* REGISTER_PROTECTED_PROCESS, SET_VOLUNTARY_EXIT *)

StartProtect(t) ==
  /\ Registered(Owner[t]) /\ Issued(t, "protecting")
  /\ UNCHANGED <<client, tokenVars, guard, unloadVars, local, given, startupVars, alive, refused>>
\* The image directory is resolved first, and may fail to be.
Protect(t) ==
  /\ Goes(t, "protecting", "idle")
  /\ \/ guard' = [active |-> TRUE, permitted |-> FALSE, pid |-> Owner[t]]
     \/ UNCHANGED guard
  /\ UNCHANGED <<client, tokenVars, unloadVars, local, given, startupVars, alive, refused>>

StartExit(t, voluntary) ==
  /\ Registered(Owner[t])
  /\ Issued(t, IF voluntary THEN "permitting" ELSE "forbidding")
  /\ UNCHANGED <<client, tokenVars, guard, unloadVars, local, given, startupVars, alive, refused>>
OwnsGuard(p) == guard.active /\ guard.pid = p
PermitExit(t, voluntary) ==
  /\ Goes(t, IF voluntary THEN "permitting" ELSE "forbidding", "idle")
  /\ guard' = IF OwnsGuard(Owner[t]) THEN [guard EXCEPT !.permitted = voluntary] ELSE guard
  /\ UNCHANGED <<client, tokenVars, unloadVars, local, given, startupVars, alive, refused>>

----------------------------------------------------------------------------
(* DISCONNECT_CLIENT, AUTHORIZED_SHUTDOWN, process exit *)

StartDisconnect(t) ==
  /\ Registered(Owner[t]) /\ Issued(t, "checking")
  /\ UNCHANGED <<client, tokenVars, guard, unloadVars, local, given, startupVars, alive, refused>>
ClearsGuardMutNever(p) == FALSE
ClearsGuard(p) == Protected(p)
CheckProtected(t) ==
  /\ Goes(t, "checking", IF ClearsGuard(Owner[t]) THEN "unguarding" ELSE "leaving")
  /\ UNCHANGED <<client, tokenVars, guard, unloadVars, local, given, startupVars, alive, refused>>
ClearedMutOnlyActive == [guard EXCEPT !.active = FALSE]
Cleared == NoGuard
ClearGuard(t) ==
  /\ Goes(t, "unguarding", "leaving") \/ Goes(t, "releasing", "invalidated")
  /\ guard' = Cleared
  /\ UNCHANGED <<client, tokenVars, unloadVars, local, given, startupVars, alive, refused>>
Disconnect(t) ==
  /\ Goes(t, "leaving", "idle")
  /\ client' = NoPid
  /\ UNCHANGED <<tokenVars, guard, unloadVars, local, given, startupVars, alive, refused>>

\* The buffer of a request that ends is gone.
Dropped(t) == [local EXCEPT ![t] = NoToken]

\* RequireProtectedClient is two checks; the request carries the last token received.
StartShutdown(t) ==
  /\ Registered(Owner[t]) /\ Issued(t, "guarded")
  /\ local' = [local EXCEPT ![t] = given[Owner[t]]]
  /\ UNCHANGED <<client, tokenVars, guard, unloadVars, given, startupVars, alive, refused>>
RequireProtected(t) ==
  /\ Goes(t, "guarded", IF Protected(Owner[t]) THEN "validating" ELSE "idle")
  /\ local' = IF Protected(Owner[t]) THEN local ELSE Dropped(t)
  /\ UNCHANGED <<client, tokenVars, guard, unloadVars, given, startupVars, alive, refused>>

\* A wiped buffer is no token: its length is wrong.
Valid(s) == s # NoToken /\ token.state # "empty" /\ s = token.digest
Validate(t) ==
  /\ Goes(t, "validating", IF Valid(local[t]) THEN "opening" ELSE "idle")
  /\ authorized' = IF Valid(local[t]) THEN "yes" ELSE authorized
  /\ local' = Dropped(t)
  /\ UNCHANGED <<client, tokenVars, guard, unloadOpen, filePermit, given, startupVars, alive,
                 refused>>
AuthorizeUnload(t) ==
  /\ Goes(t, "opening", "permitting file")
  /\ unloadOpen' = TRUE
  /\ UNCHANGED <<client, tokenVars, guard, filePermit, authorized, local, given, startupVars,
                 alive, refused>>
AuthorizeFileUnload(t) ==
  /\ Goes(t, "permitting file", "releasing")
  /\ filePermit' = TRUE
  /\ UNCHANGED <<client, tokenVars, guard, unloadOpen, authorized, local, given, startupVars,
                 alive, refused>>
InvalidateToken(t) ==
  /\ Goes(t, "invalidated", "leaving") /\ Invalidate
  /\ UNCHANGED <<client, guard, unloadVars, local, given, startupVars, alive, refused>>

\* The exit notification, in the last thread of the process.
ProcessExit(t) ==
  /\ Owner[t] \in alive
  /\ \A u \in Threads : Owner[u] = Owner[t] => at[u] = "idle"
  /\ alive' = alive \ {Owner[t]} /\ given' = [given EXCEPT ![Owner[t]] = NoToken]
  /\ at' = [at EXCEPT ![t] = IF Registered(Owner[t]) THEN "unguarding" ELSE @]
  /\ UNCHANGED overlapped
  /\ UNCHANGED <<client, tokenVars, guard, unloadVars, local, startupVars, refused>>

\* The system gives the id of an exited process to a new client process.
Restart(p) ==
  /\ p \notin alive
  /\ \A t \in Threads : Owner[t] = p => at[t] = "idle"
  /\ alive' = alive \cup {p}
  /\ UNCHANGED <<client, tokenVars, guard, startupVars, unloadVars, at, local, given, refused,
                 overlapped>>

----------------------------------------------------------------------------
(* SET_STARTUP_PROTECTION, unload and load *)

Setting(enable) == IF enable THEN "pinning" ELSE "unpinning"
Requires(enable) == IF enable THEN "pin required" ELSE "unpin required"
Guards(enable) == IF enable THEN "pin guarded" ELSE "unpin guarded"

StartStartup(t, enable) ==
  /\ Registered(Owner[t]) /\ Issued(t, Requires(enable))
  /\ UNCHANGED <<client, tokenVars, guard, startupVars, unloadVars, local, given, alive, refused>>

\* The guard is looked at by RequireProtectedClient and again by SetStartupProtection.
RequireGuard(t, enable) ==
  /\ Goes(t, Requires(enable), IF Protected(Owner[t]) THEN Guards(enable) ELSE "idle")
  /\ UNCHANGED <<client, tokenVars, guard, startupVars, unloadVars, local, given, alive, refused>>
CheckGuard(t, enable) ==
  /\ Goes(t, Guards(enable), IF Protected(Owner[t]) THEN Setting(enable) ELSE "idle")
  /\ UNCHANGED <<client, tokenVars, guard, startupVars, unloadVars, local, given, alive, refused>>

\* To enable it, the path of the client's image is resolved first, and may fail to be.
SetTo(t, enable) == IF enable THEN Pinned(ImageOf[Owner[t]]) ELSE Unpinned
SetStartup(t, enable) ==
  /\ Goes(t, Setting(enable), "idle")
  /\ startup' = SetTo(t, enable)
  /\ inStep' = Registered(Owner[t]) /\ checked' = {}
  /\ UNCHANGED <<client, tokenVars, guard, unloadVars, local, given, alive, refused>>
ResolveFails(t) ==
  /\ Goes(t, Setting(TRUE), "idle")
  /\ UNCHANGED <<client, tokenVars, guard, startupVars, unloadVars, local, given, alive, refused>>

\* The service is stopped, once its unload entry is open and no request is under way, and
\* started again.
Reload ==
  /\ unloadOpen /\ Busy = {} /\ drawn < MaxTokens
  /\ client' = NoPid /\ guard' = NoGuard
  /\ token' \in FirstToken(drawn + 1) /\ drawn' = drawn + 1
  /\ startup' \in Loaded /\ checked' = {} /\ inStep' = TRUE
  /\ unloadOpen' = FALSE /\ filePermit' = FALSE /\ authorized' = "no"
  /\ refused' = FALSE /\ overlapped' = FALSE
  /\ UNCHANGED <<at, local, given, alive>>

----------------------------------------------------------------------------
ThreadStep(t) ==
  \/ CheckImage(t) \/ Register(t) \/ Denied(t)
  \/ \/ CopyFirst(t) \/ CopyAgain(t) \/ NothingToCopy(t)
  \/ RotateInvalidates(t) \/ RotateZeroes(t) \/ RotateDraws(t) \/ RotateDigests(t)
  \/ RotateArms(t) \/ RotateFails(t) \/ Refuse(t) \/ RevokeUnload(t) \/ Respond(t)
  \/ StartProtect(t) \/ Protect(t)
  \/ \E voluntary \in BOOLEAN : StartExit(t, voluntary) \/ PermitExit(t, voluntary)
  \/ \E enable \in BOOLEAN :
        \/ StartStartup(t, enable) \/ RequireGuard(t, enable) \/ CheckGuard(t, enable)
        \/ SetStartup(t, enable)
  \/ ResolveFails(t)
  \/ StartDisconnect(t) \/ CheckProtected(t) \/ ClearGuard(t) \/ Disconnect(t)
  \/ StartShutdown(t) \/ RequireProtected(t) \/ Validate(t) \/ AuthorizeUnload(t)
  \/ AuthorizeFileUnload(t) \/ InvalidateToken(t)
  \/ ProcessExit(t)

Next == (\E t \in Threads : ThreadStep(t)) \/ (\E p \in Pids : Restart(p)) \/ Reload

Spec == Init /\ [][Next]_vars

----------------------------------------------------------------------------
(* Properties.  Several of them hold as long as no client issues two control  *)
(* requests at once: a request admitted for a session may then take effect    *)
(* after it, and the responses of two registrations may overtake each other.  *)

ThreadPcs ==
  {"idle", "registering", "copying", "recopying", "invalidating", "zeroing", "drawing",
   "digesting", "arming", "refusing", "revoking", "responding", "protecting", "permitting",
   "forbidding", "checking", "unguarding", "leaving", "guarded", "validating", "opening",
   "permitting file", "releasing", "invalidated", "pin required", "unpin required",
   "pin guarded", "unpin guarded", "pinning", "unpinning"}

\* Every variable has the type of the structure it stands for; a guard that is not active
\* names no process.
TypeOK ==
  /\ client \in Pids \cup {NoPid}
  /\ token \in [state : {"empty", "armed", "issued"}, plain : Tokens \cup {NoToken},
                digest : Tokens \cup {NoToken}]
  /\ drawn \in Tokens
  /\ guard \in {NoGuard} \cup [active : {TRUE}, permitted : BOOLEAN, pid : Pids]
  /\ unloadOpen \in BOOLEAN /\ filePermit \in BOOLEAN
  /\ at \in [Threads -> ThreadPcs] /\ local \in [Threads -> Tokens \cup {NoToken}]
  /\ given \in [Pids -> Tokens \cup {NoToken}] /\ alive \subseteq Pids
  /\ authorized \in {"no", "withdrawn", "yes"} /\ refused \in BOOLEAN /\ overlapped \in BOOLEAN
  /\ startup \in Loaded /\ checked \subseteq Busy /\ inStep \in BOOLEAN

Quiet == Busy = {} /\ ~overlapped

\* The driver and its file filter can be unloaded only after the registered, guarded client
\* has presented the token it was issued, and not after a later registration; the two
\* entries are open together.  (A client that registers and shuts down at once may find one
\* of them open, or both after the registration.)
UnloadNeedsAuthorization ==
  /\ unloadOpen \/ filePermit => authorized # "no" /\ (authorized = "yes" \/ overlapped)
  /\ Quiet => unloadOpen = filePermit

\* Between two requests of the registered client, the token of its last response is the one
\* the driver validates: the client can always authorize a shutdown, and no earlier token
\* of its own or of another client can.
ClientHoldsToken ==
  client # NoPid /\ ~Serving(client) /\ client \in alive /\ ~overlapped =>
    /\ token.state = "issued" /\ token.plain = NoToken
    /\ given[client] = token.digest /\ token.digest # NoToken

\* A guard that is enforced belongs to the registered client: it ends with the session,
\* also when the process exits, and is never left to a process id that has no session.  The
\* exception is a session ended by a registration that failed: it leaves the guard.
GuardIsClients ==
  guard.active /\ ~guard.permitted /\ ~refused /\ ~overlapped =>
    /\ client = guard.pid \/ Serving(guard.pid)
    /\ Busy = {} => guard.pid \in alive

\* A request admitted for a session, or an exit notification, that is about to clear the guard
\* or the session finds the session of its own process: the admission and the clearing are
\* separate sections of the lock.
ClearsOwnSession ==
  \A t \in Threads :
    at[t] \in {"unguarding", "releasing", "invalidated", "leaving", "refusing"} /\ ~overlapped
      => client = Owner[t]

\* Guard and session end together, and each client ends its own.
GuardSound == GuardIsClients /\ ClearsOwnSession

\* Startup protection is set for a session and binds the next ones.  The process that sets it
\* is still registered and guarded, although its guard was looked at before its path was
\* resolved; and under the protection only the pinned image has a session, unless its image
\* was checked before the protection was set or the session in which it was set had ended.
StartupIsClients ==
  /\ \A t \in Threads : at[t] \in {"pinning", "unpinning"} /\ ~overlapped =>
       Registered(Owner[t]) /\ Protected(Owner[t])
  /\ client # NoPid /\ inStep => startup \in {Unpinned, Pinned(ImageOf[client])}
=============================================================================
