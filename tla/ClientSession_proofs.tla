------------------------ MODULE ClientSession_proofs --------------------------
(***************************************************************************)
(* Proofs about ClientSession for every set of processes, images and       *)
(* threads, and every number of tokens and of requests under way.          *)
(*                                                                         *)
(* As long as no process has two requests under way, the session belongs   *)
(* to the one thread whose request is past its admission (SessionInv), so  *)
(* what a request has found stays true to its end.  The guard, the token   *)
(* and the unload entries then follow the place of that one thread.        *)
(***************************************************************************)
EXTENDS ClientSession, TLAPS

\* Places outside a session, and those of a request that ends one or of an exit notification.
Outside == {"idle", "registering"}
Leaving == {"unguarding", "leaving"}

SessionTyped ==
  /\ client \in Pids \cup {NoPid} /\ alive \subseteq Pids
  /\ at \in [Threads -> ThreadPcs]
OneEach ==
  \A t, u \in Threads :
    at[t] # "idle" /\ at[u] # "idle" /\ Owner[t] = Owner[u] => t = u
InSession == \A t \in Threads : at[t] \notin Outside => client = Owner[t]
Living == \A t \in Threads : at[t] \notin {"idle"} \cup Leaving => Owner[t] \in alive
Gone ==
  client \in Pids \ alive => \E t \in Threads : Owner[t] = client /\ at[t] \in Leaving
SessionInv ==
  SessionTyped /\ (~overlapped => OneEach /\ InSession /\ Living /\ Gone)

----------------------------------------------------------------------------
(* What a step does to the session *)

Begins(t) ==
  \E to \in ThreadPcs \ ({"idle"} \cup Leaving) :
    Issued(t, to) /\ (to = "registering" \/ client = Owner[t]) /\ UNCHANGED <<client, alive>>
GoesOn(t) ==
  /\ UNCHANGED <<client, alive, overlapped>>
  /\ \E from \in ThreadPcs \ (Outside \cup {"leaving"}), to \in ThreadPcs \ {"registering"} :
       Moves(t, from, to) /\ (from = "unguarding" => to = "leaving")
Ends(t) ==
  /\ client' = NoPid /\ UNCHANGED <<alive, overlapped>>
  /\ \E from \in ThreadPcs \ Outside : Moves(t, from, "idle")

LEMMA Continues ==
  ASSUME NEW t \in Threads, NEW from \in ThreadPcs \ (Outside \cup Leaving),
         NEW to \in ThreadPcs \ {"registering"}, Goes(t, from, to), UNCHANGED <<client, alive>>
  PROVE  GoesOn(t)
<1>1. from \in ThreadPcs \ (Outside \cup {"leaving"}) /\ from # "unguarding"
  BY DEF Leaving
<1> QED BY <1>1 DEF Goes, GoesOn

LEMMA Admits ==
  ASSUME NEW t \in Threads, NEW to \in ThreadPcs \ ({"idle"} \cup Leaving), Issued(t, to),
         client = Owner[t], UNCHANGED <<client, alive>>
  PROVE  Begins(t)
  BY DEF Begins

LEMMA MoveKinds ==
  ASSUME NEW t \in Threads, ThreadStep(t)
  PROVE  Begins(t) \/ GoesOn(t) \/ Register(t) \/ Denied(t) \/ Ends(t) \/ ProcessExit(t)
<1> USE DEF Leaving, Outside
<1>1. CASE CheckImage(t)
  BY <1>1 DEF CheckImage, Begins, ThreadPcs
<1>2. ASSUME StartProtect(t) \/ StartDisconnect(t) \/ StartShutdown(t) PROVE Begins(t)
  <2>1. {"protecting", "checking", "guarded"} \subseteq ThreadPcs \ ({"idle"} \cup Leaving)
    BY DEF ThreadPcs
  <2> QED BY <1>2, <2>1, Admits DEF StartProtect, StartDisconnect, StartShutdown, Registered
<1>3. ASSUME NEW b \in BOOLEAN, StartExit(t, b) \/ StartStartup(t, b) PROVE Begins(t)
  <2>1. {"permitting", "forbidding", "pin required", "unpin required"}
          \subseteq ThreadPcs \ ({"idle"} \cup Leaving)
    BY DEF ThreadPcs
  <2> QED BY <1>3, <2>1, Admits DEF StartExit, StartStartup, Requires, Registered
<1> DEFINE Step(from, to) == Goes(t, from, to) /\ UNCHANGED <<client, alive>>
<1>4. ASSUME CopyFirst(t) \/ CopyAgain(t) \/ NothingToCopy(t) PROVE GoesOn(t)
  <2>1. \/ Step("copying", "revoking") \/ Step("recopying", "revoking")
        \/ Step("copying", "invalidating") \/ Step("recopying", "refusing")
    BY <1>4 DEF CopyFirst, CopyAgain, CopyToken, NothingToCopy
  <2> QED BY <2>1, Continues DEF ThreadPcs
<1>5. ASSUME \/ RotateInvalidates(t) \/ RotateZeroes(t) \/ RotateDraws(t) \/ RotateDigests(t)
             \/ RotateArms(t) \/ RotateFails(t)
      PROVE  GoesOn(t)
  <2>1. \/ Step("invalidating", "zeroing") \/ Step("zeroing", "drawing")
        \/ Step("drawing", "digesting") \/ Step("digesting", "arming")
        \/ Step("arming", "recopying") \/ Step("drawing", "refusing")
        \/ Step("digesting", "refusing")
    BY <1>5 DEF RotateInvalidates, RotateZeroes, RotateDraws, RotateDigests, RotateArms,
                RotateFails
  <2> QED BY <2>1, Continues DEF ThreadPcs
<1>6. ASSUME \/ RevokeUnload(t) \/ Respond(t) \/ Protect(t) \/ CheckProtected(t) \/ ClearGuard(t)
             \/ InvalidateToken(t)
      PROVE  GoesOn(t)
  <2>1. \/ Step("revoking", "responding") \/ Step("responding", "idle")
        \/ Step("protecting", "idle") \/ Step("checking", "unguarding")
        \/ Step("checking", "leaving") \/ Step("unguarding", "leaving")
        \/ Step("releasing", "invalidated") \/ Step("invalidated", "leaving")
    BY <1>6 DEF RevokeUnload, Respond, Protect, CheckProtected, ClearGuard, InvalidateToken
  <2>2. CASE Step("unguarding", "leaving")
    BY <2>2 DEF Goes, GoesOn, ThreadPcs
  <2> QED BY <2>1, <2>2, Continues DEF ThreadPcs
<1>7. ASSUME NEW b \in BOOLEAN,
             PermitExit(t, b) \/ RequireGuard(t, b) \/ CheckGuard(t, b) \/ SetStartup(t, b)
      PROVE  GoesOn(t)
  <2>1. \E from \in {"permitting", "forbidding", "pin required", "unpin required",
                     "pin guarded", "unpin guarded", "pinning", "unpinning"},
           to \in {"idle", "pin guarded", "unpin guarded", "pinning", "unpinning"} :
          Step(from, to)
    BY <1>7 DEF PermitExit, RequireGuard, CheckGuard, SetStartup, Requires, Guards, Setting
  <2> QED BY <2>1, Continues DEF ThreadPcs
<1>8. ASSUME ResolveFails(t) \/ RequireProtected(t) \/ Validate(t) PROVE GoesOn(t)
  <2>1. \/ Step("pinning", "idle") \/ Step("guarded", "validating") \/ Step("guarded", "idle")
        \/ Step("validating", "opening") \/ Step("validating", "idle")
    BY <1>8 DEF ResolveFails, Setting, RequireProtected, Validate
  <2> QED BY <2>1, Continues DEF ThreadPcs
<1>9. ASSUME AuthorizeUnload(t) \/ AuthorizeFileUnload(t) PROVE GoesOn(t)
  <2>1. Step("opening", "permitting file") \/ Step("permitting file", "releasing")
    BY <1>9 DEF AuthorizeUnload, AuthorizeFileUnload, unloadVars
  <2> QED BY <2>1, Continues DEF ThreadPcs
<1>10. ASSUME Refuse(t) \/ Disconnect(t) PROVE Ends(t)
  BY <1>10 DEF Refuse, Disconnect, Goes, Ends, ThreadPcs
<1> QED BY <1>1, <1>2, <1>3, <1>4, <1>5, <1>6, <1>7, <1>8, <1>9, <1>10 DEF ThreadStep

\* While no process has two requests under way, one thread is past its admission.
LEMMA Alone ==
  ASSUME SessionInv, ~overlapped, NEW t \in Threads, at[t] \notin Outside,
         NEW u \in Threads \ {t}
  PROVE  at[u] \in Outside
  BY DEF SessionInv, OneEach, InSession, Outside

LEMMA SessionInit == Init => SessionInv
  BY ClientAssumption
     DEF Init, SessionInv, SessionTyped, OneEach, InSession, Living, Gone, ThreadPcs, Outside

LEMMA SessionStep == SessionInv /\ [Next]_vars => SessionInv'
<1> SUFFICES ASSUME SessionInv, [Next]_vars PROVE SessionInv'
  OBVIOUS
<1> USE ClientAssumption DEF SessionInv, SessionTyped
<1>1. ASSUME NEW t \in Threads, Begins(t) PROVE SessionInv'
  <2>1. PICK to \in ThreadPcs \ ({"idle"} \cup Leaving) :
          /\ Issued(t, to) /\ (to = "registering" \/ client = Owner[t])
          /\ UNCHANGED <<client, alive>>
    BY <1>1 DEF Begins
  <2>2. at' = [at EXCEPT ![t] = to] /\ at[t] = "idle" /\ Owner[t] \in alive
    BY <2>1 DEF Issued, Moves
  <2>3. SessionTyped'
    BY <2>1, <2>2
  <2>4. ASSUME ~overlapped' PROVE OneEach' /\ InSession' /\ Living' /\ Gone'
    <3>1. ~overlapped /\ \A u \in Threads : at[u] # "idle" => Owner[u] # Owner[t]
      BY <2>1, <2>4 DEF Issued, Serving, Busy
    <3>2. OneEach'
      BY <2>2, <3>1 DEF OneEach
    <3>3. InSession' /\ Living'
      BY <2>1, <2>2, <3>1 DEF InSession, Living, Outside, Leaving
    <3>4. Gone'
      BY <2>1, <2>2, <3>1 DEF Gone, Leaving
    <3> QED BY <3>2, <3>3, <3>4
  <2> QED BY <2>3, <2>4
<1>2. ASSUME NEW t \in Threads, GoesOn(t) PROVE SessionInv'
  <2>1. PICK from \in ThreadPcs \ (Outside \cup {"leaving"}), to \in ThreadPcs \ {"registering"} :
          Moves(t, from, to) /\ (from = "unguarding" => to = "leaving")
    BY <1>2 DEF GoesOn
  <2>2. at' = [at EXCEPT ![t] = to] /\ at[t] = from /\ UNCHANGED <<client, alive, overlapped>>
    BY <1>2, <2>1 DEF GoesOn, Moves
  <2>3. SessionTyped'
    BY <2>2
  <2>4. ASSUME ~overlapped' PROVE OneEach' /\ InSession' /\ Living' /\ Gone'
    <3>1. OneEach'
      BY <2>1, <2>2, <2>4 DEF OneEach, Outside
    <3>2. InSession' /\ Living'
      BY <2>1, <2>2, <2>4 DEF InSession, Living, Outside, Leaving
    <3>3. Gone'
      BY <2>1, <2>2, <2>4 DEF Gone, Leaving, Outside
    <3> QED BY <3>1, <3>2, <3>3
  <2> QED BY <2>3, <2>4
<1>3. ASSUME NEW t \in Threads, Register(t) PROVE SessionInv'
  <2>1. /\ at' = [at EXCEPT ![t] = "copying"] /\ at[t] = "registering"
        /\ client \in {NoPid, Owner[t]} /\ client' = Owner[t] /\ UNCHANGED <<alive, overlapped>>
    BY <1>3 DEF Register, Goes, Moves
  <2>2. SessionTyped'
    BY <2>1 DEF ThreadPcs
  <2>3. ASSUME ~overlapped' PROVE OneEach' /\ InSession' /\ Living' /\ Gone'
    <3>1. OneEach' /\ Living'
      BY <2>1, <2>3 DEF OneEach, Living, Leaving
    <3>2. InSession'
      BY <2>1, <2>3 DEF InSession, OneEach, Outside
    <3>3. Gone'
      BY <2>1, <2>3 DEF Gone, Living, Leaving
    <3> QED BY <3>1, <3>2, <3>3
  <2> QED BY <2>2, <2>3
<1>4. ASSUME NEW t \in Threads, Denied(t) PROVE SessionInv'
  <2>1. /\ at' = [at EXCEPT ![t] = "idle"] /\ at[t] = "registering"
        /\ UNCHANGED <<client, alive, overlapped>>
    BY <1>4 DEF Denied, Goes, Moves
  <2> QED BY <2>1 DEF OneEach, InSession, Living, Gone, Outside, Leaving, ThreadPcs
<1>5. ASSUME NEW t \in Threads, Ends(t) PROVE SessionInv'
  <2>1. /\ at' = [at EXCEPT ![t] = "idle"] /\ at[t] \notin Outside
        /\ client' = NoPid /\ UNCHANGED <<alive, overlapped>>
    BY <1>5 DEF Ends, Moves
  <2>2. SessionTyped'
    BY <2>1 DEF ThreadPcs
  <2>3. ASSUME ~overlapped' PROVE OneEach' /\ InSession' /\ Living' /\ Gone'
    BY <2>1, <2>3, Alone DEF OneEach, InSession, Living, Gone, Outside, Leaving
  <2> QED BY <2>2, <2>3
<1>6. ASSUME NEW t \in Threads, ProcessExit(t) PROVE SessionInv'
  <2>1. /\ \A u \in Threads : Owner[u] = Owner[t] => at[u] = "idle"
        /\ alive' = alive \ {Owner[t]} /\ UNCHANGED <<client, overlapped>>
        /\ at' = [at EXCEPT ![t] = IF client = Owner[t] THEN "unguarding" ELSE @]
    BY <1>6 DEF ProcessExit, Registered
  <2>2. SessionTyped'
    BY <2>1 DEF ThreadPcs
  <2>3. ASSUME ~overlapped' PROVE OneEach' /\ InSession' /\ Living' /\ Gone'
    <3>1. OneEach' /\ InSession'
      BY <2>1, <2>3 DEF OneEach, InSession
    <3>2. Living'
      BY <2>1, <2>3 DEF Living, Leaving
    <3>3. Gone'
      BY <2>1, <2>3 DEF Gone, Leaving
    <3> QED BY <3>1, <3>2, <3>3
  <2> QED BY <2>2, <2>3
<1>7. ASSUME NEW p \in Pids, Restart(p) PROVE SessionInv'
  BY <1>7 DEF Restart, OneEach, InSession, Living, Gone
<1>8. CASE Reload
  BY <1>8 DEF Reload, Busy, OneEach, InSession, Living, Gone, Outside
<1>9. CASE UNCHANGED vars
  BY <1>9 DEF vars, OneEach, InSession, Living, Gone
<1> QED BY <1>1, <1>2, <1>3, <1>4, <1>5, <1>6, <1>7, <1>8, <1>9, MoveKinds DEF Next

----------------------------------------------------------------------------
(* Types *)

TokenTyped ==
  /\ token \in [state : {"empty", "armed", "issued"}, plain : Tokens \cup {NoToken},
                digest : Tokens \cup {NoToken}]
  /\ drawn \in Tokens
  /\ local \in [Threads -> Tokens \cup {NoToken}] /\ given \in [Pids -> Tokens \cup {NoToken}]
GuardTyped == guard \in {NoGuard} \cup [active : {TRUE}, permitted : BOOLEAN, pid : Pids]
FlagsTyped ==
  /\ unloadOpen \in BOOLEAN /\ filePermit \in BOOLEAN /\ refused \in BOOLEAN
  /\ overlapped \in BOOLEAN /\ inStep \in BOOLEAN /\ authorized \in {"no", "withdrawn", "yes"}
StartupTyped == startup \in Loaded /\ \A t \in checked : t \in Threads /\ at[t] = "registering"
TypeInv == SessionTyped /\ TokenTyped /\ GuardTyped /\ FlagsTyped /\ StartupTyped

LEMMA TypeInit == Init => TypeInv
<1> SUFFICES ASSUME Init PROVE TypeInv
  OBVIOUS
<1>1. SessionTyped
  BY SessionInit DEF SessionInv
<1>2. 1 \in Tokens
  BY TokenAssumption DEF Tokens
<1>3. TokenTyped
  BY <1>2 DEF Init, TokenTyped, FirstToken, EmptyToken
<1> QED BY <1>1, <1>3 DEF Init, TypeInv, GuardTyped, FlagsTyped, StartupTyped

LEMMA TokenStep ==
  ASSUME TokenTyped, NEW t \in Threads, ThreadStep(t)
  PROVE  TokenTyped'
<1> USE ClientAssumption DEF TokenTyped
<1>1. CASE UNCHANGED <<token, drawn, local, given>>
  BY <1>1
<1>2. CASE CopyFirst(t) \/ CopyAgain(t)
  BY <1>2 DEF CopyFirst, CopyAgain, CopyToken, HandedOut
<1>3. CASE RotateInvalidates(t) \/ RotateZeroes(t) \/ InvalidateToken(t)
  BY <1>3 DEF RotateInvalidates, RotateZeroes, InvalidateToken, Invalidate, Wipe, EmptyToken
<1>4. CASE RotateDraws(t)
  <2>1. drawn + 1 \in Tokens
    BY <1>4, TokenAssumption DEF RotateDraws, Tokens
  <2> QED BY <1>4, <2>1 DEF RotateDraws
<1>5. CASE RotateDigests(t) \/ RotateArms(t) \/ RotateFails(t)
  BY <1>5 DEF RotateDigests, RotateArms, RotateFails
<1>6. CASE Respond(t) \/ StartShutdown(t)
  BY <1>6 DEF Respond, StartShutdown, tokenVars
<1>7. CASE RequireProtected(t) \/ Validate(t)
  BY <1>7 DEF RequireProtected, Validate, Dropped, tokenVars
<1>8. CASE ProcessExit(t)
  BY <1>8 DEF ProcessExit, tokenVars
<1>9. \/ UNCHANGED <<token, drawn, local, given>>
      \/ CopyFirst(t) \/ CopyAgain(t)
      \/ RotateInvalidates(t) \/ RotateZeroes(t) \/ InvalidateToken(t)
      \/ RotateDraws(t) \/ RotateDigests(t) \/ RotateArms(t) \/ RotateFails(t)
      \/ Respond(t) \/ StartShutdown(t) \/ RequireProtected(t) \/ Validate(t) \/ ProcessExit(t)
  BY DEF ThreadStep, CheckImage, Register, Denied, NothingToCopy, Refuse, RevokeUnload,
         StartProtect, Protect, StartExit, PermitExit, StartStartup, RequireGuard, CheckGuard,
         SetStartup, ResolveFails, StartDisconnect, CheckProtected, ClearGuard, Disconnect,
         AuthorizeUnload, AuthorizeFileUnload, tokenVars
<1> QED BY <1>1, <1>2, <1>3, <1>4, <1>5, <1>6, <1>7, <1>8, <1>9

\* The steps that change the guard.
LEMMA GuardChanges ==
  ASSUME NEW t \in Threads, ThreadStep(t)
  PROVE  \/ UNCHANGED guard \/ Protect(t) \/ ClearGuard(t)
         \/ \E voluntary \in BOOLEAN : PermitExit(t, voluntary)
  BY DEF ThreadStep, CheckImage, Register, Denied, CopyFirst, CopyAgain, CopyToken, NothingToCopy,
         RotateInvalidates, RotateZeroes, RotateDraws, RotateDigests, RotateArms, RotateFails,
         Refuse, RevokeUnload, Respond, StartProtect, StartExit, StartStartup, RequireGuard,
         CheckGuard, SetStartup, ResolveFails, StartDisconnect, CheckProtected, Disconnect,
         StartShutdown, RequireProtected, Validate, AuthorizeUnload, AuthorizeFileUnload,
         InvalidateToken, ProcessExit

LEMMA ActiveGuard ==
  ASSUME GuardTyped, guard.active
  PROVE  guard \in [active : {TRUE}, permitted : BOOLEAN, pid : Pids] /\ guard.pid \in Pids
<1>1. guard # NoGuard
  <2>1. NoGuard.active = FALSE
    BY DEF NoGuard
  <2> QED BY <2>1
<1> QED BY <1>1 DEF GuardTyped

LEMMA GuardStep ==
  ASSUME GuardTyped, NEW t \in Threads, ThreadStep(t)
  PROVE  GuardTyped'
<1>1. CASE UNCHANGED guard
  BY <1>1 DEF GuardTyped
<1>2. CASE Protect(t)
  <2>1. Owner[t] \in Pids
    BY ClientAssumption
  <2>2. [active |-> TRUE, permitted |-> FALSE, pid |-> Owner[t]]
          \in [active : {TRUE}, permitted : BOOLEAN, pid : Pids]
    BY <2>1
  <2> QED BY <1>2, <2>2 DEF Protect, GuardTyped
<1>3. CASE ClearGuard(t)
  BY <1>3 DEF ClearGuard, Cleared, GuardTyped
<1>4. ASSUME NEW v \in BOOLEAN, PermitExit(t, v) PROVE GuardTyped'
  <2>1. CASE OwnsGuard(Owner[t])
    <3>1. guard \in [active : {TRUE}, permitted : BOOLEAN, pid : Pids]
      BY <2>1, ActiveGuard DEF OwnsGuard
    <3>2. [guard EXCEPT !.permitted = v] \in [active : {TRUE}, permitted : BOOLEAN, pid : Pids]
      BY <3>1
    <3> QED BY <1>4, <2>1, <3>2 DEF PermitExit, GuardTyped
  <2>2. CASE ~OwnsGuard(Owner[t])
    BY <1>4, <2>2 DEF PermitExit, GuardTyped
  <2> QED BY <2>1, <2>2
<1> QED BY <1>1, <1>2, <1>3, <1>4, GuardChanges

\* The steps that change the unload entries, and those that change the startup protection.
LEMMA UnloadChanges ==
  ASSUME NEW t \in Threads, ThreadStep(t)
  PROVE  \/ UNCHANGED unloadVars \/ RevokeUnload(t) \/ Respond(t) \/ Validate(t)
         \/ AuthorizeUnload(t) \/ AuthorizeFileUnload(t)
  BY DEF ThreadStep, CheckImage, Register, Denied, CopyFirst, CopyAgain, CopyToken, NothingToCopy,
         RotateInvalidates, RotateZeroes, RotateDraws, RotateDigests, RotateArms, RotateFails,
         Refuse, StartProtect, Protect, StartExit, PermitExit, StartStartup, RequireGuard,
         CheckGuard, SetStartup, ResolveFails, StartDisconnect, CheckProtected, ClearGuard,
         Disconnect, StartShutdown, RequireProtected, InvalidateToken, ProcessExit

LEMMA StartupChanges ==
  ASSUME NEW t \in Threads, ThreadStep(t)
  PROVE  \/ UNCHANGED startupVars \/ CheckImage(t) \/ Register(t) \/ Denied(t)
         \/ \E enable \in BOOLEAN : SetStartup(t, enable)
  BY DEF ThreadStep, CopyFirst, CopyAgain, CopyToken, NothingToCopy, RotateInvalidates,
         RotateZeroes, RotateDraws, RotateDigests, RotateArms, RotateFails, Refuse, RevokeUnload,
         Respond, StartProtect, Protect, StartExit, PermitExit, StartStartup, RequireGuard,
         CheckGuard, ResolveFails, StartDisconnect, CheckProtected, ClearGuard, Disconnect,
         StartShutdown, RequireProtected, Validate, AuthorizeUnload, AuthorizeFileUnload,
         InvalidateToken, ProcessExit

\* Every step of a thread says what becomes of the two flags below.
LEMMA HistoryChanges ==
  ASSUME NEW t \in Threads, ThreadStep(t)
  PROVE  /\ UNCHANGED overlapped \/ overlapped' = (overlapped \/ Serving(Owner[t]))
         /\ UNCHANGED refused \/ Refuse(t)
<1>1. UNCHANGED overlapped \/ overlapped' = (overlapped \/ Serving(Owner[t]))
  BY MoveKinds DEF Begins, GoesOn, Register, Denied, Ends, ProcessExit, Goes, Issued
<1>2. UNCHANGED refused \/ Refuse(t)
  BY DEF ThreadStep, CheckImage, Register, Denied, CopyFirst, CopyAgain, CopyToken,
         NothingToCopy, RotateInvalidates, RotateZeroes, RotateDraws, RotateDigests, RotateArms,
         RotateFails, RevokeUnload, Respond, StartProtect, Protect, StartExit, PermitExit,
         StartStartup, RequireGuard, CheckGuard, SetStartup, ResolveFails, StartDisconnect,
         CheckProtected, ClearGuard, Disconnect, StartShutdown, RequireProtected, Validate,
         AuthorizeUnload, AuthorizeFileUnload, InvalidateToken, ProcessExit
<1> QED BY <1>1, <1>2

LEMMA FlagsStep ==
  ASSUME FlagsTyped, NEW t \in Threads, ThreadStep(t)
  PROVE  FlagsTyped'
<1>1. overlapped' \in BOOLEAN /\ refused' \in BOOLEAN
  BY HistoryChanges DEF FlagsTyped, Refuse
<1>2. unloadOpen' \in BOOLEAN /\ filePermit' \in BOOLEAN
      /\ authorized' \in {"no", "withdrawn", "yes"}
  BY UnloadChanges DEF FlagsTyped, unloadVars, RevokeUnload, Respond, Responds, Validate,
     AuthorizeUnload, AuthorizeFileUnload
<1>3. inStep' \in BOOLEAN
  <2>1. CASE UNCHANGED inStep
    BY <2>1 DEF FlagsTyped
  <2>2. ASSUME NEW b \in BOOLEAN, inStep' = b PROVE inStep' \in BOOLEAN
    BY <2>2
  <2>3. (t \in checked) \in BOOLEAN /\ (client = Owner[t]) \in BOOLEAN
    OBVIOUS
  <2> QED BY <2>1, <2>2, <2>3, StartupChanges
          DEF startupVars, CheckImage, Register, Denied, SetStartup, Registered
<1> QED BY <1>1, <1>2, <1>3 DEF FlagsTyped

LEMMA PinnedLoaded == \A i \in Images : Pinned(i) \in Loaded /\ Unpinned \in Loaded
  BY DEF Loaded

\* A step of a thread leaves the requests of the others where they are.
LEMMA OthersStay ==
  ASSUME SessionTyped, NEW t \in Threads, ThreadStep(t), NEW u \in Threads \ {t}
  PROVE  at'[u] = at[u]
<1>1. \E to : at' = [at EXCEPT ![t] = to]
  BY MoveKinds DEF Begins, GoesOn, Register, Denied, Ends, ProcessExit, Goes, Issued, Moves
<1> QED BY <1>1 DEF SessionTyped

LEMMA StartupStep ==
  ASSUME SessionTyped, StartupTyped, NEW t \in Threads, ThreadStep(t)
  PROVE  StartupTyped'
<1>1. startup' \in Loaded
  <2>1. ImageOf[Owner[t]] \in Images
    BY ClientAssumption
  <2> QED BY <2>1, PinnedLoaded, StartupChanges
          DEF StartupTyped, startupVars, CheckImage, Register, Denied, SetStartup, SetTo
<1>2. ASSUME NEW u \in checked' PROVE u \in Threads /\ at'[u] = "registering"
  <2>1. CASE UNCHANGED startupVars
    <3>1. u \in Threads /\ at[u] = "registering"
      BY <1>2, <2>1 DEF StartupTyped, startupVars
    <3>2. CASE u # t
      BY <3>1, <3>2, OthersStay DEF SessionTyped
    <3>3. CASE u = t
      <4>1. CASE Register(t) \/ Denied(t)
        BY <1>2, <2>1, <3>3, <4>1 DEF Register, Denied, startupVars
      <4>2. CASE ~(Register(t) \/ Denied(t))
        BY <3>1, <3>3, <4>2, MoveKinds
           DEF Begins, GoesOn, Ends, ProcessExit, Issued, Moves, Outside
      <4> QED BY <4>1, <4>2
    <3> QED BY <3>2, <3>3
  <2>2. CASE CheckImage(t)
    BY <1>2, <2>2 DEF CheckImage, Issued, Moves, StartupTyped, SessionTyped
  <2>3. CASE Register(t) \/ Denied(t)
    BY <1>2, <2>3 DEF Register, Denied, Goes, Moves, StartupTyped, SessionTyped
  <2>4. ASSUME NEW e \in BOOLEAN, SetStartup(t, e) PROVE FALSE
    BY <1>2, <2>4 DEF SetStartup
  <2> QED BY <2>1, <2>2, <2>3, <2>4, StartupChanges
<1> QED BY <1>1, <1>2 DEF StartupTyped

LEMMA TypeStep == TypeInv /\ SessionInv /\ [Next]_vars => TypeInv'
<1> SUFFICES ASSUME TypeInv, SessionInv, [Next]_vars PROVE TypeInv'
  OBVIOUS
<1>1. SessionTyped'
  BY SessionStep DEF SessionInv
<1>2. ASSUME NEW t \in Threads, ThreadStep(t) PROVE TypeInv'
  BY <1>1, <1>2, TokenStep, GuardStep, FlagsStep, StartupStep DEF TypeInv
<1>3. ASSUME NEW p \in Pids, Restart(p) PROVE TypeInv'
  BY <1>1, <1>3 DEF Restart, tokenVars, startupVars, unloadVars, TypeInv, TokenTyped, GuardTyped,
                    FlagsTyped, StartupTyped
<1>4. CASE Reload
  <2>1. drawn + 1 \in Tokens
    BY <1>4, TokenAssumption DEF Reload, TypeInv, TokenTyped, Tokens
  <2>2. TokenTyped'
    BY <1>4, <2>1 DEF Reload, TypeInv, TokenTyped, FirstToken, EmptyToken
  <2> QED BY <1>1, <1>4, <2>2 DEF Reload, TypeInv, GuardTyped, FlagsTyped, StartupTyped
<1>5. CASE UNCHANGED vars
  BY <1>1, <1>5 DEF vars, tokenVars, startupVars, unloadVars, TypeInv, TokenTyped, GuardTyped,
                    FlagsTyped, StartupTyped
<1> QED BY <1>2, <1>3, <1>4, <1>5 DEF Next

Typed == TypeInv /\ SessionInv
LEMMA TypedInvariant == Spec => []Typed
<1>1. Init => Typed
  BY TypeInit, SessionInit DEF Typed
<1>2. Typed /\ [Next]_vars => Typed'
  BY TypeStep, SessionStep DEF Typed
<1> QED BY <1>1, <1>2, PTL DEF Spec

\* Every variable has its type, and a guard that is not active names no process.
THEOREM TypeCorrect == Spec => []TypeOK
<1>1. Typed => TypeOK
  BY DEF Typed, TypeInv, SessionTyped, TokenTyped, GuardTyped, FlagsTyped, StartupTyped, TypeOK,
         Busy
<1> QED BY <1>1, TypedInvariant, PTL

----------------------------------------------------------------------------
(* The guard *)

\* A guard that is enforced is the session's; a request about to end the session no longer
\* has one, and one about to change the startup protection still does.
Enforced == guard.active /\ ~guard.permitted
GuardInv ==
  ~overlapped =>
    /\ Enforced /\ ~refused => client = guard.pid
    /\ \A t \in Threads :
         /\ at[t] \in {"invalidated", "leaving"} /\ ~refused => ~Enforced
         /\ at[t] \in {"pinning", "unpinning"} => Protected(Owner[t])

\* The places the guard matters to, and the steps that lead to them.
Watched == {"invalidated", "leaving", "pinning", "unpinning"}
LEMMA WatchedSteps ==
  ASSUME SessionTyped, NEW t \in Threads, ThreadStep(t), at'[t] \in Watched
  PROVE  \/ CheckProtected(t) \/ ClearGuard(t) \/ InvalidateToken(t)
         \/ \E enable \in BOOLEAN : CheckGuard(t, enable)
         \/ at'[t] = at[t] /\ ProcessExit(t)
<1> USE DEF SessionTyped, Watched, Goes, Issued, Moves
<1>1. ASSUME CheckImage(t) \/ Register(t) \/ Denied(t) \/ CopyFirst(t) \/ CopyAgain(t)
      PROVE  FALSE
  BY <1>1 DEF CheckImage, Register, Denied, CopyFirst, CopyAgain
<1>2. ASSUME \/ NothingToCopy(t) \/ RotateInvalidates(t) \/ RotateZeroes(t) \/ RotateDraws(t)
             \/ RotateDigests(t) \/ RotateArms(t) \/ RotateFails(t)
      PROVE  FALSE
  BY <1>2 DEF NothingToCopy, RotateInvalidates, RotateZeroes, RotateDraws, RotateDigests,
              RotateArms, RotateFails
<1>3. ASSUME \/ Refuse(t) \/ RevokeUnload(t) \/ Respond(t) \/ StartProtect(t) \/ Protect(t)
             \/ ResolveFails(t) \/ StartDisconnect(t) \/ Disconnect(t) \/ StartShutdown(t)
             \/ RequireProtected(t) \/ Validate(t) \/ AuthorizeUnload(t) \/ AuthorizeFileUnload(t)
      PROVE  FALSE
  BY <1>3 DEF Refuse, RevokeUnload, Respond, StartProtect, Protect, ResolveFails,
              StartDisconnect, Disconnect, StartShutdown, RequireProtected, Validate,
              AuthorizeUnload, AuthorizeFileUnload
<1>4. ASSUME NEW b \in BOOLEAN,
             \/ StartExit(t, b) \/ PermitExit(t, b) \/ StartStartup(t, b) \/ RequireGuard(t, b)
             \/ SetStartup(t, b)
      PROVE  FALSE
  BY <1>4 DEF StartExit, PermitExit, StartStartup, RequireGuard, SetStartup, Requires, Guards
<1>5. ASSUME ProcessExit(t) PROVE at'[t] = at[t]
  BY <1>5 DEF ProcessExit
<1> QED BY <1>1, <1>2, <1>3, <1>4, <1>5 DEF ThreadStep

\* The steps that change the session.
LEMMA ClientChanges ==
  ASSUME NEW t \in Threads, ThreadStep(t)
  PROVE  UNCHANGED client \/ Register(t) \/ Refuse(t) \/ Disconnect(t)
  BY DEF ThreadStep, CheckImage, Denied, CopyFirst, CopyAgain, CopyToken, NothingToCopy,
         RotateInvalidates, RotateZeroes, RotateDraws, RotateDigests, RotateArms, RotateFails,
         RevokeUnload, Respond, StartProtect, Protect, StartExit, PermitExit, StartStartup,
         RequireGuard, CheckGuard, SetStartup, ResolveFails, StartDisconnect, CheckProtected,
         ClearGuard, StartShutdown, RequireProtected, Validate, AuthorizeUnload,
         AuthorizeFileUnload, InvalidateToken, ProcessExit

\* Only a request past its admission changes the guard.
LEMMA GuardChangers ==
  ASSUME NEW t \in Threads, ThreadStep(t), at[t] \in Outside
  PROVE  UNCHANGED <<guard, refused>>
<1>1. ~Protect(t) /\ ~ClearGuard(t) /\ ~Refuse(t)
  BY DEF Protect, ClearGuard, Refuse, Goes, Moves, Outside
<1>2. \A v \in BOOLEAN : ~PermitExit(t, v)
  BY DEF PermitExit, Goes, Moves, Outside
<1> QED BY <1>1, <1>2, GuardChanges, HistoryChanges

LEMMA GuardOfSession ==
  ASSUME Typed, GuardInv, ~overlapped, NEW t \in Threads, ThreadStep(t), Enforced', ~refused'
  PROVE  client' = guard'.pid
<1>1. \A from, to : Goes(t, from, to) /\ from \notin Outside => client = Owner[t]
  BY DEF Typed, SessionInv, InSession, Goes, Moves
<1>2. ~refused
  BY HistoryChanges DEF Refuse
<1>3. CASE Protect(t) /\ ~UNCHANGED guard
  BY <1>1, <1>3 DEF Protect, Outside
<1>4. CASE ClearGuard(t)
  BY <1>4 DEF ClearGuard, Cleared, NoGuard, Enforced
<1>5. ASSUME NEW v \in BOOLEAN, PermitExit(t, v), ~UNCHANGED guard PROVE client' = guard'.pid
  <2>1. OwnsGuard(Owner[t]) /\ guard' = [guard EXCEPT !.permitted = v]
    BY <1>5 DEF PermitExit
  <2>2. guard'.pid = guard.pid
    BY <2>1 DEF Typed, TypeInv, GuardTyped, NoGuard
  <2>3. client = Owner[t] /\ UNCHANGED client
    BY <1>1, <1>5 DEF PermitExit, Outside
  <2> QED BY <2>1, <2>2, <2>3 DEF OwnsGuard
<1>6. CASE UNCHANGED guard
  <2>1. Enforced /\ client = guard.pid
    BY <1>2, <1>6 DEF Enforced, GuardInv
  <2>2. CASE UNCHANGED client
    BY <1>6, <2>1, <2>2
  <2>3. CASE Register(t)
    <3>1. guard.pid \in Pids
      BY <2>1, ActiveGuard DEF Typed, TypeInv, Enforced
    <3> QED BY <1>6, <2>1, <2>3, <3>1, ClientAssumption DEF Register
  <2>4. CASE Refuse(t)
    BY <2>4 DEF Refuse
  <2>5. CASE Disconnect(t)
    BY <1>2, <2>1, <2>5 DEF Disconnect, Goes, Moves, GuardInv
  <2> QED BY <2>2, <2>3, <2>4, <2>5, ClientChanges
<1> QED BY <1>3, <1>4, <1>5, <1>6, GuardChanges

LEMMA GuardWatched ==
  ASSUME Typed, GuardInv, ~overlapped, NEW t \in Threads, ThreadStep(t)
  PROVE  /\ at'[t] \in {"invalidated", "leaving"} /\ ~refused' => ~Enforced'
         /\ at'[t] \in {"pinning", "unpinning"} => Protected(Owner[t])'
<1>1. ASSUME at'[t] \in {"invalidated", "leaving"}, ~refused' PROVE ~Enforced'
  <2>1. CASE CheckProtected(t)
    <3>1. at'[t] = "unguarding" \/ ~Protected(Owner[t])
      BY <2>1 DEF CheckProtected, ClearsGuard, Goes, Moves, Typed, SessionInv, SessionTyped
    <3>2. client = Owner[t] /\ UNCHANGED <<guard, refused>>
      BY <2>1 DEF CheckProtected, Goes, Moves, Typed, SessionInv, InSession, Outside
    <3> QED BY <1>1, <3>1, <3>2 DEF GuardInv, Enforced, Protected
  <2>2. CASE ClearGuard(t)
    BY <2>2 DEF ClearGuard, Cleared, NoGuard, Enforced
  <2>3. CASE InvalidateToken(t)
    BY <1>1, <2>3 DEF InvalidateToken, Goes, Moves, GuardInv, Enforced
  <2>4. ASSUME NEW b \in BOOLEAN, CheckGuard(t, b) PROVE FALSE
    BY <1>1, <2>4 DEF CheckGuard, Goes, Moves, Setting, Typed, SessionInv, SessionTyped
  <2>5. CASE ProcessExit(t) /\ at'[t] = at[t]
    BY <1>1, <2>5 DEF ProcessExit
  <2> QED BY <1>1, <2>1, <2>2, <2>3, <2>4, <2>5, WatchedSteps
          DEF Watched, Typed, SessionInv
<1>2. ASSUME at'[t] \in {"pinning", "unpinning"} PROVE Protected(Owner[t])'
  <2>1. ~CheckProtected(t) /\ ~ClearGuard(t) /\ ~InvalidateToken(t)
    BY <1>2 DEF CheckProtected, ClearGuard, InvalidateToken, Goes, Moves, Typed, SessionInv,
                SessionTyped
  <2>2. ~(ProcessExit(t) /\ at'[t] = at[t])
    BY <1>2 DEF ProcessExit
  <2>3. PICK b \in BOOLEAN : CheckGuard(t, b)
    BY <1>2, <2>1, <2>2, WatchedSteps DEF Watched, Typed, SessionInv
  <2> QED BY <1>2, <2>3 DEF CheckGuard, Goes, Moves, Protected, Typed, SessionInv, SessionTyped
<1> QED BY <1>1, <1>2

LEMMA GuardInvStep == Typed /\ GuardInv /\ [Next]_vars => GuardInv'
<1> SUFFICES ASSUME Typed, GuardInv, [Next]_vars, ~overlapped'
             PROVE  /\ Enforced' /\ ~refused' => client' = guard'.pid
                    /\ \A u \in Threads :
                         /\ at'[u] \in {"invalidated", "leaving"} /\ ~refused' => ~Enforced'
                         /\ at'[u] \in {"pinning", "unpinning"} => Protected(Owner[u])'
  BY DEF GuardInv
<1>1. ASSUME NEW t \in Threads, ThreadStep(t)
      PROVE  /\ Enforced' /\ ~refused' => client' = guard'.pid
             /\ \A u \in Threads :
                  /\ at'[u] \in {"invalidated", "leaving"} /\ ~refused' => ~Enforced'
                  /\ at'[u] \in {"pinning", "unpinning"} => Protected(Owner[u])'
  <2>1. ~overlapped
    BY <1>1, HistoryChanges
  <2>2. ASSUME NEW u \in Threads \ {t}, at'[u] \in Watched
        PROVE  UNCHANGED <<guard, refused>> /\ at'[u] = at[u]
    <3>1. at'[u] = at[u]
      BY <1>1, OthersStay DEF Typed, SessionInv
    <3>2. at[t] \in Outside
      BY <2>1, <2>2, <3>1, Alone DEF Typed, Watched, Outside
    <3> QED BY <1>1, <3>1, <3>2, GuardChangers
  <2>3. ASSUME NEW u \in Threads \ {t}
        PROVE  /\ at'[u] \in {"invalidated", "leaving"} /\ ~refused' => ~Enforced'
               /\ at'[u] \in {"pinning", "unpinning"} => Protected(Owner[u])'
    BY <2>1, <2>2 DEF GuardInv, Enforced, Protected, Watched
  <2> QED BY <1>1, <2>1, <2>3, GuardOfSession, GuardWatched
<1>2. ASSUME NEW p \in Pids, Restart(p) PROVE GuardInv'
  BY <1>2 DEF Restart, GuardInv, Enforced, Protected
<1>3. CASE Reload
  BY <1>3 DEF Reload, Busy, NoGuard, Enforced
<1>4. CASE UNCHANGED vars
  BY <1>4 DEF vars, GuardInv, Enforced, Protected
<1> QED BY <1>1, <1>2, <1>3, <1>4 DEF Next, GuardInv

\* A guard that is enforced belongs to the session, ends with it and with its process, and no
\* request that ends a session ends another's.
THEOREM GuardIsSound == Spec => []GuardSound
<1>1. Init => GuardInv
  BY DEF Init, GuardInv, NoGuard, Enforced
<1>2. Typed /\ GuardInv /\ [Next]_vars => GuardInv'
  BY GuardInvStep
<1>3. Typed /\ GuardInv => GuardSound
  <2> SUFFICES ASSUME Typed, GuardInv PROVE GuardSound
    OBVIOUS
  <2>1. ASSUME guard.active, ~guard.permitted, ~refused, ~overlapped
        PROVE  client = guard.pid /\ (Busy = {} => guard.pid \in alive)
    <3>1. client = guard.pid
      BY <2>1 DEF GuardInv, Enforced
    <3>2. guard.pid \in Pids
      BY <2>1, ActiveGuard DEF Typed, TypeInv
    <3> QED BY <2>1, <3>1, <3>2 DEF Typed, SessionInv, Gone, Busy, Leaving
  <2>2. ClearsOwnSession
    BY DEF ClearsOwnSession, Typed, SessionInv, InSession, Outside
  <2> QED BY <2>1, <2>2 DEF GuardSound, GuardIsClients
<1> QED BY <1>1, <1>2, <1>3, TypedInvariant, PTL DEF Spec

----------------------------------------------------------------------------
(* The startup protection *)

\* The session has the pinned image, if the protection was set for it or its image checked
\* since; and an image checked since is the pinned one.
StartupInv ==
  /\ client # NoPid /\ inStep => startup \in {Unpinned, Pinned(ImageOf[client])}
  /\ \A t \in checked : Allowed(ImageOf[Owner[t]])

LEMMA AllowedPinned ==
  ASSUME startup \in Loaded, NEW i \in Images, Allowed(i)
  PROVE  startup \in {Unpinned, Pinned(i)}
<1>1. /\ Unpinned.image = NoImage
      /\ [Unpinned EXCEPT !.initializing = TRUE].image = NoImage
      /\ \A j \in Images : Pinned(j).image = j
  BY DEF Unpinned, Pinned
<1> HIDE DEF Unpinned, Pinned
<1> QED BY <1>1, ClientAssumption DEF Allowed, Loaded

LEMMA StartupInvStep == Typed /\ StartupInv /\ [Next]_vars => StartupInv'
<1> SUFFICES ASSUME Typed, StartupInv, [Next]_vars PROVE StartupInv'
  OBVIOUS
<1>1. ASSUME NEW t \in Threads, ThreadStep(t) PROVE StartupInv'
  <2>1. CASE Register(t)
    <3>1. t \in checked => startup \in {Unpinned, Pinned(ImageOf[Owner[t]])}
      BY AllowedPinned, ClientAssumption DEF Typed, TypeInv, StartupTyped, StartupInv
    <3>2. /\ client' = Owner[t] /\ startup' = startup /\ inStep' = (t \in checked)
          /\ checked' \subseteq checked
      BY <2>1 DEF Register
    <3> QED BY <3>1, <3>2 DEF StartupInv, Allowed
  <2>2. CASE client' \in {client, NoPid} /\ UNCHANGED startupVars
    BY <2>2 DEF startupVars, StartupInv, Allowed
  <2>3. CASE CheckImage(t)
    BY <2>3 DEF CheckImage, StartupInv, Allowed
  <2>4. CASE Denied(t)
    BY <2>4 DEF Denied, StartupInv, Allowed
  <2>5. ASSUME NEW b \in BOOLEAN, SetStartup(t, b) PROVE StartupInv'
    BY <2>5 DEF SetStartup, SetTo, Registered, StartupInv
  <2> QED BY <1>1, <2>1, <2>2, <2>3, <2>4, <2>5, StartupChanges, ClientChanges
          DEF Refuse, Disconnect
<1>2. ASSUME NEW p \in Pids, Restart(p) PROVE StartupInv'
  BY <1>2 DEF Restart, startupVars, StartupInv, Allowed
<1>3. CASE Reload
  BY <1>3 DEF Reload, StartupInv
<1>4. CASE UNCHANGED vars
  BY <1>4 DEF vars, startupVars, StartupInv, Allowed
<1> QED BY <1>1, <1>2, <1>3, <1>4 DEF Next

\* Who sets the startup protection is registered and guarded to the end of the request, and
\* the protection binds the sessions it is set for and the next ones.
THEOREM StartupBinds == Spec => []StartupIsClients
<1>1. Init => StartupInv /\ GuardInv
  BY DEF Init, StartupInv, GuardInv, NoGuard, Enforced
<1>2. Typed /\ StartupInv /\ GuardInv /\ [Next]_vars => (StartupInv /\ GuardInv)'
  BY StartupInvStep, GuardInvStep
<1>3. Typed /\ StartupInv /\ GuardInv => StartupIsClients
  BY DEF StartupIsClients, StartupInv, GuardInv, Typed, SessionInv, InSession, Outside,
         Registered
<1> QED BY <1>1, <1>2, <1>3, TypedInvariant, PTL DEF Spec

----------------------------------------------------------------------------
(* The unload entries *)

Opening == {"opening", "permitting file"}
Between == {"permitting file", "responding"}
UnloadInv ==
  /\ unloadOpen \/ filePermit => authorized # "no"
  /\ \A t \in Threads : at[t] \in Opening => authorized # "no"
  /\ ~overlapped =>
       /\ unloadOpen \/ filePermit => authorized = "yes"
       /\ unloadOpen # filePermit => \E t \in Threads : at[t] \in Between
       /\ \A t \in Threads :
            /\ at[t] \in Opening => authorized = "yes"
            /\ at[t] = "permitting file" => unloadOpen
            /\ at[t] = "responding" => ~unloadOpen

\* The places the entries matter to, and the steps that lead to them and from them.
Unlocking == {"opening", "permitting file", "responding"}
LEMMA UnlockingSteps ==
  ASSUME SessionTyped, NEW t \in Threads, ThreadStep(t),
         at[t] \in Unlocking \/ at'[t] \in Unlocking
  PROVE  RevokeUnload(t) \/ Respond(t) \/ Validate(t) \/ AuthorizeUnload(t)
         \/ AuthorizeFileUnload(t)
<1> USE DEF SessionTyped, Unlocking, Goes, Issued, Moves
<1>1. ASSUME CheckImage(t) \/ Register(t) \/ Denied(t) \/ CopyFirst(t) \/ CopyAgain(t)
      PROVE  FALSE
  BY <1>1 DEF CheckImage, Register, Denied, CopyFirst, CopyAgain
<1>2. ASSUME \/ NothingToCopy(t) \/ RotateInvalidates(t) \/ RotateZeroes(t) \/ RotateDraws(t)
             \/ RotateDigests(t) \/ RotateArms(t) \/ RotateFails(t)
      PROVE  FALSE
  BY <1>2 DEF NothingToCopy, RotateInvalidates, RotateZeroes, RotateDraws, RotateDigests,
              RotateArms, RotateFails
<1>3. ASSUME \/ Refuse(t) \/ StartProtect(t) \/ Protect(t) \/ ResolveFails(t) \/ StartDisconnect(t)
             \/ CheckProtected(t) \/ ClearGuard(t) \/ Disconnect(t) \/ StartShutdown(t)
             \/ RequireProtected(t) \/ InvalidateToken(t)
      PROVE  FALSE
  BY <1>3 DEF Refuse, StartProtect, Protect, ResolveFails, Setting, StartDisconnect,
              CheckProtected, ClearGuard, Disconnect, StartShutdown, RequireProtected,
              InvalidateToken
<1>4. ASSUME NEW b \in BOOLEAN,
             \/ StartExit(t, b) \/ PermitExit(t, b) \/ StartStartup(t, b) \/ RequireGuard(t, b)
             \/ CheckGuard(t, b) \/ SetStartup(t, b)
      PROVE  FALSE
  BY <1>4 DEF StartExit, PermitExit, StartStartup, RequireGuard, CheckGuard, SetStartup,
              Requires, Guards, Setting
<1>5. ASSUME ProcessExit(t) PROVE FALSE
  BY <1>5 DEF ProcessExit
<1> QED BY <1>1, <1>2, <1>3, <1>4, <1>5 DEF ThreadStep

\* A step past the admission: the thread goes from one place of the session to another, and no
\* other thread is past its admission, unless requests of one process have overlapped.
LEMMA StepAlone ==
  ASSUME Typed, NEW t \in Threads, NEW from \in ThreadPcs \ Outside, NEW to, Goes(t, from, to)
  PROVE  /\ at'[t] = to /\ at[t] = from /\ overlapped' = overlapped
         /\ \A u \in Threads \ {t} : at'[u] = at[u] /\ (~overlapped => at[u] \in Outside)
  BY Alone DEF Typed, SessionInv, SessionTyped, Goes, Moves

LEMMA UnloadInvStep == Typed /\ UnloadInv /\ [Next]_vars => UnloadInv'
<1> SUFFICES ASSUME Typed, UnloadInv, [Next]_vars PROVE UnloadInv'
  OBVIOUS
<1>1. ASSUME NEW t \in Threads, ThreadStep(t) PROVE UnloadInv'
  <2>1. /\ \A u \in Threads \ {t} : at'[u] = at[u]
        /\ ~overlapped' => ~overlapped
    BY <1>1, OthersStay, HistoryChanges DEF Typed, SessionInv
  <2> DEFINE Alters == RevokeUnload(t) \/ Respond(t) \/ Validate(t) \/ AuthorizeUnload(t)
                       \/ AuthorizeFileUnload(t)
  <2>2. CASE ~Alters
    <3>1. UNCHANGED <<unloadOpen, filePermit, authorized>>
      BY <1>1, <2>2, UnloadChanges DEF unloadVars
    <3>2. at[t] \notin Unlocking /\ at'[t] \notin Unlocking
      BY <1>1, <2>2, UnlockingSteps DEF Typed, SessionInv
    <3> QED BY <2>1, <3>1, <3>2 DEF UnloadInv, Opening, Between, Unlocking
  <2> USE DEF UnloadInv, Opening, Between, Outside
  <2>3. CASE RevokeUnload(t)
    <3>1. /\ at'[t] = "responding" /\ at[t] = "revoking"
          /\ \A u \in Threads \ {t} : at'[u] = at[u] /\ (~overlapped => at[u] \in Outside)
      BY <2>3, StepAlone DEF RevokeUnload, ThreadPcs
    <3> QED BY <2>1, <2>3, <3>1 DEF RevokeUnload
  <2>4. CASE Respond(t)
    <3>1. /\ at'[t] = "idle" /\ at[t] = "responding"
          /\ \A u \in Threads \ {t} : at'[u] = at[u] /\ (~overlapped => at[u] \in Outside)
      BY <2>4, StepAlone DEF Respond, ThreadPcs
    <3>2. /\ filePermit' = FALSE /\ unloadOpen' = unloadOpen /\ unloadOpen \in BOOLEAN
          /\ authorized # "no" => authorized' # "no"
      BY <2>4 DEF Respond, Responds, Typed, TypeInv, FlagsTyped
    <3>3. ~overlapped => unloadOpen = FALSE
      BY <3>1, <3>2
    <3> QED BY <2>1, <3>1, <3>2, <3>3
  <2>5. CASE Validate(t)
    <3>1. /\ at'[t] \in {"idle", "opening"} /\ at[t] = "validating"
          /\ \A u \in Threads \ {t} : at'[u] = at[u] /\ (~overlapped => at[u] \in Outside)
      BY <2>5, StepAlone DEF Validate, ThreadPcs
    <3>2. /\ UNCHANGED <<unloadOpen, filePermit>> /\ (authorized' = "yes" \/ UNCHANGED authorized)
          /\ at'[t] = "opening" => authorized' = "yes"
      BY <2>5 DEF Validate, Goes, Moves, Typed, SessionInv, SessionTyped
    <3> QED BY <2>1, <3>1, <3>2
  <2>6. CASE AuthorizeUnload(t)
    <3>1. /\ at'[t] = "permitting file" /\ at[t] = "opening"
          /\ \A u \in Threads \ {t} : at'[u] = at[u] /\ (~overlapped => at[u] \in Outside)
      BY <2>6, StepAlone DEF AuthorizeUnload, ThreadPcs
    <3> QED BY <2>1, <2>6, <3>1 DEF AuthorizeUnload
  <2>7. CASE AuthorizeFileUnload(t)
    <3>1. /\ at'[t] = "releasing" /\ at[t] = "permitting file"
          /\ \A u \in Threads \ {t} : at'[u] = at[u] /\ (~overlapped => at[u] \in Outside)
      BY <2>7, StepAlone DEF AuthorizeFileUnload, ThreadPcs
    <3> QED BY <2>1, <2>7, <3>1 DEF AuthorizeFileUnload
  <2> QED BY <2>2, <2>3, <2>4, <2>5, <2>6, <2>7
<1>2. ASSUME NEW p \in Pids, Restart(p) PROVE UnloadInv'
  BY <1>2 DEF Restart, unloadVars, UnloadInv
<1>3. CASE Reload
  BY <1>3 DEF Reload, Busy, UnloadInv, Opening
<1>4. CASE UNCHANGED vars
  BY <1>4 DEF vars, unloadVars, UnloadInv
<1> QED BY <1>1, <1>2, <1>3, <1>4 DEF Next

\* The driver can be unloaded only after an authorized shutdown, and not after a later
\* registration; between requests its two unload entries are open together.
THEOREM UnloadAuthorized == Spec => []UnloadNeedsAuthorization
<1>1. Init => UnloadInv
  BY DEF Init, UnloadInv, Opening
<1>2. Typed /\ UnloadInv /\ [Next]_vars => UnloadInv'
  BY UnloadInvStep
<1>3. Typed /\ UnloadInv => UnloadNeedsAuthorization
  <2> SUFFICES ASSUME Typed, UnloadInv PROVE UnloadNeedsAuthorization
    OBVIOUS
  <2>1. unloadOpen \/ filePermit => authorized # "no" /\ (authorized = "yes" \/ overlapped)
    BY DEF UnloadInv
  <2>2. ASSUME Quiet PROVE unloadOpen = filePermit
    <3>1. \A t \in Threads : at[t] \notin Between
      BY <2>2 DEF Quiet, Busy, Between
    <3> QED BY <2>2, <3>1 DEF Quiet, UnloadInv
  <2> QED BY <2>1, <2>2 DEF UnloadNeedsAuthorization
<1> QED BY <1>1, <1>2, <1>3, TypedInvariant, PTL DEF Spec

----------------------------------------------------------------------------
(* The token *)

\* The places of a registration past its admission, in which the client holds no token yet,
\* and the end of a session, which may have revoked it.
Copying == {"copying", "recopying", "invalidating", "zeroing", "drawing", "digesting", "arming",
            "refusing", "revoking", "responding"}
Tokenless == Copying \cup {"leaving"}
Usable(tok) ==
  /\ tok.state = "armed" => tok.plain = tok.digest /\ tok.digest # NoToken
  /\ tok.state = "issued" => tok.plain = NoToken /\ tok.digest # NoToken
Halfway(t) ==
  /\ at[t] \in {"drawing", "digesting", "arming"} => token.state = "empty"
  /\ at[t] = "digesting" => token.plain # NoToken
  /\ at[t] = "arming" => token.plain = token.digest /\ token.digest # NoToken
  /\ at[t] \in {"revoking", "responding"} => token.state = "issued" /\ local[t] = token.digest
Holds ==
  client \in alive /\ (\A t \in Threads : Owner[t] = client => at[t] \notin Tokenless) =>
    token.state = "issued" /\ given[client] = token.digest
TokenInv == ~overlapped => Usable(token) /\ (\A t \in Threads : Halfway(t)) /\ Holds

Registering(t) ==
  \/ CopyFirst(t) \/ CopyAgain(t) \/ NothingToCopy(t) \/ RotateInvalidates(t) \/ RotateZeroes(t)
  \/ RotateDraws(t) \/ RotateDigests(t) \/ RotateArms(t) \/ RotateFails(t) \/ RevokeUnload(t)

\* The steps of a registration are the only ones from and to those places.
LEMMA CopyingSteps ==
  ASSUME SessionTyped, NEW t \in Threads, ThreadStep(t),
         at[t] \in Tokenless \/ at'[t] \in Copying
  PROVE  Registering(t) \/ Register(t) \/ Refuse(t) \/ Respond(t) \/ Disconnect(t)
<1> USE DEF SessionTyped, Tokenless, Copying, Goes, Issued, Moves
<1>1. ASSUME CheckImage(t) \/ Denied(t) \/ StartProtect(t) \/ Protect(t) \/ ResolveFails(t)
      PROVE  FALSE
  BY <1>1 DEF CheckImage, Denied, StartProtect, Protect, ResolveFails, Setting
<1>2. ASSUME \/ StartDisconnect(t) \/ CheckProtected(t) \/ ClearGuard(t) \/ StartShutdown(t)
             \/ RequireProtected(t) \/ InvalidateToken(t) \/ Validate(t) \/ AuthorizeUnload(t)
             \/ AuthorizeFileUnload(t)
      PROVE  FALSE
  BY <1>2 DEF StartDisconnect, CheckProtected, ClearGuard, StartShutdown, RequireProtected,
              InvalidateToken, Validate, AuthorizeUnload, AuthorizeFileUnload
<1>3. ASSUME NEW b \in BOOLEAN,
             \/ StartExit(t, b) \/ PermitExit(t, b) \/ StartStartup(t, b) \/ RequireGuard(t, b)
             \/ CheckGuard(t, b) \/ SetStartup(t, b)
      PROVE  FALSE
  BY <1>3 DEF StartExit, PermitExit, StartStartup, RequireGuard, CheckGuard, SetStartup,
              Requires, Guards, Setting
<1>4. ASSUME ProcessExit(t) PROVE FALSE
  BY <1>4 DEF ProcessExit
<1> QED BY <1>1, <1>2, <1>3, <1>4 DEF ThreadStep, Registering

\* Other steps leave the token alone, except for the one that revokes it.
LEMMA TokenChanges ==
  ASSUME NEW t \in Threads, ThreadStep(t)
  PROVE  UNCHANGED token \/ Registering(t) \/ InvalidateToken(t)
  BY DEF ThreadStep, Registering, CheckImage, Register, Denied, Refuse, Respond, StartProtect,
         Protect, StartExit, PermitExit, StartStartup, RequireGuard, CheckGuard, SetStartup,
         ResolveFails, StartDisconnect, CheckProtected, ClearGuard, Disconnect, StartShutdown,
         RequireProtected, Validate, AuthorizeUnload, AuthorizeFileUnload, ProcessExit, tokenVars

LEMMA GivenChanges ==
  ASSUME NEW t \in Threads, ThreadStep(t)
  PROVE  UNCHANGED given \/ Respond(t) \/ ProcessExit(t)
  BY DEF ThreadStep, CheckImage, Register, Denied, CopyFirst, CopyAgain, CopyToken, NothingToCopy,
         RotateInvalidates, RotateZeroes, RotateDraws, RotateDigests, RotateArms, RotateFails,
         Refuse, RevokeUnload, StartProtect, Protect, StartExit, PermitExit, StartStartup,
         RequireGuard, CheckGuard, SetStartup, ResolveFails, StartDisconnect, CheckProtected,
         ClearGuard, Disconnect, StartShutdown, RequireProtected, Validate, AuthorizeUnload,
         AuthorizeFileUnload, InvalidateToken

LEMMA LocalChanges ==
  ASSUME local \in [Threads -> Tokens \cup {NoToken}], NEW t \in Threads, ThreadStep(t),
         NEW u \in Threads \ {t}
  PROVE  local'[u] = local[u]
<1>1. UNCHANGED local \/ \E l : local' = [local EXCEPT ![t] = l]
  BY DEF ThreadStep, CheckImage, Register, Denied, CopyFirst, CopyAgain, CopyToken, NothingToCopy,
         RotateInvalidates, RotateZeroes, RotateDraws, RotateDigests, RotateArms, RotateFails,
         Refuse, RevokeUnload, Respond, StartProtect, Protect, StartExit, PermitExit,
         StartStartup, RequireGuard, CheckGuard, SetStartup, ResolveFails, StartDisconnect,
         CheckProtected, ClearGuard, Disconnect, StartShutdown, RequireProtected, Validate,
         AuthorizeUnload, AuthorizeFileUnload, InvalidateToken, ProcessExit, Dropped
<1> QED BY <1>1

\* What a registration makes of the token, and where it goes.
LEMMA RegisteringKeeps ==
  ASSUME Typed, TokenInv, ~overlapped, NEW t \in Threads, Registering(t)
  PROVE  Usable(token') /\ Halfway(t)' /\ at'[t] \in Copying /\ UNCHANGED given
<1> USE DEF Typed, TypeInv, SessionInv, SessionTyped, TokenTyped, TokenInv, Usable, Halfway, Copying,
            Goes, Moves
<1>1. CASE CopyFirst(t) \/ CopyAgain(t)
  BY <1>1 DEF CopyFirst, CopyAgain, CopyToken, HandedOut
<1>2. CASE NothingToCopy(t) \/ RevokeUnload(t)
  BY <1>2 DEF NothingToCopy, RevokeUnload, tokenVars
<1>3. CASE RotateInvalidates(t) \/ RotateZeroes(t)
  BY <1>3 DEF RotateInvalidates, RotateZeroes, Invalidate, Wipe, EmptyToken
<1>4. CASE RotateDraws(t)
  <2>1. drawn + 1 \in Tokens
    BY <1>4, TokenAssumption DEF RotateDraws, Tokens
  <2> QED BY <1>4, <2>1, TokenAssumption DEF RotateDraws
<1>5. CASE RotateDigests(t)
  BY <1>5 DEF RotateDigests
<1>6. CASE RotateArms(t)
  BY <1>6 DEF RotateArms
<1>7. CASE RotateFails(t)
  BY <1>7 DEF RotateFails
<1> QED BY <1>1, <1>2, <1>3, <1>4, <1>5, <1>6, <1>7 DEF Registering

\* Past its admission, the request of another thread has no part in the token.
LEMMA OthersHalfway ==
  ASSUME Typed, ~overlapped, NEW t \in Threads, ThreadStep(t), at[t] \notin Outside,
         NEW u \in Threads \ {t}
  PROVE  Halfway(u)' /\ at'[u] \notin Tokenless
<1>1. at'[u] = at[u] /\ at[u] \in Outside
  BY Alone, OthersStay DEF Typed, SessionInv
<1> QED BY <1>1 DEF Halfway, Outside, Tokenless, Copying

LEMMA TokenInvStep == Typed /\ TokenInv /\ [Next]_vars => TokenInv'
<1> SUFFICES ASSUME Typed, TokenInv, [Next]_vars, ~overlapped'
             PROVE  Usable(token') /\ (\A u \in Threads : Halfway(u)') /\ Holds'
  BY DEF TokenInv, Usable
<1>1. ASSUME NEW t \in Threads, ThreadStep(t)
      PROVE  Usable(token') /\ (\A u \in Threads : Halfway(u)') /\ Holds'
  <2>1. /\ ~overlapped /\ Usable(token) /\ Holds /\ \A u \in Threads : Halfway(u)
        /\ \A u \in Threads \ {t} : at'[u] = at[u]
    BY <1>1, HistoryChanges, OthersStay DEF TokenInv, Typed, SessionInv
  <2>2. at[t] \notin Outside => client = Owner[t]
    BY <2>1 DEF Typed, SessionInv, InSession
  <2>3. CASE Registering(t)
    <3>1. at[t] \in Copying /\ UNCHANGED client
      BY <2>3 DEF Registering, CopyFirst, CopyAgain, CopyToken, NothingToCopy,
                  RotateInvalidates, RotateZeroes, RotateDraws, RotateDigests, RotateArms,
                  RotateFails, RevokeUnload, Goes, Moves, Copying
    <3>2. at[t] \notin Outside
      BY <3>1 DEF Copying, Outside
    <3>3. Usable(token') /\ Halfway(t)' /\ at'[t] \in Copying
      BY <2>1, <2>3, RegisteringKeeps
    <3>4. Holds'
      BY <2>2, <3>1, <3>2, <3>3 DEF Holds, Tokenless
    <3> QED BY <1>1, <2>1, <3>2, <3>3, <3>4, OthersHalfway
  <2>4. CASE InvalidateToken(t)
    <3>1. at[t] \notin Outside /\ at'[t] = "leaving" /\ UNCHANGED client /\ token' = EmptyToken
      BY <2>4 DEF InvalidateToken, Invalidate, Wipe, Goes, Moves, Typed, SessionInv,
                  SessionTyped, Outside
    <3>2. Usable(token') /\ Halfway(t)' /\ Holds'
      BY <2>2, <3>1 DEF EmptyToken, Usable, Halfway, Holds, Tokenless
    <3> QED BY <1>1, <2>1, <3>1, <3>2, OthersHalfway
  <2>5. CASE Register(t)
    <3>1. at'[t] = "copying" /\ client' = Owner[t] /\ UNCHANGED <<token, local>>
      BY <2>5 DEF Register, Goes, Moves, Typed, SessionInv, SessionTyped, tokenVars
    <3>2. Holds'
      BY <3>1 DEF Holds, Tokenless, Copying
    <3> QED BY <2>1, <3>1, <3>2 DEF Usable, Halfway
  <2>6. CASE Refuse(t) \/ Disconnect(t)
    <3>1. at'[t] = "idle" /\ client' = NoPid /\ UNCHANGED <<token, local, alive>>
      BY <2>6 DEF Refuse, Disconnect, Goes, Moves, Typed, SessionInv, SessionTyped, tokenVars
    <3>2. Holds'
      BY <3>1, ClientAssumption DEF Holds, Typed, SessionInv, SessionTyped
    <3> QED BY <2>1, <3>1, <3>2 DEF Usable, Halfway
  <2>7. CASE Respond(t)
    <3>1. /\ at[t] = "responding" /\ at'[t] = "idle" /\ UNCHANGED <<token, client>>
          /\ given' = [given EXCEPT ![Owner[t]] = local[t]]
      BY <2>7 DEF Respond, Goes, Moves, Typed, SessionInv, SessionTyped, tokenVars
    <3>2. token.state = "issued" /\ local[t] = token.digest
      BY <2>1, <3>1 DEF Halfway
    <3>3. given'[Owner[t]] = token.digest
      BY <3>1, <3>2, ClientAssumption DEF Typed, TypeInv, TokenTyped
    <3>4. Holds' /\ Halfway(t)' /\ at[t] \notin Outside
      BY <2>2, <3>1, <3>2, <3>3 DEF Holds, Halfway, Outside
    <3> QED BY <1>1, <2>1, <3>1, <3>4, OthersHalfway DEF Usable
  <2>8. CASE ~(Registering(t) \/ InvalidateToken(t) \/ Register(t) \/ Refuse(t) \/ Respond(t)
               \/ Disconnect(t))
    <3>1. UNCHANGED <<token, client>> /\ (UNCHANGED given \/ ProcessExit(t))
      BY <1>1, <2>8, TokenChanges, ClientChanges, GivenChanges
    <3>2. at[t] \notin Tokenless /\ at'[t] \notin Copying
      BY <1>1, <2>8, CopyingSteps DEF Typed, SessionInv
    <3>3. \A u \in Threads \ {t} : local'[u] = local[u]
      BY <1>1, LocalChanges DEF Typed, TypeInv, TokenTyped
    <3>4. \A u \in Threads : Halfway(u)'
      BY <2>1, <3>1, <3>2, <3>3 DEF Halfway, Copying
    <3>5. Holds'
      <4>1. CASE ProcessExit(t)
        BY <2>1, <3>1, <3>2, <4>1 DEF ProcessExit, Holds, Typed, TypeInv, TokenTyped,
           SessionInv, SessionTyped
      <4>2. CASE UNCHANGED given /\ ~ProcessExit(t)
        BY <1>1, <2>1, <3>1, <3>2, <4>2, MoveKinds
           DEF Holds, Begins, GoesOn, Register, Denied, Ends
      <4> QED BY <3>1, <4>1, <4>2
    <3> QED BY <2>1, <3>1, <3>4, <3>5 DEF Usable
  <2> QED BY <2>3, <2>4, <2>5, <2>6, <2>7, <2>8
<1>2. ASSUME NEW p \in Pids, Restart(p)
      PROVE  Usable(token') /\ (\A u \in Threads : Halfway(u)') /\ Holds'
  <2>1. /\ UNCHANGED <<client, token, at, local, given, overlapped>>
        /\ alive' = alive \cup {p} /\ \A t \in Threads : Owner[t] = p => at[t] = "idle"
    BY <1>2 DEF Restart, tokenVars
  <2>2. p = client => p \in alive
    BY <2>1 DEF Typed, SessionInv, Gone, Leaving
  <2> QED BY <2>1, <2>2 DEF TokenInv, Usable, Halfway, Holds
<1>3. CASE Reload
  <2>1. Usable(token')
    BY <1>3, TokenAssumption DEF Reload, FirstToken, EmptyToken, Usable, Tokens, Typed, TypeInv,
       TokenTyped
  <2>2. \A u \in Threads : Halfway(u)'
    BY <1>3 DEF Reload, Busy, Halfway
  <2>3. Holds'
    BY <1>3, ClientAssumption DEF Reload, Holds, Typed, SessionInv, SessionTyped
  <2> QED BY <2>1, <2>2, <2>3
<1>4. CASE UNCHANGED vars
  BY <1>4 DEF vars, tokenVars, TokenInv, Usable, Halfway, Holds
<1> QED BY <1>1, <1>2, <1>3, <1>4 DEF Next

\* Between its requests the registered client holds the very token the driver validates.
THEOREM TokenIsHeld == Spec => []ClientHoldsToken
<1>1. Init => TokenInv
  <2> SUFFICES ASSUME Init PROVE Usable(token) /\ (\A t \in Threads : Halfway(t)) /\ Holds
    BY DEF TokenInv
  <2>1. Usable(token)
    BY TokenAssumption DEF Init, FirstToken, EmptyToken, Usable, Tokens
  <2> QED BY <2>1, ClientAssumption DEF Init, Halfway, Holds
<1>2. Typed /\ TokenInv /\ [Next]_vars => TokenInv'
  BY TokenInvStep
<1>3. Typed /\ TokenInv => ClientHoldsToken
  <2> SUFFICES ASSUME TokenInv, client # NoPid, ~Serving(client), client \in alive, ~overlapped
               PROVE  /\ token.state = "issued" /\ token.plain = NoToken
                      /\ given[client] = token.digest /\ token.digest # NoToken
    BY DEF ClientHoldsToken
  <2>1. \A t \in Threads : Owner[t] = client => at[t] \notin Tokenless
    BY DEF Serving, Busy, Tokenless, Copying
  <2> QED BY <2>1 DEF TokenInv, Holds, Usable
<1> QED BY <1>1, <1>2, <1>3, TypedInvariant, PTL DEF Spec
=============================================================================
