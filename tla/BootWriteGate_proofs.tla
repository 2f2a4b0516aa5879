------------------------- MODULE BootWriteGate_proofs -------------------------
(***************************************************************************)
(* Proofs about BootWriteGate for every set of writes, clients and ranges  *)
(* and every limit.  Each part of the invariant has an induction of its    *)
(* own: the ranges, the types, the list, the reservations, the session,    *)
(* the disk's filter, and the answers.  The last three are about clients   *)
(* that issue one request at a time.                                       *)
(***************************************************************************)
EXTENDS BootWriteGate, LibraryLemmas, TLAPS

----------------------------------------------------------------------------
(* The range test: no modular sum ever wraps where it matters, for every   *)
(* width, every range CONFIGURE accepts and every write the disk class     *)
(* driver can be asked for.                                                *)

\* The end of an accepted range, and of a write that starts on the disk, is not reduced.
LEMMA RangeEnd ==
  ASSUME NEW r \in RawRange, RangeIsValid(r)
  PROVE  /\ r.offset \in Nat /\ r.length \in Nat \ {0}
         /\ Plus(r.offset, r.length) = r.offset + r.length
         /\ r.offset + r.length < 2 * Half
  BY WidthAssumption DEF RawRange, RangeIsValid, Plus, Offsets, U64

LEMMA WriteEnd ==
  ASSUME NEW offset \in Offsets, NEW length \in 0..MaxLength, offset >= 0
  PROVE  /\ offset \in Nat /\ length \in Nat
         /\ Plus(offset, length) = offset + length
         /\ offset + length < 2 * Half
  BY WidthAssumption DEF Plus, Offsets

\* A write and a range overlap if and only if they have a byte in common: the later of the
\* two first bytes.
LEMMA OverlapIsCommonByte ==
  ASSUME NEW a \in Nat, NEW m \in Nat \ {0}, NEW b \in Nat, NEW n \in Nat \ {0},
         a + m < 2 * Half, b + n < 2 * Half
  PROVE  (a < b + n /\ b < a + m) <=> Bytes(a, m) \cap Bytes(b, n) # {}
<1>1. ASSUME a < b + n, b < a + m
      PROVE  Bytes(a, m) \cap Bytes(b, n) # {}
  <2>1. CASE a <= b
    <3>1. b \in Bytes(a, m) /\ b \in Bytes(b, n)
      BY <1>1, <2>1, WidthAssumption DEF Bytes, U64
    <3> QED BY <3>1
  <2>2. CASE b < a
    <3>1. a \in Bytes(a, m) /\ a \in Bytes(b, n)
      BY <1>1, <2>2, WidthAssumption DEF Bytes, U64
    <3> QED BY <3>1
  <2> QED BY <2>1, <2>2
<1>2. ASSUME NEW x \in Bytes(a, m) \cap Bytes(b, n)
      PROVE  a < b + n /\ b < a + m
  <2>1. x \in Int /\ a <= x /\ x < a + m /\ b <= x /\ x < b + n
    BY <1>2, WidthAssumption DEF Bytes, U64
  <2> QED BY <2>1
<1> QED BY <1>1, <1>2

\* For every set of ranges CONFIGURE accepts, a write that starts on the disk is queued for
\* the client (BootWriteIntersectsProtectedRange) if and only if it touches a protected
\* byte: nothing is missed and nothing else is delayed.
THEOREM TestIsExact ==
  ASSUME NEW rs \in SUBSET RawRange, RangesAreValid(rs),
         NEW offset \in Offsets, NEW length \in 0..MaxLength, offset >= 0
  PROVE  TestIsExactFor(offset, length, rs)
<1>1. CASE length = 0
  <2>1. Bytes(offset, length) = {}
    BY <1>1, WidthAssumption DEF Bytes, U64, Offsets
  <2>2. ~Intersects(offset, length, rs)
    BY <1>1 DEF Intersects, Offsets
  <2> QED BY <2>1, <2>2 DEF TestIsExactFor
<1>2. CASE length # 0
  <2>1. offset \in Nat /\ length \in Nat \ {0} /\ offset + length < 2 * Half
        /\ Plus(offset, length) = offset + length
    BY <1>2, WriteEnd
  <2>2. Intersects(offset, length, rs) <=> \E r \in rs : Overlaps(offset, offset + length, r)
    BY <1>2, <2>1 DEF Intersects
  <2>3. ASSUME NEW r \in rs
        PROVE  Overlaps(offset, offset + length, r)
                 <=> Bytes(offset, length) \cap Bytes(r.offset, r.length) # {}
    <3>1. r \in RawRange /\ RangeIsValid(r)
      BY DEF RangesAreValid
    <3>2. /\ r.offset \in Nat /\ r.length \in Nat \ {0}
          /\ Plus(r.offset, r.length) = r.offset + r.length
          /\ r.offset + r.length < 2 * Half
      BY <3>1, RangeEnd
    <3>3. Overlaps(offset, offset + length, r)
            <=> offset < r.offset + r.length /\ r.offset < offset + length
      BY <3>2 DEF Overlaps
    <3> QED BY <2>1, <3>2, <3>3, OverlapIsCommonByte
  <2> QED BY <2>2, <2>3 DEF TestIsExactFor
<1> QED BY <1>1, <1>2

----------------------------------------------------------------------------
(* The ranges that are installed. *)

\* A thread that is installing ranges carries an accepted set of them.
Installing == {"configuring", "attaching", "publishing", "linking", "ranging"}
Accepted(rs) == rs \in SUBSET RawRange /\ RangesAreValid(rs)
RangesInv ==
  /\ DOMAIN at = Threads /\ DOMAIN request = Threads
  /\ ranges # {} => Accepted(ranges)
  /\ \A t \in Threads : at[t] \in Installing => Accepted(request[t])

LEMMA RangesInit == Init => RangesInv
  BY DEF Init, RangesInv, Installing

\* A write, and the unload, leave the ranges and the requests alone; they may wake a poller.
LEMMA WriteFrame ==
  ASSUME NEW w \in Writes, WriteArrives(w) \/ WorkerStep(w)
  PROVE  /\ UNCHANGED <<ranges, request>>
         /\ \/ UNCHANGED at
            \/ \E t \in Blocked : at' = [at EXCEPT ![t] = "polling"]
<1>1. CASE WorkerQueues(w)
  BY <1>1 DEF WorkerQueues, SignalAvailable, diskVars
<1>2. CASE ~WorkerQueues(w)
  BY <1>2 DEF WriteArrives, WorkerStep, Classify, PassThrough, Reserve, AllocationFails,
       QueueWorkItem, WaitEnds, WorkerDecides, WorkerForwards, WorkerFails, WorkerReleases,
       diskVars, threadVars
<1> QED BY <1>1, <1>2

\* Waking pollers, or moving a thread to a place where it installs nothing, keeps RangesInv.
LEMMA MoveKeepsRanges ==
  ASSUME RangesInv, UNCHANGED ranges, NEW t \in Threads, NEW place, place \notin Installing,
         at' = [at EXCEPT ![t] = place],
         DOMAIN request' = Threads, \A u \in Threads \ {t} : request'[u] = request[u]
  PROVE  RangesInv'
  BY DEF RangesInv

LEMMA RangesStep == RangesInv /\ [Next]_vars => RangesInv'
<1> SUFFICES ASSUME RangesInv, [Next]_vars PROVE RangesInv'
  OBVIOUS
<1>1. ASSUME NEW w \in Writes, WriteArrives(w) \/ WorkerStep(w)
      PROVE  RangesInv'
  <2>1. UNCHANGED <<ranges, request>>
    BY <1>1, WriteFrame
  <2>2. CASE UNCHANGED at
    BY <2>1, <2>2 DEF RangesInv
  <2>3. CASE \E t \in Blocked : at' = [at EXCEPT ![t] = "polling"]
    BY <2>1, <2>3, MoveKeepsRanges DEF Blocked, Installing, RangesInv
  <2> QED BY <1>1, <2>2, <2>3, WriteFrame
<1>2. ASSUME NEW t \in Threads, RequestStep(t)
      PROVE  RangesInv'
  <2>1. CASE CheckAttached(t) \/ Attach(t) \/ PublishFilter(t) \/ PublishLower(t)
    BY <2>1 DEF RangesInv, Installing, CheckAttached, Attach, PublishFilter, PublishLower, Move,
         diskVars
  <2>2. CASE SetRanges(t)
    BY <2>2 DEF RangesInv, Installing, SetRanges, Move
  <2>3. CASE Register(t) \/ PollDelivers(t) \/ PollFindsNothing(t) \/ EnterWait(t)
             \/ PollExpires(t)
    <3>1. /\ UNCHANGED <<ranges, request>>
          /\ \E place \in {"idle", "polling", "blocked", "entering"} :
               at' = [at EXCEPT ![t] = place]
      BY <2>3 DEF Register, PollDelivers, PollFindsNothing, EnterWait, PollExpires, Move, diskVars
    <3> QED BY <3>1, MoveKeepsRanges DEF Installing, RangesInv
  <2>4. CASE AttachFails(t) \/ Submit(t)
    BY <2>4, MoveKeepsRanges DEF AttachFails, Submit, Move, Installing, RangesInv, diskVars
  <2>5. CASE Closed(t)
    BY <2>5 DEF Closed, SignalAvailable, Blocked, RangesInv, Installing, diskVars
  <2> QED BY <1>2, <2>1, <2>2, <2>3, <2>4, <2>5 DEF RequestStep
<1>3. ASSUME NEW t \in Threads, ClientStep(t)
      PROVE  RangesInv'
  <2>1. ASSUME NEW rs \in RangeSets, StartConfigure(t, rs)
        PROVE  RangesInv'
    <3>1. Accepted(rs)
      BY <2>1, WritesAssumption DEF StartConfigure, Accepted
    <3> QED BY <2>1, <3>1 DEF StartConfigure, Move, RangesInv, diskVars
  <2>2. ASSUME NEW w \in Writes, NEW d \in {"allow", "block"}, StartSubmit(t, w, d)
        PROVE  RangesInv'
    BY <2>2, MoveKeepsRanges DEF StartSubmit, Move, Installing, RangesInv, diskVars
  <2>3. CASE Open(t)
    BY <2>3 DEF Open, RangesInv, diskVars, threadVars, Installing
  <2>4. CASE StartRegister(t) \/ StartPoll(t) \/ Close(t)
    BY <2>4, MoveKeepsRanges DEF StartRegister, StartPoll, Close, Move, Installing, RangesInv,
         diskVars
  <2> QED BY <1>3, <2>1, <2>2, <2>3, <2>4 DEF ClientStep
<1>4. CASE StartUnload \/ FinishUnload \/ Stopped \/ UNCHANGED vars
  BY <1>4 DEF StartUnload, FinishUnload, Stopped, RangesInv, vars, diskVars, threadVars,
       Installing
<1> QED BY <1>1, <1>2, <1>3, <1>4 DEF Next

\* Whatever CONFIGURE requests are accepted, in whatever order and from whichever threads, a
\* write that starts on the disk is held for the client if and only if it touches a
\* protected byte (BootDispatchWrite's range test).
THEOREM HeldExactly == Spec => []WritesHeldExactly
<1>1. RangesInv => WritesHeldExactly
  <2> SUFFICES ASSUME RangesInv, NEW w \in Writes, WriteOffset[w] >= 0
               PROVE  TestIsExactFor(WriteOffset[w], WriteLength[w], ranges)
    BY DEF WritesHeldExactly
  <2>1. WriteOffset[w] \in Offsets /\ WriteLength[w] \in 0..MaxLength
    BY WritesAssumption
  <2>2. CASE ranges = {}
    <3>1. WriteOffset[w] \in Nat /\ WriteLength[w] \in Nat
          /\ Plus(WriteOffset[w], WriteLength[w]) = WriteOffset[w] + WriteLength[w]
      BY <2>1, WriteEnd
    <3>2. ~(WriteOffset[w] < 0) /\ ~(Plus(WriteOffset[w], WriteLength[w]) < WriteOffset[w])
      BY <3>1
    <3>3. ~Intersects(WriteOffset[w], WriteLength[w], {})
      BY <3>2, Zenon DEF Intersects
    <3> QED BY <2>2, <3>3, Zenon DEF TestIsExactFor
  <2>3. CASE ranges # {}
    BY <2>1, <2>3, TestIsExact DEF RangesInv, Accepted
  <2> QED BY <2>2, <2>3
<1> QED BY <1>1, RangesInit, RangesStep, PTL DEF Spec

----------------------------------------------------------------------------
(* What each kind of step leaves alone. *)

\* A write moves on its own, and answers nobody.
LEMMA WriteLeaves ==
  ASSUME NEW w \in Writes, WriteArrives(w) \/ WorkerStep(w)
  PROVE  UNCHANGED <<client, handles, ranges, stack, filter, lower, unloading, decision,
                     signalled, delivered, allowedBy, request>>
  BY DEF WriteArrives, WorkerStep, Classify, PassThrough, Reserve, AllocationFails,
       QueueWorkItem, WorkerQueues, WaitEnds, WorkerDecides, WorkerForwards, WorkerFails,
       WorkerReleases, sessionVars, diskVars, threadVars

\* A client's request moves no write, and neither does the unload.
LEMMA RequestLeaves ==
  ASSUME NEW t \in Threads, RequestStep(t)
  PROVE  UNCHANGED <<pc, via, outcome, list, count, bytes, zero, unloading, handles>>
  BY DEF RequestStep, Register, CheckAttached, AttachFails, Attach, PublishFilter, PublishLower,
       SetRanges, PollDelivers, PollFindsNothing, EnterWait, PollExpires, Submit, Closed,
       sessionVars, diskVars, budgetVars, writeVars
LEMMA ClientLeaves ==
  ASSUME NEW t \in Threads, ClientStep(t)
  PROVE  UNCHANGED <<pc, via, outcome, list, count, bytes, zero, unloading, available, ranges,
                     stack, filter, lower, delivered, allowedBy>>
  BY DEF ClientStep, Open, StartRegister, StartPoll, Close, StartConfigure, StartSubmit,
       sessionVars, diskVars, budgetVars, writeVars
LEMMA UnloadLeaves ==
  ASSUME StartUnload \/ FinishUnload \/ Stopped \/ UNCHANGED vars
  PROVE  UNCHANGED <<pc, via, outcome, list, count, bytes, zero, ranges, handles, request, at,
                     delivered, allowedBy>>
  BY DEF StartUnload, FinishUnload, Stopped, vars, sessionVars, diskVars, budgetVars, writeVars,
       threadVars

----------------------------------------------------------------------------
(* Types. *)

\* The parts of TypeOK, by who writes them, and the requests the program keeps.
DiskTyped ==
  /\ client \in Pids \cup {NoPid} /\ handles \in [Pids -> 0..MaxHandles]
  /\ ranges \in RangeSets \cup {{}} /\ stack \in Seq(Threads)
  /\ filter \in Threads \cup {NoDevice} /\ lower \in BOOLEAN
  /\ unloading \in {"no", "waiting", "done"}
BudgetTyped == count \in 0..MaxPending /\ bytes \in 0..MaxPendingBytes /\ zero \in BOOLEAN
WritePlaces == {"idle", "dispatched", "passing", "protected", "done", "reserved", "queued",
                "waiting", "woken", "expired", "allowed", "blocking", "releasing"}
Outcomes == {"none", "passed", "forwarded", "blocked", "failed"}
WritesTyped ==
  /\ list \in Seq(Writes) /\ pc \in [Writes -> WritePlaces]
  /\ via \in [Writes -> Threads \cup {NoDevice}] /\ outcome \in [Writes -> Outcomes]
AnswersTyped ==
  /\ decision \in [Writes -> {"allow", "block"}] /\ signalled \in [Writes -> BOOLEAN]
  /\ delivered \in [Writes -> Pids \cup {NoPid}] /\ allowedBy \in [Writes -> Pids \cup {NoPid}]
ThreadPlaces == {"idle", "registering", "configuring", "attaching", "publishing", "linking",
                 "ranging", "polling", "entering", "blocked", "submitting", "closing"}
ThreadsTyped == available \in BOOLEAN /\ at \in [Threads -> ThreadPlaces]
Requests == [write : Writes, decision : {"allow", "block"}]
RequestsTyped ==
  /\ DOMAIN request = Threads
  /\ \A t \in Threads : /\ at[t] \in Installing => request[t] \in RangeSets
                        /\ at[t] = "submitting" => request[t] \in Requests

LEMMA TypeParts ==
  TypeOK <=> DiskTyped /\ BudgetTyped /\ WritesTyped /\ AnswersTyped /\ ThreadsTyped
  BY DEF TypeOK, DiskTyped, BudgetTyped, WritesTyped, AnswersTyped, ThreadsTyped, WritePlaces,
       Outcomes, ThreadPlaces
Typed == TypeOK /\ RequestsTyped
LEMMA TypePartsNext ==
  ASSUME DiskTyped', BudgetTyped', WritesTyped', AnswersTyped', ThreadsTyped'
  PROVE  TypeOK'
  BY DEF TypeOK, DiskTyped, BudgetTyped, WritesTyped, AnswersTyped, ThreadsTyped, WritePlaces,
       Outcomes, ThreadPlaces

LEMMA TypedInit == Init => Typed
<1> SUFFICES ASSUME Init PROVE Typed
  OBVIOUS
<1>1. DiskTyped
  <2>1. ranges \in RangeSets \cup {{}} /\ stack \in Seq(Threads)
    BY DEF Init
  <2>2. client \in Pids \cup {NoPid} /\ handles \in [Pids -> 0..MaxHandles]
    BY LimitAssumption DEF Init
  <2> QED BY <2>1, <2>2 DEF Init, DiskTyped
<1>2. BudgetTyped
  BY LimitAssumption DEF Init, BudgetTyped
<1>3. WritesTyped
  BY DEF Init, WritesTyped, WritePlaces, Outcomes
<1>4. AnswersTyped
  BY DEF Init, AnswersTyped
<1>5. ThreadsTyped /\ RequestsTyped
  BY DEF Init, ThreadsTyped, ThreadPlaces, RequestsTyped, Installing
<1> QED BY <1>1, <1>2, <1>3, <1>4, <1>5, TypeParts DEF Typed

\* A write's places.
LEMMA GoToTyped ==
  ASSUME NEW w \in Writes, NEW place \in WritePlaces, pc \in [Writes -> WritePlaces],
         GoTo(w, place)
  PROVE  pc' \in [Writes -> WritePlaces]
  BY DEF GoTo
LEMMA FinishTyped ==
  ASSUME NEW w \in Writes, NEW result \in Outcomes, WritesTyped, Finish(w, result)
  PROVE  pc' \in [Writes -> WritePlaces] /\ outcome' \in [Writes -> Outcomes]
  BY DEF Finish, GoTo, WritesTyped, WritePlaces

LEMMA WriteTyped ==
  ASSUME Typed, NEW w \in Writes, WriteArrives(w) \/ WorkerStep(w)
  PROVE  BudgetTyped' /\ WritesTyped'
<1>0. BudgetTyped /\ WritesTyped /\ DiskTyped
  BY TypeParts DEF Typed
<1>1. CASE WriteArrives(w)
  <2>1. Last(stack) \in Threads
    BY <1>0, <1>1 DEF WriteArrives, Last, DiskTyped
  <2>2. via' \in [Writes -> Threads \cup {NoDevice}]
    BY <1>0, <1>1, <2>1 DEF WriteArrives, WritesTyped
  <2>3. pc' \in [Writes -> WritePlaces] /\ outcome' \in [Writes -> Outcomes]
    BY <1>0, <1>1, FinishTyped, GoToTyped DEF WriteArrives, WritesTyped, WritePlaces, Outcomes
  <2> QED BY <1>0, <1>1, <2>2, <2>3 DEF WriteArrives, WritesTyped, BudgetTyped, budgetVars
<1>2. CASE Classify(w) \/ PassThrough(w) \/ WaitEnds(w) \/ WorkerForwards(w) \/ WorkerFails(w)
           \/ QueueWorkItem(w)
  <2>1. UNCHANGED <<list, via, count, bytes, zero>>
    BY <1>2 DEF Classify, PassThrough, WaitEnds, WorkerForwards, WorkerFails, QueueWorkItem,
         budgetVars
  <2>2. pc' \in [Writes -> WritePlaces] /\ outcome' \in [Writes -> Outcomes]
    BY <1>0, <1>2 DEF Classify, PassThrough, WaitEnds, WorkerForwards, WorkerFails,
         QueueWorkItem, WritesTyped, WritePlaces, Outcomes, GoTo, Finish, EndOfWait
  <2> QED BY <1>0, <2>1, <2>2 DEF WritesTyped, BudgetTyped
<1>3. WriteLength[w] \in Nat
  BY WritesAssumption, WidthAssumption
<1>4. CASE Reserve(w)
  <2>1. pc' \in [Writes -> WritePlaces] /\ outcome' \in [Writes -> Outcomes]
    BY <1>0, <1>4 DEF Reserve, WritesTyped, WritePlaces, Outcomes, GoTo, Finish
  <2>2. BudgetTyped'
    <3>1. \/ UNCHANGED <<count, bytes>>
          \/ /\ count < MaxPending /\ bytes <= MaxPendingBytes - WriteLength[w]
             /\ count' = count + 1 /\ bytes' = bytes + WriteLength[w]
      BY <1>4 DEF Reserve, HasRoom, budgetVars
    <3>2. count \in 0..MaxPending /\ bytes \in 0..MaxPendingBytes /\ zero \in BOOLEAN
      BY <1>0 DEF BudgetTyped
    <3>3. zero' \in BOOLEAN
      BY <1>4, <3>2 DEF Reserve, budgetVars
    <3>4. count' \in 0..MaxPending /\ bytes' \in 0..MaxPendingBytes
      BY <1>3, <3>1, <3>2, LimitAssumption
    <3> QED BY <3>3, <3>4 DEF BudgetTyped
  <2> QED BY <1>0, <1>4, <2>1, <2>2 DEF Reserve, WritesTyped
<1>5. CASE AllocationFails(w) \/ WorkerReleases(w)
  <2>1. pc' \in [Writes -> WritePlaces] /\ outcome' \in [Writes -> Outcomes]
    BY <1>0, <1>5 DEF AllocationFails, WorkerReleases, WritesTyped, WritePlaces, Outcomes, GoTo,
         Finish
  <2>2. Release(w)
    BY <1>5 DEF AllocationFails, WorkerReleases
  <2>3. BudgetTyped'
    BY <1>0, <1>3, <2>2, LimitAssumption DEF Release, BudgetTyped
  <2> QED BY <1>0, <1>5, <2>1, <2>3 DEF AllocationFails, WorkerReleases, WritesTyped
<1>6. CASE WorkerQueues(w) \/ WorkerDecides(w)
  <2>1. pc' \in [Writes -> WritePlaces]
    BY <1>0, <1>6 DEF WorkerQueues, WorkerDecides, WritesTyped, WritePlaces, GoTo
  <2>2. list' \in Seq(Writes)
    <3>1. RemoveFirst(list, w) \in Seq(Writes)
      BY <1>0, RemoveFirstIsSeq DEF WritesTyped
    <3>2. \/ list' = Append(list, w) \/ UNCHANGED list \/ list' = RemoveFirst(list, w)
      BY <1>6 DEF WorkerQueues, WorkerDecides, Unlinked
    <3>3. list \in Seq(Writes)
      BY <1>0 DEF WritesTyped
    <3>4. Append(list, w) \in Seq(Writes)
      BY <3>3
    <3> QED BY <3>1, <3>2, <3>3, <3>4
  <2> QED BY <1>0, <1>6, <2>1, <2>2
       DEF WorkerQueues, WorkerDecides, WritesTyped, BudgetTyped, budgetVars
<1> QED BY <1>1, <1>2, <1>4, <1>5, <1>6 DEF WorkerStep

\* A client's request, step by step.
LEMMA RequestTyped ==
  ASSUME Typed, NEW t \in Threads, RequestStep(t)
  PROVE  DiskTyped' /\ AnswersTyped' /\ ThreadsTyped' /\ RequestsTyped'
<1>0. DiskTyped /\ AnswersTyped /\ ThreadsTyped /\ RequestsTyped /\ list \in Seq(Writes)
      /\ Owner[t] \in Pids
  BY TypeParts, ClientAssumption DEF Typed, WritesTyped
<1>1. CASE Register(t)
  BY <1>0, <1>1 DEF Register, Move, DiskTyped, AnswersTyped, ThreadsTyped, ThreadPlaces,
       RequestsTyped, Installing, diskVars, writeVars
<1>2. CASE CheckAttached(t) \/ AttachFails(t) \/ Attach(t)
  <2>0. stack \in Seq(Threads) /\ stack' \in {stack, Append(stack, t)}
        /\ UNCHANGED <<client, handles, ranges, filter, lower, unloading, writeVars>>
    BY <1>0, <1>2 DEF CheckAttached, AttachFails, Attach, DiskTyped, sessionVars, diskVars
  <2>1. AnswersTyped' /\ DiskTyped'
    <3>1. stack' \in Seq(Threads)
      BY <2>0
    <3> QED BY <1>0, <2>0, <3>1 DEF DiskTyped, AnswersTyped, writeVars
  <2>2. ThreadsTyped' /\ RequestsTyped'
    BY <1>0, <1>2 DEF CheckAttached, AttachFails, Attach, Move, ThreadsTyped, ThreadPlaces,
         RequestsTyped, Installing
  <2> QED BY <2>1, <2>2
<1>3. CASE PublishFilter(t) \/ PublishLower(t) \/ SetRanges(t)
  BY <1>0, <1>3 DEF PublishFilter, PublishLower, SetRanges, Move, DiskTyped, AnswersTyped,
       ThreadsTyped, ThreadPlaces, RequestsTyped, Installing, sessionVars, diskVars, writeVars
<1>4. CASE PollDelivers(t)
  BY <1>0, <1>4 DEF PollDelivers, Undelivered, Move, DiskTyped, AnswersTyped,
       ThreadsTyped, ThreadPlaces, RequestsTyped, Installing, sessionVars, diskVars, writeVars
<1>5. CASE PollFindsNothing(t) \/ EnterWait(t) \/ PollExpires(t)
  BY <1>0, <1>5 DEF PollFindsNothing, EnterWait, PollExpires, Move, DiskTyped, AnswersTyped,
       ThreadsTyped, ThreadPlaces, RequestsTyped, Installing, sessionVars, diskVars, writeVars
<1>6. CASE Submit(t)
  <2>1. request[t] \in Requests /\ request[t].write \in Writes
        /\ request[t].decision \in {"allow", "block"}
    BY <1>0, <1>6 DEF Submit, RequestsTyped, Requests
  <2>2. AnswersTyped'
    BY <1>0, <1>6, <2>1 DEF Submit, AnswersTyped, DiskTyped
  <2> QED BY <1>0, <1>6, <2>2 DEF Submit, Move, DiskTyped, ThreadsTyped, ThreadPlaces,
       RequestsTyped, Installing, sessionVars, diskVars
<1>7. CASE Closed(t)
  BY <1>0, <1>7 DEF Closed, SignalAvailable, Blocked, DiskTyped, AnswersTyped,
       ThreadsTyped, ThreadPlaces, RequestsTyped, Installing, sessionVars, diskVars, writeVars
<1> QED BY <1>1, <1>2, <1>3, <1>4, <1>5, <1>6, <1>7 DEF RequestStep

LEMMA ClientTyped ==
  ASSUME Typed, NEW t \in Threads, ClientStep(t)
  PROVE  DiskTyped' /\ AnswersTyped' /\ ThreadsTyped' /\ RequestsTyped'
<1>0. DiskTyped /\ AnswersTyped /\ ThreadsTyped /\ RequestsTyped /\ Owner[t] \in Pids
  BY TypeParts, ClientAssumption DEF Typed
<1>1. CASE Open(t) \/ StartRegister(t) \/ StartPoll(t)
  <2>0. /\ UNCHANGED <<client, diskVars, writeVars>>
        /\ \/ UNCHANGED handles
           \/ handles[Owner[t]] < MaxHandles /\ handles' = [handles EXCEPT ![Owner[t]] = @ + 1]
    BY <1>1 DEF Open, StartRegister, StartPoll, sessionVars
  <2>1. AnswersTyped' /\ DiskTyped'
    <3>1. handles \in [Pids -> 0..MaxHandles]
      BY <1>0 DEF DiskTyped
    <3>2. handles' \in [Pids -> 0..MaxHandles]
      BY <1>0, <2>0, <3>1, LimitAssumption
    <3> QED BY <1>0, <2>0, <3>2 DEF DiskTyped, AnswersTyped, diskVars, writeVars
  <2>2. ThreadsTyped' /\ RequestsTyped'
    BY <1>0, <1>1 DEF Open, StartRegister, StartPoll, Move, ThreadsTyped, ThreadPlaces,
         RequestsTyped, Installing, threadVars
  <2> QED BY <2>1, <2>2
<1>2. CASE Close(t)
  <2>1. AnswersTyped'
    BY <1>0, <1>2 DEF Close, Disconnect, AnswersTyped
  <2>2. DiskTyped'
    <3>1. handles \in [Pids -> 0..MaxHandles] /\ handles[Owner[t]] > 0
          /\ handles' = [handles EXCEPT ![Owner[t]] = @ - 1]
      BY <1>0, <1>2 DEF Close, Issues, DiskTyped
    <3>2. handles' \in [Pids -> 0..MaxHandles]
      BY <1>0, <3>1, LimitAssumption
    <3>3. client' \in {client, NoPid} /\ UNCHANGED diskVars
      BY <1>2 DEF Close, Disconnect
    <3> QED BY <1>0, <3>2, <3>3 DEF DiskTyped, diskVars
  <2>3. ThreadsTyped' /\ RequestsTyped'
    BY <1>0, <1>2 DEF Close, Move, ThreadsTyped, ThreadPlaces, RequestsTyped, Installing
  <2> QED BY <2>1, <2>2, <2>3
<1>3. ASSUME NEW rs \in RangeSets, StartConfigure(t, rs)
      PROVE  DiskTyped' /\ AnswersTyped' /\ ThreadsTyped' /\ RequestsTyped'
  BY <1>0, <1>3 DEF StartConfigure, Move, DiskTyped, AnswersTyped, ThreadsTyped, ThreadPlaces,
       RequestsTyped, Installing, sessionVars, diskVars, writeVars
<1>4. ASSUME NEW w \in Writes, NEW d \in {"allow", "block"}, StartSubmit(t, w, d)
      PROVE  DiskTyped' /\ AnswersTyped' /\ ThreadsTyped' /\ RequestsTyped'
  <2>1. RequestsTyped'
    BY <1>0, <1>4 DEF StartSubmit, Move, ThreadsTyped, RequestsTyped, Installing, Requests
  <2> QED BY <1>0, <1>4, <2>1 DEF StartSubmit, Move, DiskTyped, AnswersTyped, ThreadsTyped,
       ThreadPlaces, sessionVars, diskVars, writeVars
<1> QED BY <1>1, <1>2, <1>3, <1>4 DEF ClientStep

LEMMA UnloadTyped ==
  ASSUME Typed, StartUnload \/ FinishUnload \/ Stopped \/ UNCHANGED vars
  PROVE  DiskTyped' /\ AnswersTyped' /\ ThreadsTyped' /\ RequestsTyped'
<1>0. DiskTyped /\ AnswersTyped /\ ThreadsTyped /\ RequestsTyped
  BY TypeParts DEF Typed
<1>1. UNCHANGED <<ranges, handles, request, at, delivered, allowedBy>>
  BY UnloadLeaves
<1>2. RequestsTyped'
  BY <1>0, <1>1 DEF RequestsTyped
<1>3. AnswersTyped' /\ ThreadsTyped'
  BY <1>0, <1>1 DEF StartUnload, FinishUnload, Stopped, Disconnect, AnswersTyped, ThreadsTyped,
       vars, writeVars
<1>4. stack' \in Seq(Threads)
  BY <1>0, RemoveFirstIsSeq DEF DiskTyped, StartUnload, FinishUnload, Stopped, vars, diskVars
<1>5. /\ client' \in Pids \cup {NoPid} /\ filter' \in Threads \cup {NoDevice}
      /\ lower' \in BOOLEAN /\ unloading' \in {"no", "waiting", "done"}
  BY <1>0 DEF DiskTyped, StartUnload, FinishUnload, Stopped, Disconnect, vars, diskVars,
       sessionVars
<1> QED BY <1>0, <1>1, <1>2, <1>3, <1>4, <1>5 DEF DiskTyped

LEMMA TypedStep == Typed /\ [Next]_vars => Typed'
<1> SUFFICES ASSUME Typed, [Next]_vars PROVE Typed'
  OBVIOUS
<1>0. DiskTyped /\ BudgetTyped /\ WritesTyped /\ AnswersTyped /\ ThreadsTyped /\ RequestsTyped
  BY TypeParts DEF Typed
<1>1. ASSUME NEW w \in Writes, WriteArrives(w) \/ WorkerStep(w) PROVE Typed'
  <2>1. BudgetTyped' /\ WritesTyped'
    BY <1>1, WriteTyped
  <2>2. DiskTyped' /\ AnswersTyped'
    BY <1>0, <1>1, WriteLeaves DEF DiskTyped, AnswersTyped
  <2>3. ThreadsTyped'
    BY <1>0, <1>1 DEF WriteArrives, WorkerStep, Classify, PassThrough, Reserve, AllocationFails,
       QueueWorkItem, WorkerQueues, WaitEnds, WorkerDecides, WorkerForwards, WorkerFails,
       WorkerReleases, threadVars, ThreadsTyped, ThreadPlaces, SignalAvailable, Blocked
  <2>4. RequestsTyped'
    BY <1>0, <1>1, WriteFrame DEF RequestsTyped, ThreadsTyped, Blocked, Installing
  <2> QED BY <2>1, <2>2, <2>3, <2>4, TypePartsNext DEF Typed
<1>2. ASSUME NEW t \in Threads, RequestStep(t) \/ ClientStep(t) PROVE Typed'
  <2>1. BudgetTyped' /\ WritesTyped'
    BY <1>0, <1>2, RequestLeaves, ClientLeaves DEF BudgetTyped, WritesTyped
  <2>2. DiskTyped' /\ AnswersTyped' /\ ThreadsTyped' /\ RequestsTyped'
    BY <1>2, RequestTyped, ClientTyped
  <2> QED BY <2>1, <2>2, TypePartsNext DEF Typed
<1>3. CASE StartUnload \/ FinishUnload \/ Stopped \/ UNCHANGED vars
  <2>1. BudgetTyped' /\ WritesTyped'
    BY <1>0, <1>3, UnloadLeaves DEF BudgetTyped, WritesTyped
  <2>2. DiskTyped' /\ AnswersTyped' /\ ThreadsTyped' /\ RequestsTyped'
    BY <1>3, UnloadTyped
  <2> QED BY <2>1, <2>2, TypePartsNext DEF Typed
<1> QED BY <1>1, <1>2, <1>3 DEF Next

\* Every variable keeps its type, with the counters within the limits, whatever the writes,
\* the clients and the unload do.
THEOREM TypeCorrect == Spec => []TypeOK
<1>1. Typed => TypeOK
  BY DEF Typed
<1> QED BY <1>1, TypedInit, TypedStep, PTL DEF Spec

----------------------------------------------------------------------------
(* The list of pending writes. *)

Linked == {"waiting", "woken", "expired"}
ListInv == Distinct(list) /\ \A w \in Writes : Has(list, w) <=> pc[w] \in Linked

LEMMA ListParts == ListSound <=> ListInv
  BY DEF ListSound, StillLinked, ListInv, Distinct, Has, Linked

LEMMA ListInit == Init => ListInv
  BY DEF Init, ListInv, Distinct, Has, Linked

\* A write is linked when its worker has queued it, and unlinked when it has decided.
LEMMA ListWrite ==
  ASSUME Typed, ListInv, NEW w \in Writes, WriteArrives(w) \/ WorkerStep(w)
  PROVE  ListInv'
<1>0. list \in Seq(Writes) /\ pc \in [Writes -> WritePlaces] /\ Distinct(list)
  BY TypeParts DEF Typed, WritesTyped, ListInv
<1>1. CASE WorkerQueues(w)
  <2>1. pc[w] = "queued" /\ ~Has(list, w)
    BY <1>1 DEF WorkerQueues, ListInv, Linked
  <2>2. CASE Serving
    <3>1. list' = Append(list, w) /\ pc' = [pc EXCEPT ![w] = "waiting"]
      BY <1>1, <2>2 DEF WorkerQueues, GoTo
    <3>2. Distinct(list') /\ \A x : Has(list', x) <=> (x = w \/ Has(list, x))
      BY <1>0, <2>1, <3>1, AppendKeeps DEF Distinct, Has
    <3> QED BY <1>0, <3>1, <3>2 DEF ListInv, Linked
  <2>3. CASE ~Serving
    <3>1. UNCHANGED list /\ pc' = [pc EXCEPT ![w] = "blocking"]
      BY <1>1, <2>3 DEF WorkerQueues, GoTo
    <3> QED BY <1>0, <2>1, <3>1 DEF ListInv, Linked, Distinct, Has
  <2> QED BY <2>2, <2>3
<1>2. CASE WorkerDecides(w)
  <2>1. list' = RemoveFirst(list, w) /\ \E p \in {"allowed", "blocking"} :
          pc' = [pc EXCEPT ![w] = p]
    BY <1>2 DEF WorkerDecides, Unlinked, GoTo
  <2>2. Distinct(list') /\ \A x : Has(list', x) <=> (Has(list, x) /\ x # w)
    <3>1. /\ Distinct(RemoveFirst(list, w))
          /\ \A x : Has(RemoveFirst(list, w), x) <=> (Has(list, x) /\ x # w)
      BY <1>0, RemoveFirstKeeps
    <3> QED BY <2>1, <3>1
  <2> QED BY <1>0, <2>1, <2>2 DEF ListInv, Linked
<1>3. CASE ~WorkerQueues(w) /\ ~WorkerDecides(w)
  <2>1. UNCHANGED list
    BY <1>3 DEF WriteArrives, WorkerStep, Classify, PassThrough, Reserve, AllocationFails,
       QueueWorkItem, WaitEnds, WorkerForwards, WorkerFails, WorkerReleases
  <2>2. \E p \in WritePlaces : pc' = [pc EXCEPT ![w] = p] /\ (p \in Linked <=> pc[w] \in Linked)
    BY <1>3 DEF WriteArrives, WorkerStep, Classify, PassThrough, Reserve, AllocationFails,
       QueueWorkItem, WaitEnds, WorkerForwards, WorkerFails, WorkerReleases, GoTo, Finish,
       WritePlaces, Linked, EndOfWait
  <2> QED BY <1>0, <2>1, <2>2 DEF ListInv, Distinct, Has
<1> QED BY <1>1, <1>2, <1>3

LEMMA ListStep == Typed /\ ListInv /\ [Next]_vars => ListInv'
<1> SUFFICES ASSUME Typed, ListInv, [Next]_vars PROVE ListInv'
  OBVIOUS
<1>1. ASSUME NEW t \in Threads, RequestStep(t) \/ ClientStep(t) PROVE ListInv'
  BY <1>1, RequestLeaves, ClientLeaves DEF ListInv, Distinct, Has
<1>2. CASE StartUnload \/ FinishUnload \/ Stopped \/ UNCHANGED vars
  BY <1>2, UnloadLeaves DEF ListInv, Distinct, Has
<1> QED BY <1>1, <1>2, ListWrite DEF Next

\* PendingWrites never names a write twice nor one whose worker has gone, through any
\* number of answers, time-outs and disconnects.
THEOREM ListCorrect == Spec => []ListSound
<1>1. ListInv => ListSound
  BY ListParts
<1> QED BY <1>1, TypedInit, TypedStep, ListInit, ListStep, PTL DEF Spec

----------------------------------------------------------------------------
(* The reservations. *)

HoldingPlaces == {"reserved", "queued", "waiting", "woken", "expired", "allowed", "blocking",
                  "releasing"}
ReservationInv ==
  /\ IsFiniteSet(Holding) /\ count = Cardinality(Holding) /\ bytes = Total(WriteLength, Holding)
  /\ zero <=> count = 0
  /\ UnloadDrains

LEMMA HoldingIs == Holding = {w \in Writes : pc[w] \in HoldingPlaces}
  BY DEF Holding, HoldingPlaces
LEMMA HoldingIsNext == Holding' = {w \in Writes : pc'[w] \in HoldingPlaces}
  BY DEF Holding, HoldingPlaces
LEMMA LengthNatural == \A S \in SUBSET Writes : Natural(WriteLength, S)
<1>1. \A w \in Writes : WriteLength[w] \in Nat
  BY WritesAssumption, WidthAssumption
<1> QED BY <1>1 DEF Natural

LEMMA ReservationParts == ReservationInv => ReservationSound
  BY DEF ReservationInv, ReservationSound, ReservationExact, Total

LEMMA ReservationInit == Init => ReservationInv
<1> SUFFICES ASSUME Init PROVE ReservationInv
  OBVIOUS
<1>1. Holding = {} /\ count = 0 /\ bytes = 0 /\ zero
  BY DEF Init, Holding
<1> QED BY <1>1, FS_EmptySet, TotalEmpty DEF ReservationInv, UnloadDrains

\* A write that does not reserve or release keeps its place and its bytes.
LEMMA ReservationKept ==
  ASSUME ReservationInv, UNCHANGED <<count, bytes, zero>>, Holding' = Holding,
         UnloadDrains'
  PROVE  ReservationInv'
  BY DEF ReservationInv

LEMMA ReservationWrite ==
  ASSUME Typed, ReservationInv, NEW w \in Writes, WriteArrives(w) \/ WorkerStep(w)
  PROVE  ReservationInv'
<1>0. pc \in [Writes -> WritePlaces] /\ UNCHANGED unloading /\ zero \in BOOLEAN
  BY TypeParts, WriteLeaves DEF Typed, WritesTyped, BudgetTyped
<1>1. WriteLength[w] \in Nat /\ Holding \subseteq Writes
  BY WritesAssumption, WidthAssumption DEF Holding
<1>2. count \in Nat /\ count = Cardinality(Holding)
      /\ bytes \in Nat /\ bytes = Total(WriteLength, Holding) /\ IsFiniteSet(Holding)
      /\ (zero <=> count = 0) /\ UnloadDrains
  <2>1. Natural(WriteLength, Holding)
    BY <1>1, LengthNatural
  <2> QED BY <2>1, FS_CardinalityType, TotalNat DEF ReservationInv
<1>3. CASE Reserve(w) /\ Serving /\ HasRoom(w)
  <2>1. /\ pc[w] = "protected" /\ pc' = [pc EXCEPT ![w] = "reserved"]
        /\ count' = count + 1 /\ bytes' = bytes + WriteLength[w]
        /\ zero' = IF count + 1 = 1 THEN FALSE ELSE zero
    BY <1>3 DEF Reserve, GoTo
  <2>2. w \notin Holding /\ Holding' = Holding \cup {w}
    BY <1>0, <2>1, HoldingIs, HoldingIsNext DEF HoldingPlaces
  <2>3. IsFiniteSet(Holding') /\ Cardinality(Holding') = count + 1
    BY <1>2, <2>2, FS_AddElement
  <2>4. Total(WriteLength, Holding') = WriteLength[w] + Total(WriteLength, Holding)
    <3>1. Natural(WriteLength, Holding \cup {w})
      BY <1>1, LengthNatural
    <3> QED BY <1>2, <2>2, <3>1, TotalAdd
  <2>5. count' = Cardinality(Holding')
    BY <2>1, <2>3
  <2>6. bytes' = Total(WriteLength, Holding')
    BY <1>1, <1>2, <2>1, <2>4
  <2>7. zero' <=> count' = 0
    BY <1>2, <2>1
  <2>8. UnloadDrains'
    BY <1>0, <1>3 DEF UnloadDrains, Serving
  <2> QED BY <2>3, <2>5, <2>6, <2>7, <2>8 DEF ReservationInv
<1>4. CASE AllocationFails(w) \/ WorkerReleases(w)
  <2>1. pc[w] \in {"reserved", "releasing"} /\ pc' = [pc EXCEPT ![w] = "done"] /\ Release(w)
    BY <1>4 DEF AllocationFails, WorkerReleases, Finish, GoTo
  <2>2. w \in Holding /\ Holding' = Holding \ {w}
    BY <1>0, <2>1, HoldingIs, HoldingIsNext DEF HoldingPlaces
  <2>3. IsFiniteSet(Holding') /\ Cardinality(Holding') = count - 1 /\ count # 0
    BY <1>2, <2>2, FS_RemoveElement, FS_EmptySet
  <2>4. /\ Total(WriteLength, Holding) = WriteLength[w] + Total(WriteLength, Holding')
        /\ Total(WriteLength, Holding') \in Nat
    <3>1. Natural(WriteLength, Holding)
      BY <1>1, LengthNatural
    <3> QED BY <1>2, <2>2, <3>1, TotalRemove
  <2>5. count' = count - 1 /\ bytes' = bytes - WriteLength[w] /\ zero' = (zero \/ count' = 0)
    BY <1>1, <1>2, <2>1, <2>3, <2>4 DEF Release
  <2>6. count' = Cardinality(Holding') /\ bytes' = Total(WriteLength, Holding')
    BY <1>1, <1>2, <2>3, <2>4, <2>5
  <2>7. zero' <=> count' = 0
    BY <1>2, <2>3, <2>5
  <2>8. UnloadDrains'
    BY <1>0, <1>2, <2>2 DEF UnloadDrains
  <2> QED BY <2>3, <2>6, <2>7, <2>8 DEF ReservationInv
<1>5. CASE ~(Reserve(w) /\ Serving /\ HasRoom(w)) /\ ~AllocationFails(w) /\ ~WorkerReleases(w)
  <2>1. UNCHANGED <<count, bytes, zero>>
    BY <1>5 DEF WriteArrives, WorkerStep, Classify, PassThrough, Reserve, WorkerQueues,
       QueueWorkItem, WaitEnds, WorkerDecides, WorkerForwards, WorkerFails, budgetVars
  <2>2. \E p \in WritePlaces :
          pc' = [pc EXCEPT ![w] = p] /\ (p \in HoldingPlaces <=> pc[w] \in HoldingPlaces)
    BY <1>5 DEF WriteArrives, WorkerStep, Classify, PassThrough, Reserve, WorkerQueues,
       QueueWorkItem, WaitEnds, WorkerDecides, WorkerForwards, WorkerFails, GoTo, Finish,
       WritePlaces, HoldingPlaces, EndOfWait
  <2>3. Holding' = Holding
    BY <1>0, <2>2, HoldingIs, HoldingIsNext
  <2>4. UnloadDrains'
    BY <1>0, <1>2, <2>3 DEF UnloadDrains
  <2> QED BY <2>1, <2>3, <2>4, ReservationKept
<1> QED BY <1>3, <1>4, <1>5

LEMMA ReservationStep == Typed /\ ReservationInv /\ [Next]_vars => ReservationInv'
<1> SUFFICES ASSUME Typed, ReservationInv, [Next]_vars PROVE ReservationInv'
  OBVIOUS
<1>1. ASSUME NEW t \in Threads, RequestStep(t) \/ ClientStep(t) PROVE ReservationInv'
  <2>1. UNCHANGED <<pc, count, bytes, zero, unloading>>
    BY <1>1, RequestLeaves, ClientLeaves
  <2>2. Holding' = Holding
    BY <2>1 DEF Holding
  <2>3. UnloadDrains'
    BY <2>1, <2>2 DEF ReservationInv, UnloadDrains
  <2> QED BY <2>1, <2>2, <2>3, ReservationKept
<1>2. CASE StartUnload \/ FinishUnload \/ Stopped \/ UNCHANGED vars
  <2>1. UNCHANGED <<pc, count, bytes, zero>>
    BY <1>2, UnloadLeaves
  <2>2. Holding' = Holding
    BY <2>1 DEF Holding
  <2>3. UnloadDrains'
    <3>1. CASE FinishUnload
      <4>1. Cardinality(Holding) = 0 /\ IsFiniteSet(Holding)
        BY <3>1 DEF FinishUnload, MayDetach, ReservationInv
      <4>2. Holding = {}
        BY <4>1, FS_EmptySet
      <4> QED BY <2>2, <4>2 DEF UnloadDrains
    <3>2. CASE StartUnload \/ Stopped \/ UNCHANGED vars
      BY <2>2, <3>2 DEF StartUnload, Stopped, vars, diskVars, ReservationInv, UnloadDrains
    <3> QED BY <1>2, <3>1, <3>2
  <2> QED BY <2>1, <2>2, <2>3, ReservationKept
<1> QED BY <1>1, <1>2, ReservationWrite DEF Next

\* The counters are exact in every state: no admission, failed allocation, release or unload
\* loses or repeats a place, the bytes are the sum of the held writes' lengths, and the
\* device is detached only when no write is held.
THEOREM ReservationCorrect == Spec => []ReservationSound
  BY ReservationParts, TypedInit, TypedStep, ReservationInit, ReservationStep, PTL DEF Spec

----------------------------------------------------------------------------
(* The end of a session, and of the driver. *)

\* No thread is at work once the unload has begun, and there is no session.
Quiet == unloading # "no" => /\ client = NoPid /\ \A p \in Pids : handles[p] = 0
                             /\ \A t \in Threads : at[t] = "idle"

LEMMA QuietInit == Init => Quiet
  BY DEF Init, Quiet

LEMMA QuietStep == Typed /\ Quiet /\ [Next]_vars => Quiet'
<1> SUFFICES ASSUME Typed, Quiet, [Next]_vars PROVE Quiet'
  OBVIOUS
<1>1. ASSUME NEW w \in Writes, WriteArrives(w) \/ WorkerStep(w) PROVE Quiet'
  BY <1>1, WriteLeaves, WriteFrame DEF Quiet, Blocked
<1>2. ASSUME NEW t \in Threads, RequestStep(t) PROVE Quiet'
  <2>1. unloading = "no"
    BY <1>2 DEF RequestStep, Register, CheckAttached, AttachFails, Attach, PublishFilter,
         PublishLower, SetRanges, PollDelivers, PollFindsNothing, EnterWait, PollExpires, Submit,
         Closed, Quiet
  <2> QED BY <1>2, <2>1, RequestLeaves DEF Quiet
<1>3. ASSUME NEW t \in Threads, ClientStep(t) PROVE Quiet'
  <2>0. Owner[t] \in Pids
    BY ClientAssumption
  <2>1. unloading = "no"
    BY <1>3, <2>0 DEF ClientStep, Open, StartRegister, StartPoll, Close, StartConfigure,
         StartSubmit, Admits, Issues, Loaded, Quiet
  <2> QED BY <1>3, <2>1, ClientLeaves DEF Quiet
<1>4. CASE StartUnload
  BY <1>4 DEF StartUnload, Quiet, Disconnect, threadVars
<1>5. CASE FinishUnload \/ Stopped \/ UNCHANGED vars
  BY <1>5 DEF FinishUnload, Stopped, vars, sessionVars, diskVars, threadVars, Quiet
<1> QED BY <1>1, <1>2, <1>3, <1>4, <1>5 DEF Next

----------------------------------------------------------------------------
(* Nobody waits for an answer that no client can give. *)

AwaitInv == client = NoPid => \A w \in Writes : Has(list, w) => signalled[w]

LEMMA AwaitParts == AwaitInv => NobodyAwaited
  BY DEF AwaitInv, NobodyAwaited, StillLinked, Has
LEMMA AwaitInit == Init => AwaitInv
  BY DEF Init, AwaitInv, Has

\* The end of a session signals each listed write.
LEMMA DisconnectSignals ==
  ASSUME Typed, Disconnect, UNCHANGED list
  PROVE  AwaitInv'
  BY DEF Disconnect, Listed, StillLinked, AwaitInv, Has

LEMMA AwaitStep == Typed /\ ListInv /\ AwaitInv /\ [Next]_vars => AwaitInv'
<1> SUFFICES ASSUME Typed, ListInv, AwaitInv, [Next]_vars PROVE AwaitInv'
  OBVIOUS
<1>0. list \in Seq(Writes) /\ Distinct(list) /\ signalled \in [Writes -> BOOLEAN]
  BY TypeParts DEF Typed, WritesTyped, AnswersTyped, ListInv
<1>1. ASSUME NEW w \in Writes, WriteArrives(w) \/ WorkerStep(w) PROVE AwaitInv'
  <2>1. UNCHANGED <<client, signalled>>
    BY <1>1, WriteLeaves
  <2>2. CASE WorkerQueues(w)
    <3>1. Serving \/ UNCHANGED list
      BY <2>2 DEF WorkerQueues
    <3> QED BY <2>1, <3>1 DEF Serving, AwaitInv, Has
  <2>3. CASE WorkerDecides(w)
    <3>1. list' = RemoveFirst(list, w)
      BY <2>3 DEF WorkerDecides, Unlinked
    <3>2. \A x : Has(RemoveFirst(list, w), x) => Has(list, x)
      BY <1>0, RemoveFirstKeeps
    <3>3. \A x : Has(list', x) => Has(list, x)
      BY <3>1, <3>2
    <3> QED BY <2>1, <3>3 DEF AwaitInv
  <2>4. CASE ~WorkerQueues(w) /\ ~WorkerDecides(w)
    <3>1. UNCHANGED list
      BY <1>1, <2>4 DEF WriteArrives, WorkerStep, Classify, PassThrough, Reserve,
           AllocationFails, QueueWorkItem, WaitEnds, WorkerForwards, WorkerFails, WorkerReleases
    <3> QED BY <2>1, <3>1 DEF AwaitInv, Has
  <2> QED BY <2>2, <2>3, <2>4
<1>2. ASSUME NEW t \in Threads, RequestStep(t) PROVE AwaitInv'
  <2>0. UNCHANGED list /\ Owner[t] # NoPid
    BY <1>2, RequestLeaves, ClientAssumption
  <2>1. CASE Submit(t)
    <3>1. request[t].write \in Writes /\ UNCHANGED client
      BY <2>1 DEF Submit, Typed, RequestsTyped, Requests, sessionVars
    <3>2. \A w \in Writes : signalled[w] => signalled'[w]
      BY <1>0, <2>1, <3>1 DEF Submit
    <3> QED BY <2>0, <3>1, <3>2 DEF AwaitInv, Has
  <2>2. CASE ~Submit(t)
    <3>1. UNCHANGED signalled /\ client' \in {client, Owner[t]}
      BY <1>2, <2>2 DEF RequestStep, Register, CheckAttached, AttachFails, Attach, PublishFilter,
           PublishLower, SetRanges, PollDelivers, PollFindsNothing, EnterWait, PollExpires,
           Closed, sessionVars, writeVars
    <3> QED BY <2>0, <3>1 DEF AwaitInv, Has
  <2> QED BY <2>1, <2>2
<1>3. ASSUME NEW t \in Threads, ClientStep(t) PROVE AwaitInv'
  <2>0. UNCHANGED list
    BY <1>3, ClientLeaves
  <2>1. Disconnect \/ UNCHANGED <<client, signalled>>
    BY <1>3 DEF ClientStep, Open, StartRegister, StartPoll, Close, StartConfigure, StartSubmit,
         sessionVars, writeVars
  <2> QED BY <2>0, <2>1, DisconnectSignals DEF AwaitInv, Has
<1>4. CASE StartUnload \/ FinishUnload \/ Stopped \/ UNCHANGED vars
  <2>0. UNCHANGED list
    BY <1>4, UnloadLeaves
  <2>1. Disconnect \/ UNCHANGED <<client, signalled>>
    BY <1>4 DEF StartUnload, FinishUnload, Stopped, vars, sessionVars, writeVars
  <2> QED BY <2>0, <2>1, DisconnectSignals DEF AwaitInv, Has
<1> QED BY <1>1, <1>2, <1>3, <1>4 DEF Next

\* However the writes, the answers and the ends of sessions interleave, a write that no
\* client is left to answer has been signalled.
THEOREM Awaited == Spec => []NobodyAwaited
  BY AwaitParts, TypedInit, TypedStep, ListInit, ListStep, AwaitInit, AwaitStep, PTL DEF Spec

----------------------------------------------------------------------------
(* The session, when each client issues one request at a time. *)

OneThreadEach == \A t, u \in Threads : Owner[t] = Owner[u] => t = u

SessionInv ==
  /\ SessionHasHandle
  /\ \A t \in Threads : at[t] \notin {"idle", "closing"} => handles[Owner[t]] > 0

LEMMA SessionInit == Init => SessionInv
  BY DEF Init, SessionInv, SessionHasHandle

LEMMA SessionStep ==
  ASSUME OneThreadEach
  PROVE  Typed /\ SessionInv /\ [Next]_vars => SessionInv'
<1> SUFFICES ASSUME Typed, SessionInv, [Next]_vars PROVE SessionInv'
  OBVIOUS
<1>0. /\ client \in Pids \cup {NoPid} /\ handles \in [Pids -> 0..MaxHandles]
      /\ at \in [Threads -> ThreadPlaces] /\ MaxHandles \in Nat /\ NoPid \notin Pids
      /\ Owner \in [Threads -> Pids]
  BY TypeParts, ClientAssumption, LimitAssumption DEF Typed, DiskTyped, ThreadsTyped
<1>1. ASSUME NEW w \in Writes, WriteArrives(w) \/ WorkerStep(w) PROVE SessionInv'
  <2>1. UNCHANGED <<client, handles>>
    BY <1>1, WriteLeaves
  <2> QED BY <1>0, <1>1, <2>1, WriteFrame DEF SessionInv, SessionHasHandle, Blocked
<1>2. ASSUME NEW t \in Threads, RequestStep(t) PROVE SessionInv'
  <2>0. UNCHANGED handles
    BY <1>2, RequestLeaves
  <2>1. client' = client \/ (client' = Owner[t] /\ at[t] = "registering")
    BY <1>2 DEF RequestStep, Register, CheckAttached, AttachFails, Attach, PublishFilter,
         PublishLower, SetRanges, PollDelivers, PollFindsNothing, EnterWait, PollExpires,
         Submit, Closed, sessionVars
  <2>2. SessionHasHandle'
    BY <1>0, <2>0, <2>1 DEF SessionInv, SessionHasHandle
  <2>3. \A u \in Threads : at'[u] \notin {"idle", "closing"} => at[u] \notin {"idle", "closing"}
    BY <1>0, <1>2 DEF RequestStep, Register, CheckAttached, AttachFails, Attach, PublishFilter,
         PublishLower, SetRanges, PollDelivers, PollFindsNothing, EnterWait, PollExpires,
         Submit, Closed, SignalAvailable, Blocked, Move
  <2> QED BY <2>0, <2>2, <2>3 DEF SessionInv
<1>3. ASSUME NEW t \in Threads, ClientStep(t) PROVE SessionInv'
  <2>1. CASE Open(t)
    <3>1. handles' = [handles EXCEPT ![Owner[t]] = @ + 1] /\ UNCHANGED <<client, at>>
      BY <2>1 DEF Open, threadVars
    <3>2. \A p \in Pids : handles[p] > 0 => handles'[p] > 0
      BY <1>0, <3>1
    <3> QED BY <1>0, <3>1, <3>2 DEF SessionInv, SessionHasHandle
  <2>2. CASE Close(t)
    <3>1. /\ handles' = [handles EXCEPT ![Owner[t]] = @ - 1] /\ at[t] = "idle"
          /\ \/ client = Owner[t] /\ client' = NoPid /\ at' = [at EXCEPT ![t] = "closing"]
             \/ client # Owner[t] /\ UNCHANGED <<client, at>>
      BY <2>2 DEF Close, Issues, Disconnect, Move, CleanupDisconnects
    <3>2. \A p \in Pids \ {Owner[t]} : handles'[p] = handles[p]
      BY <1>0, <3>1
    <3>3. SessionHasHandle'
      BY <1>0, <3>1, <3>2 DEF SessionInv, SessionHasHandle
    <3>4. ASSUME NEW u \in Threads, at'[u] \notin {"idle", "closing"}
          PROVE  handles'[Owner[u]] > 0
      <4>1. u # t /\ at[u] = at'[u]
        BY <1>0, <3>1, <3>4
      <4>2. Owner[u] \in Pids \ {Owner[t]}
        BY <1>0, <4>1 DEF OneThreadEach
      <4> QED BY <3>2, <3>4, <4>1, <4>2 DEF SessionInv
    <3> QED BY <3>3, <3>4 DEF SessionInv
  <2>3. CASE ~Open(t) /\ ~Close(t)
    <3>1. /\ UNCHANGED <<client, handles>> /\ handles[Owner[t]] > 0
          /\ \A u \in Threads \ {t} : at'[u] = at[u]
      BY <1>0, <1>3, <2>3 DEF ClientStep, StartRegister, StartPoll, StartConfigure, StartSubmit,
           Admits, Issues, Move, sessionVars
    <3> QED BY <3>1 DEF SessionInv, SessionHasHandle
  <2> QED BY <2>1, <2>2, <2>3
<1>4. CASE StartUnload \/ FinishUnload \/ Stopped \/ UNCHANGED vars
  <2>1. client' \in {client, NoPid} /\ UNCHANGED <<handles, at>>
    BY <1>4, UnloadLeaves DEF StartUnload, FinishUnload, Stopped, Disconnect, vars, sessionVars
  <2> QED BY <2>1 DEF SessionInv, SessionHasHandle
<1> QED BY <1>1, <1>2, <1>3, <1>4 DEF Next

\* When each client issues one request at a time, a session never outlives its client's
\* last handle, and with the session ends the waiting for its answers: a slow registration
\* cannot install a client whose handle has gone meanwhile.
THEOREM SessionCorrect == ASSUME OneThreadEach PROVE Spec => []SessionSound
<1>1. Typed /\ SessionInv /\ [Next]_vars => SessionInv'
  BY SessionStep
<1>2. SessionInv /\ AwaitInv => SessionSound
  BY AwaitParts DEF SessionInv, SessionSound
<1> QED BY <1>1, <1>2, TypedInit, TypedStep, ListInit, ListStep, AwaitInit, AwaitStep,
           SessionInit, PTL DEF Spec

----------------------------------------------------------------------------
(* The filter device on the disk, when each client issues one request at a time. *)

\* A thread that the client check has admitted works for the registered client: what it
\* read of the disk still holds when it writes.
AdmittedInv == \A t \in Threads : at[t] \in Installing \cup {"submitting"} => client = Owner[t]
DiskAt(t) ==
  /\ at[t] = "attaching" => stack = <<>> /\ filter = NoDevice /\ ~lower
  /\ at[t] = "publishing" => stack = <<t>> /\ filter = NoDevice /\ ~lower
  /\ at[t] = "linking" => stack = <<t>> /\ filter = t /\ ~lower
Steady == (lower <=> filter # NoDevice) /\ stack = IF lower THEN <<filter>> ELSE <<>>
DiskInv ==
  /\ \A t \in Threads : DiskAt(t)
  /\ (\A t \in Threads : at[t] \notin {"publishing", "linking"}) => Steady

LEMMA DiskParts == DiskInv => DiskHasOneFilter
<1> SUFFICES ASSUME DiskInv PROVE DiskHasOneFilter
  OBVIOUS
<1>1. CASE \E t \in Threads : at[t] \in {"publishing", "linking"}
  <2>1. PICK t \in Threads : stack = <<t>>
    BY <1>1 DEF DiskInv, DiskAt
  <2>2. Len(stack) <= 1
    BY <2>1
  <2> QED BY <1>1, <2>2 DEF DiskHasOneFilter
<1>2. CASE \A t \in Threads : at[t] \notin {"publishing", "linking"}
  <2>1. Steady
    BY <1>2 DEF DiskInv
  <2>2. stack = <<filter>> \/ stack = <<>>
    BY <2>1 DEF Steady
  <2>3. Len(<<filter>>) <= 1 /\ Len(<<>>) <= 1
    OBVIOUS
  <2>4. Len(stack) <= 1
    BY <2>2, <2>3, Zenon
  <2> QED BY <2>1, <2>4 DEF DiskHasOneFilter, Steady
<1> QED BY <1>1, <1>2

LEMMA DiskInit == Init => AdmittedInv /\ DiskInv
  BY DEF Init, AdmittedInv, DiskInv, DiskAt, Steady, Installing

LEMMA AdmittedStep ==
  ASSUME OneThreadEach
  PROVE  Typed /\ AdmittedInv /\ [Next]_vars => AdmittedInv'
<1> SUFFICES ASSUME Typed, AdmittedInv, [Next]_vars PROVE AdmittedInv'
  OBVIOUS
<1>0. /\ at \in [Threads -> ThreadPlaces] /\ NoPid \notin Pids /\ Owner \in [Threads -> Pids]
  BY TypeParts, ClientAssumption DEF Typed, ThreadsTyped
<1>1. ASSUME NEW w \in Writes, WriteArrives(w) \/ WorkerStep(w) PROVE AdmittedInv'
  <2>1. UNCHANGED client
    BY <1>1, WriteLeaves
  <2> QED BY <1>0, <1>1, <2>1, WriteFrame DEF AdmittedInv, Blocked, Installing
<1>2. ASSUME NEW t \in Threads, RequestStep(t) PROVE AdmittedInv'
  <2>1. CASE Register(t)
    <3>1. client' = (IF client \in {NoPid, Owner[t]} THEN Owner[t] ELSE client)
          /\ at' = [at EXCEPT ![t] = "idle"]
      BY <2>1 DEF Register, Move
    <3>2. ASSUME NEW u \in Threads, at'[u] \in Installing \cup {"submitting"}
          PROVE  client' = Owner[u]
      <4>1. u # t /\ at[u] = at'[u]
        BY <1>0, <3>1, <3>2 DEF Installing
      <4>2. client = Owner[u] /\ Owner[u] # Owner[t] /\ Owner[u] # NoPid
        BY <1>0, <3>2, <4>1 DEF AdmittedInv, OneThreadEach
      <4> QED BY <3>1, <4>2
    <3> QED BY <3>2 DEF AdmittedInv
  <2>2. CASE ~Register(t)
    <3>1. /\ UNCHANGED client
          /\ \A u \in Threads : at'[u] \in Installing \cup {"submitting"} =>
               at[u] \in Installing \cup {"submitting"}
      BY <1>0, <1>2, <2>2 DEF RequestStep, CheckAttached, AttachFails, Attach, PublishFilter,
         PublishLower, SetRanges, PollDelivers, PollFindsNothing, EnterWait, PollExpires,
         Submit, Closed, SignalAvailable, Blocked, Move, Installing, sessionVars
    <3> QED BY <3>1 DEF AdmittedInv
  <2> QED BY <2>1, <2>2
<1>3. ASSUME NEW t \in Threads, ClientStep(t) PROVE AdmittedInv'
  <2>1. CASE Close(t)
    <3>1. \/ client = Owner[t] /\ at[t] = "idle" /\ at' = [at EXCEPT ![t] = "closing"]
          \/ UNCHANGED <<client, at>>
      BY <2>1 DEF Close, Issues, Disconnect, Move, CleanupDisconnects
    <3>2. ASSUME NEW u \in Threads, at'[u] \in Installing \cup {"submitting"}
          PROVE  client' = Owner[u]
      <4>1. CASE UNCHANGED <<client, at>>
        BY <3>2, <4>1 DEF AdmittedInv
      <4>2. CASE client = Owner[t] /\ at[t] = "idle" /\ at' = [at EXCEPT ![t] = "closing"]
        <5>1. u # t /\ at[u] = at'[u]
          BY <1>0, <3>2, <4>2 DEF Installing
        <5> QED BY <1>0, <3>2, <4>2, <5>1 DEF AdmittedInv, OneThreadEach
      <4> QED BY <3>1, <4>1, <4>2
    <3> QED BY <3>2 DEF AdmittedInv
  <2>2. CASE ~Close(t)
    <3>1. UNCHANGED client /\ \A u \in Threads \ {t} : at'[u] = at[u]
      BY <1>0, <1>3, <2>2 DEF ClientStep, Open, StartRegister, StartPoll, StartConfigure,
           StartSubmit, Admits, Issues, Move, sessionVars, threadVars
    <3>2. at'[t] \in Installing \cup {"submitting"} => client = Owner[t]
      BY <1>0, <1>3, <2>2 DEF ClientStep, Open, StartRegister, StartPoll, StartConfigure,
           StartSubmit, Admits, IsClient, Issues, Move, Installing, threadVars
    <3> QED BY <3>1, <3>2 DEF AdmittedInv
  <2> QED BY <2>1, <2>2
<1>4. CASE StartUnload
  BY <1>4 DEF StartUnload, threadVars, AdmittedInv, Installing
<1>5. CASE FinishUnload \/ Stopped \/ UNCHANGED vars
  BY <1>5 DEF FinishUnload, Stopped, vars, sessionVars, threadVars, AdmittedInv
<1> QED BY <1>1, <1>2, <1>3, <1>4, <1>5 DEF Next

\* A thread that moves without touching the disk, from no place where it attaches to none.
LEMMA DiskKept ==
  ASSUME DiskInv, UNCHANGED <<stack, filter, lower>>,
         \A u \in Threads : at'[u] \in {"attaching", "publishing", "linking"} => at'[u] = at[u],
         \A u \in Threads : at[u] \in {"publishing", "linking"} => at'[u] = at[u]
  PROVE  DiskInv'
<1>1. ASSUME NEW u \in Threads PROVE DiskAt(u)'
  BY DEF DiskInv, DiskAt
<1>2. (\A t \in Threads : at'[t] \notin {"publishing", "linking"}) => Steady'
  <2>1. (\A t \in Threads : at'[t] \notin {"publishing", "linking"})
          => (\A t \in Threads : at[t] \notin {"publishing", "linking"})
    OBVIOUS
  <2> QED BY <2>1 DEF DiskInv, Steady
<1> QED BY <1>1, <1>2 DEF DiskInv

\* The device it names is taken out of a stack of one.
LEMMA RemoveOnly ==
  ASSUME NEW S, NEW e \in S
  PROVE  RemoveFirst(<<e>>, e) = <<>>
<1>1. <<e>> \in Seq(S) /\ Has(<<e>>, e)
  BY DEF Has
<1>2. PICK i \in 1..Len(<<e>>) : RemoveFirst(<<e>>, e) = RemoveAt(<<e>>, i)
  BY <1>1, RemoveFirstIs
<1>3. IsRemoval(S, <<e>>, i, RemoveAt(<<e>>, i))
  BY <1>1, RemoveAtIsSeq
<1>4. RemoveAt(<<e>>, i) \in Seq(S) /\ Len(RemoveAt(<<e>>, i)) = 0
  BY <1>3 DEF IsRemoval
<1> QED BY <1>2, <1>4

LEMMA DiskStep ==
  ASSUME OneThreadEach
  PROVE  Typed /\ Quiet /\ AdmittedInv /\ DiskInv /\ [Next]_vars => DiskInv'
<1> SUFFICES ASSUME Typed, Quiet, AdmittedInv, DiskInv, [Next]_vars PROVE DiskInv'
  OBVIOUS
<1>0. /\ at \in [Threads -> ThreadPlaces] /\ NoDevice \notin Threads
      /\ filter \in Threads \cup {NoDevice} /\ lower \in BOOLEAN
  BY TypeParts, ClientAssumption DEF Typed, ThreadsTyped, DiskTyped
\* Only one thread is inside CONFIGURE.
<1>a. ASSUME NEW t \in Threads, NEW u \in Threads, at[t] \in Installing, at[u] \in Installing
      PROVE  t = u
  BY <1>a DEF AdmittedInv, OneThreadEach
<1>1. ASSUME NEW w \in Writes, WriteArrives(w) \/ WorkerStep(w) PROVE DiskInv'
  <2>1. UNCHANGED <<stack, filter, lower>>
    BY <1>1, WriteLeaves
  <2> QED BY <1>0, <1>1, <2>1, WriteFrame, DiskKept DEF Blocked
<1>2. ASSUME NEW t \in Threads, RequestStep(t) PROVE DiskInv'
  <2>1. CASE CheckAttached(t) \/ AttachFails(t)
    <3>0. at[t] \in {"configuring", "attaching"} /\ UNCHANGED <<stack, filter, lower>>
          /\ \E p \in {"attaching", "ranging", "idle"} :
               at' = [at EXCEPT ![t] = p] /\ (p = "attaching" => filter = NoDevice)
      BY <2>1 DEF CheckAttached, AttachFails, Move, MustAttach, diskVars
    <3>1. \A u \in Threads : at[u] \notin {"publishing", "linking"}
      BY <1>a, <3>0 DEF Installing
    <3>2. Steady
      BY <3>1 DEF DiskInv
    <3>3. Steady'
      BY <3>0, <3>2 DEF Steady
    <3>4. ASSUME NEW u \in Threads PROVE DiskAt(u)'
      <4>1. at'[u] \notin {"publishing", "linking"}
        BY <1>0, <3>0, <3>1
      <4>2. at'[u] = "attaching" => stack = <<>> /\ filter = NoDevice /\ ~lower
        BY <1>0, <3>0, <3>2 DEF Steady, DiskInv, DiskAt
      <4> QED BY <3>0, <4>1, <4>2 DEF DiskAt
    <3> QED BY <3>3, <3>4 DEF DiskInv
  <2>2. CASE Attach(t) \/ PublishFilter(t) \/ PublishLower(t)
    <3>0. at[t] \in {"attaching", "publishing", "linking"} /\ DiskAt(t)
      BY <2>2 DEF Attach, PublishFilter, PublishLower, DiskInv
    <3>1. ASSUME NEW u \in Threads, u # t
          PROVE  at'[u] \notin {"attaching", "publishing", "linking"}
      <4>1. at[u] \notin Installing
        BY <1>a, <3>0, <3>1 DEF Installing
      <4> QED BY <1>0, <2>2, <3>1, <4>1 DEF Attach, PublishFilter, PublishLower, Move, Installing
    <3>2. CASE Attach(t)
      <4>1. /\ stack = <<>> /\ stack' = Append(stack, t) /\ at'[t] = "publishing"
            /\ filter = NoDevice /\ ~lower /\ UNCHANGED <<filter, lower>>
        BY <1>0, <3>0, <3>2 DEF Attach, Move, DiskAt
      <4>2. stack' = <<t>>
        BY <4>1
      <4> QED BY <3>1, <4>1, <4>2 DEF DiskInv, DiskAt
    <3>3. CASE PublishFilter(t)
      <4>1. /\ stack = <<t>> /\ at'[t] = "linking" /\ filter' = t /\ ~lower
            /\ UNCHANGED <<stack, lower>>
        BY <1>0, <3>0, <3>3 DEF PublishFilter, Move, DiskAt
      <4> QED BY <3>1, <4>1 DEF DiskInv, DiskAt
    <3>4. CASE PublishLower(t)
      <4>1. /\ stack = <<t>> /\ filter = t /\ at'[t] = "ranging" /\ lower'
            /\ UNCHANGED <<stack, filter>>
        BY <1>0, <3>0, <3>4 DEF PublishLower, Move, DiskAt
      <4>2. Steady'
        BY <1>0, <4>1 DEF Steady
      <4> QED BY <3>1, <4>1, <4>2 DEF DiskInv, DiskAt
    <3> QED BY <2>2, <3>2, <3>3, <3>4
  <2>3. CASE Register(t) \/ SetRanges(t) \/ PollDelivers(t) \/ PollFindsNothing(t)
             \/ EnterWait(t) \/ PollExpires(t) \/ Submit(t)
    <3>1. /\ UNCHANGED <<stack, filter, lower>>
          /\ at[t] \notin {"attaching", "publishing", "linking"}
          /\ \E p \in {"idle", "entering", "polling", "blocked"} : at' = [at EXCEPT ![t] = p]
      BY <2>3 DEF Register, SetRanges, PollDelivers, PollFindsNothing, EnterWait, PollExpires,
           Submit, Move, diskVars
    <3> QED BY <1>0, <3>1, DiskKept
  <2>4. CASE Closed(t)
    <3>1. UNCHANGED <<stack, filter, lower>>
      BY <2>4 DEF Closed, diskVars
    <3>2. \A u \in Threads : at'[u] # at[u] =>
            at[u] \in {"closing", "blocked"} /\ at'[u] \in {"idle", "polling"}
      BY <1>0, <2>4 DEF Closed, SignalAvailable, Blocked
    <3> QED BY <3>1, <3>2, DiskKept
  <2> QED BY <1>2, <2>1, <2>2, <2>3, <2>4 DEF RequestStep
<1>3. ASSUME NEW t \in Threads, ClientStep(t) PROVE DiskInv'
  <2>1. UNCHANGED <<stack, filter, lower>>
    BY <1>3, ClientLeaves
  <2>2. \A u \in Threads : at'[u] # at[u] => at[u] = "idle"
          /\ at'[u] \in {"registering", "polling", "closing", "configuring", "submitting"}
    BY <1>0, <1>3 DEF ClientStep, Open, StartRegister, StartPoll, StartConfigure, Close,
         StartSubmit, Admits, Issues, Move, threadVars
  <2> QED BY <2>1, <2>2, DiskKept
<1>4. CASE StartUnload \/ Stopped \/ UNCHANGED vars
  <2>1. UNCHANGED <<stack, filter, lower, at>>
    BY <1>4 DEF StartUnload, Stopped, vars, diskVars, threadVars
  <2> QED BY <2>1, DiskKept
<1>5. CASE FinishUnload
  <2>0. \A t \in Threads : at[t] = "idle" /\ at'[t] = "idle"
    BY <1>5 DEF FinishUnload, Quiet, threadVars
  <2>1. Steady
    BY <2>0 DEF DiskInv
  <2>2. filter' = NoDevice /\ lower' = FALSE
        /\ stack' = IF filter = NoDevice THEN stack ELSE RemoveFirst(stack, filter)
    BY <1>5 DEF FinishUnload
  <2>3. stack' = <<>>
    <3>1. CASE filter = NoDevice
      BY <2>1, <2>2, <3>1 DEF Steady
    <3>2. CASE filter # NoDevice
      <4>1. stack = <<filter>> /\ filter \in Threads
        BY <1>0, <2>1, <3>2 DEF Steady
      <4>2. RemoveFirst(<<filter>>, filter) = <<>>
        BY <4>1, RemoveOnly
      <4> QED BY <2>2, <3>2, <4>1, <4>2
    <3> QED BY <3>1, <3>2
  <2> QED BY <2>0, <2>2, <2>3 DEF DiskInv, DiskAt, Steady
<1> QED BY <1>1, <1>2, <1>3, <1>4, <1>5 DEF Next

\* When each client issues one request at a time, CONFIGURE never attaches a second filter
\* device, although it attaches outside the lock: the client check admits one thread at a
\* time, and a thread's request outlives no session.
THEOREM DiskCorrect == ASSUME OneThreadEach PROVE Spec => []DiskHasOneFilter
<1>1. Typed /\ AdmittedInv /\ [Next]_vars => AdmittedInv'
  BY AdmittedStep
<1>2. Typed /\ Quiet /\ AdmittedInv /\ DiskInv /\ [Next]_vars => DiskInv'
  BY DiskStep
<1> QED BY <1>1, <1>2, TypedInit, TypedStep, QuietInit, QuietStep, DiskInit, DiskParts, PTL
        DEF Spec

----------------------------------------------------------------------------
(* The answers, when each client issues one request at a time. *)

\* An answer comes from the process that read the event, and stands once its write has left
\* the list; only an allowed write is forwarded.
AnswerOf(w) ==
  /\ decision[w] = "allow" => allowedBy[w] = delivered[w] /\ allowedBy[w] # NoPid
  /\ pc[w] = "allowed" \/ outcome[w] = "forwarded" => decision[w] = "allow"
  /\ outcome[w] = "forwarded" => pc[w] \in {"releasing", "done"}
AnswerInv ==
  /\ \A t \in Threads : at[t] = "submitting" => delivered[request[t].write] = Owner[t]
  /\ \A w \in Writes : AnswerOf(w)

LEMMA AnswerInit == Init => AnswerInv
  BY DEF Init, AnswerInv, AnswerOf

LEMMA AnswerParts == AnswerInv => ForwardedByItsReader
  BY DEF AnswerInv, AnswerOf, ForwardedByItsReader

\* A listed write may still be blocked: it is neither allowed nor forwarded yet.
LEMMA ListedIsOpen ==
  ASSUME ListInv, AnswerInv, NEW w \in Writes, StillLinked(w)
  PROVE  pc[w] # "allowed" /\ outcome[w] # "forwarded"
<1>1. pc[w] \in Linked
  BY DEF ListInv, StillLinked, Has
<1>2. AnswerOf(w)
  BY DEF AnswerInv
<1> QED BY <1>1, <1>2 DEF Linked, AnswerOf

\* The end of a session takes every answer back that is still listed.
LEMMA DisconnectAnswers ==
  ASSUME ListInv, AnswerInv, Disconnect, UNCHANGED <<pc, outcome, delivered, allowedBy>>,
         NEW w \in Writes
  PROVE  AnswerOf(w)'
<1>1. decision'[w] = IF StillLinked(w) THEN "block" ELSE decision[w]
  BY DEF Disconnect, Listed
<1>2. AnswerOf(w)
  BY DEF AnswerInv
<1> QED BY <1>1, <1>2, ListedIsOpen DEF AnswerOf

LEMMA AnswerWrite ==
  ASSUME Typed, AnswerInv, NEW w \in Writes, WriteArrives(w) \/ WorkerStep(w)
  PROVE  AnswerInv'
<1>0. /\ UNCHANGED <<decision, delivered, allowedBy, request>>
      /\ pc \in [Writes -> WritePlaces] /\ outcome \in [Writes -> Outcomes]
  BY WriteLeaves, TypeParts DEF Typed, WritesTyped
<1>1. \A t \in Threads : at'[t] = "submitting" => at[t] = "submitting"
  BY WriteFrame, TypeParts DEF Typed, ThreadsTyped, Blocked
<1>2. \A v \in Writes \ {w} : pc'[v] = pc[v] /\ outcome'[v] = outcome[v]
  BY <1>0 DEF WriteArrives, WorkerStep, Classify, PassThrough, Reserve, AllocationFails,
     QueueWorkItem, WorkerQueues, WaitEnds, WorkerDecides, WorkerForwards, WorkerFails,
     WorkerReleases, GoTo, Finish
<1>3. AnswerOf(w)
  BY DEF AnswerInv
<1>4. AnswerOf(w)'
  <2>1. CASE WorkerDecides(w)
    <3>1. pc'[w] = "allowed" => decision[w] = "allow"
      BY <1>0, <2>1 DEF WorkerDecides, GoTo, Verdict
    <3>2. outcome'[w] = outcome[w] /\ outcome[w] # "forwarded"
      BY <1>3, <2>1 DEF WorkerDecides, AnswerOf
    <3> QED BY <1>0, <1>3, <3>1, <3>2 DEF AnswerOf
  <2>2. CASE WorkerForwards(w)
    <3>1. /\ pc[w] = "allowed" /\ pc'[w] # "allowed"
          /\ outcome'[w] = "forwarded" => pc'[w] = "releasing" \/ outcome[w] = "forwarded"
      BY <1>0, <2>2 DEF WorkerForwards, GoTo
    <3> QED BY <1>0, <1>3, <3>1 DEF AnswerOf
  <2>3. CASE WorkerReleases(w)
    <3>1. pc[w] = "releasing" /\ pc'[w] = "done" /\ outcome'[w] = outcome[w]
      BY <1>0, <2>3 DEF WorkerReleases, GoTo
    <3> QED BY <1>0, <1>3, <3>1 DEF AnswerOf
  <2>4. CASE ~WorkerDecides(w) /\ ~WorkerForwards(w) /\ ~WorkerReleases(w)
    <3>1. pc[w] \notin {"releasing", "done"} /\ pc'[w] # "allowed"
          /\ (outcome'[w] = outcome[w] \/ outcome'[w] # "forwarded")
      BY <1>0, <2>4 DEF WriteArrives, WorkerStep, Classify, PassThrough, Reserve,
         AllocationFails, QueueWorkItem, WorkerQueues, WaitEnds, WorkerFails, GoTo, Finish,
         EndOfWait
    <3> QED BY <1>0, <1>3, <3>1 DEF AnswerOf
  <2> QED BY <2>1, <2>2, <2>3, <2>4
<1>5. ASSUME NEW v \in Writes PROVE AnswerOf(v)'
  <2>1. CASE v = w
    BY <1>4, <2>1
  <2>2. CASE v # w
    BY <1>0, <1>2, <2>2 DEF AnswerInv, AnswerOf
  <2> QED BY <2>1, <2>2
<1>6. ASSUME NEW t \in Threads, at'[t] = "submitting"
      PROVE  delivered'[request'[t].write] = Owner[t]
  BY <1>0, <1>1, <1>6 DEF AnswerInv
<1> QED BY <1>5, <1>6 DEF AnswerInv

\* An answer that arrives comes from the registered client, which has read the event.
LEMMA AnswerSubmit ==
  ASSUME Typed, AdmittedInv, ListInv, AnswerInv, NEW t \in Threads, Submit(t)
  PROVE  AnswerInv'
<1> DEFINE w == request[t].write
           d == request[t].decision
<1>0. /\ w \in Writes /\ d \in {"allow", "block"}
      /\ client = Owner[t] /\ delivered[w] = Owner[t] /\ Owner[t] # NoPid
  <2>1. at[t] = "submitting"
    BY DEF Submit
  <2>2. request[t] \in Requests
    BY <2>1 DEF Typed, RequestsTyped
  <2>3. w \in Writes /\ d \in {"allow", "block"}
    BY <2>2 DEF Requests
  <2>4. client = Owner[t] /\ delivered[w] = Owner[t]
    BY <2>1 DEF AdmittedInv, AnswerInv
  <2>5. Owner[t] # NoPid
    BY ClientAssumption
  <2> QED BY <2>3, <2>4, <2>5
<1>1. /\ UNCHANGED <<pc, outcome, delivered>>
      /\ at' = [at EXCEPT ![t] = "idle"] /\ request' = [request EXCEPT ![t] = NoRequest]
  BY DEF Submit, Move
<1>2. at \in [Threads -> ThreadPlaces] /\ DOMAIN request = Threads
      /\ decision \in [Writes -> {"allow", "block"}]
      /\ allowedBy \in [Writes -> Pids \cup {NoPid}]
  BY TypeParts DEF Typed, ThreadsTyped, RequestsTyped, AnswersTyped
<1>3. ASSUME NEW v \in Writes PROVE AnswerOf(v)'
  <2>0. AnswerOf(v)
    BY DEF AnswerInv
  <2>1. CASE ~StillLinked(w) \/ v # w
    <3>1. decision'[v] = decision[v] /\ allowedBy'[v] = allowedBy[v]
      BY <1>0, <1>2, <2>1 DEF Submit
    <3> QED BY <1>1, <2>0, <3>1 DEF AnswerOf
  <2>2. CASE StillLinked(w) /\ v = w
    <3>1. pc[v] # "allowed" /\ outcome[v] # "forwarded"
      BY <2>2, ListedIsOpen
    <3>2. decision'[v] = d /\ (d = "allow" => allowedBy'[v] = client)
      BY <1>0, <1>2, <2>2 DEF Submit
    <3> HIDE DEF w, d
    <3> QED BY <1>0, <1>1, <2>2, <3>1, <3>2 DEF AnswerOf
  <2> QED BY <2>1, <2>2
<1>4. ASSUME NEW u \in Threads, at'[u] = "submitting"
      PROVE  delivered'[request'[u].write] = Owner[u]
  <2>1. u # t /\ at[u] = "submitting" /\ request'[u] = request[u]
    BY <1>1, <1>2, <1>4
  <2> QED BY <1>1, <2>1 DEF AnswerInv
<1> QED BY <1>3, <1>4 DEF AnswerInv

\* An event is read once: an answer that stands keeps its reader.
LEMMA AnswerDelivers ==
  ASSUME Typed, AnswerInv, NEW t \in Threads, PollDelivers(t)
  PROVE  AnswerInv'
<1>0. /\ at \in [Threads -> ThreadPlaces] /\ delivered \in [Writes -> Pids \cup {NoPid}]
      /\ NoPid \notin Pids /\ \A u \in Threads : Owner[u] # NoPid
  BY TypeParts, ClientAssumption DEF Typed, ThreadsTyped, AnswersTyped
<1>1. /\ UNCHANGED <<pc, outcome, decision, allowedBy, request>>
      /\ at' = [at EXCEPT ![t] = "idle"]
      /\ \A w \in Writes : delivered[w] # NoPid => delivered'[w] = delivered[w]
  BY <1>0 DEF PollDelivers, Undelivered, Move
<1>2. \A w \in Writes : AnswerOf(w)'
  BY <1>1 DEF AnswerInv, AnswerOf
<1>3. ASSUME NEW u \in Threads, at'[u] = "submitting"
      PROVE  delivered'[request'[u].write] = Owner[u]
  <2>1. at[u] = "submitting" /\ request[u].write \in Writes /\ request'[u] = request[u]
    BY <1>0, <1>1, <1>3 DEF Typed, RequestsTyped, Requests
  <2> QED BY <1>0, <1>1, <2>1 DEF AnswerInv
<1> QED BY <1>2, <1>3 DEF AnswerInv

LEMMA AnswerStep ==
  Typed /\ AdmittedInv /\ ListInv /\ AnswerInv /\ [Next]_vars => AnswerInv'
<1> SUFFICES ASSUME Typed, AdmittedInv, ListInv, AnswerInv, [Next]_vars PROVE AnswerInv'
  OBVIOUS
<1>0. at \in [Threads -> ThreadPlaces] /\ DOMAIN request = Threads
  BY TypeParts DEF Typed, ThreadsTyped, RequestsTyped
<1>1. ASSUME NEW t \in Threads, RequestStep(t) PROVE AnswerInv'
  <2>1. CASE ~Submit(t) /\ ~PollDelivers(t)
    <3>1. /\ UNCHANGED <<pc, outcome, decision, delivered, allowedBy>>
          /\ \A u \in Threads :
               at'[u] = "submitting" => at[u] = "submitting" /\ request'[u] = request[u]
      BY <1>0, <1>1, <2>1 DEF RequestStep, Register, CheckAttached, AttachFails, Attach,
         PublishFilter, PublishLower, SetRanges, PollFindsNothing, EnterWait, PollExpires,
         Closed, SignalAvailable, Blocked, Move, writeVars
    <3> QED BY <3>1 DEF AnswerInv, AnswerOf
  <2> QED BY <1>1, <2>1, AnswerSubmit, AnswerDelivers
<1>2. ASSUME NEW t \in Threads, ClientStep(t) PROVE AnswerInv'
  <2>0. UNCHANGED <<pc, outcome, delivered, allowedBy>>
    BY <1>2, ClientLeaves
  <2>1. Disconnect \/ UNCHANGED decision
    BY <1>2 DEF ClientStep, Open, StartRegister, StartPoll, StartConfigure, StartSubmit, Close,
       writeVars
  <2>2. \A w \in Writes : AnswerOf(w)'
    BY <2>0, <2>1, DisconnectAnswers DEF AnswerInv, AnswerOf
  <2>3. ASSUME NEW u \in Threads, at'[u] = "submitting"
        PROVE  delivered'[request'[u].write] = Owner[u]
    <3>1. CASE \E w \in Writes, d \in {"allow", "block"} : StartSubmit(t, w, d)
      BY <1>0, <2>0, <2>3, <3>1 DEF StartSubmit, Move, AnswerInv
    <3>2. CASE ~\E w \in Writes, d \in {"allow", "block"} : StartSubmit(t, w, d)
      <4>1. at[u] = "submitting" /\ request'[u] = request[u]
        BY <1>0, <1>2, <2>3, <3>2 DEF ClientStep, Open, StartRegister, StartPoll,
           StartConfigure, Close, Admits, Issues, Move, threadVars
      <4> QED BY <2>0, <4>1 DEF AnswerInv
    <3> QED BY <3>1, <3>2
  <2> QED BY <2>2, <2>3 DEF AnswerInv
<1>3. CASE StartUnload \/ FinishUnload \/ Stopped \/ UNCHANGED vars
  <2>0. UNCHANGED <<pc, outcome, delivered, allowedBy, request, at>>
    BY <1>3, UnloadLeaves
  <2>1. Disconnect \/ UNCHANGED decision
    BY <1>3 DEF StartUnload, FinishUnload, Stopped, vars, writeVars
  <2>2. \A w \in Writes : AnswerOf(w)'
    BY <2>0, <2>1, DisconnectAnswers DEF AnswerInv, AnswerOf
  <2> QED BY <2>0, <2>2 DEF AnswerInv
<1> QED BY <1>1, <1>2, <1>3, AnswerWrite DEF Next

\* When each client issues one request at a time, a held write reaches the disk only on the
\* Allow of the very process that read its event: no time-out, change of client, overload or
\* unload lets one through, for any number of writes and clients.
THEOREM ForwardedCorrect == ASSUME OneThreadEach PROVE Spec => []ForwardedByItsReader
<1>1. Typed /\ AdmittedInv /\ [Next]_vars => AdmittedInv'
  BY AdmittedStep
<1>2. Init => AdmittedInv
  BY DiskInit
<1> QED BY <1>1, <1>2, TypedInit, TypedStep, ListInit, ListStep, AnswerInit, AnswerStep,
           AnswerParts, PTL DEF Spec
=============================================================================
