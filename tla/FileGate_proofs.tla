--------------------------- MODULE FileGate_proofs ----------------------------
(***************************************************************************)
(* Proofs about FileGate for every set of paths, processes, threads and    *)
(* file objects, and every size of the monitor's tables.                   *)
(*                                                                         *)
(* MonitorInv types the tables and relates the count of a slot to its flag *)
(* and to the deletes of its process.  BootInv follows each request from   *)
(* its arrival to its effect, and each file object from its creation, in   *)
(* which it is its opener's alone, to its cleanup.  SpanInv bounds what a  *)
(* process can still open for deletion in the span of one window from any  *)
(* instant on, by where the window of its slot lies.                       *)
(***************************************************************************)
EXTENDS FileGate, LibraryLemmas, TLAPS

----------------------------------------------------------------------------
(* The monitor *)

\* A slot is flagged exactly when its count has reached the threshold.
SlotOk(d, slot) ==
  /\ slot \in Slot(d)
  /\ slot.flag => slot.count = Threshold[d]
  /\ ~slot.flag => slot.count < Threshold[d]
TableOk(d, table) ==
  table = [s \in Slots |-> table[s]] /\ \A s \in Slots : SlotOk(d, table[s])
MonitorInv ==
  /\ tables = [d \in Tables |-> tables[d]] /\ \A d \in Tables : TableOk(d, tables[d])
  /\ now \in 0..MaxTime /\ deletes \in [Pids -> Nat]
  /\ \A s \in Slots, p \in Pids :
       tables["deletes"][s].pid = p => tables["deletes"][s].count <= deletes[p]
Times == seen \in [Threads -> 0..MaxTime \cup {NoTime}]

LEMMA SlotMade ==
  ASSUME NEW d \in Tables, NEW p \in Pids \cup {NoPid}, NEW time \in 0..MaxTime,
         NEW n \in 0..Threshold[d], NEW flag \in BOOLEAN, flag <=> n = Threshold[d]
  PROVE  SlotOk(d, [pid |-> p, count |-> n, start |-> time, flag |-> flag])
<1>1. Threshold[d] \in Nat
  BY MonitorAssumption
<1> QED BY <1>1 DEF SlotOk, Slot

LEMMA CountedOk ==
  ASSUME NEW d \in Tables, NEW slot, SlotOk(d, slot), NEW time \in 0..MaxTime
  PROVE  /\ SlotOk(d, Counted(slot, Threshold[d], time))
         /\ Counted(slot, Threshold[d], time).pid = slot.pid
         /\ Counted(slot, Threshold[d], time).count <= slot.count + 1
<1> DEFINE n == slot.count + 1
<1>1. Threshold[d] \in Nat \ {0, 1} /\ MaxTime \in Nat
  BY MonitorAssumption
<1>2. /\ slot \in Slot(d) /\ slot.count \in Nat /\ slot.flag \in BOOLEAN /\ n \in Nat
      /\ slot.pid \in Pids \cup {NoPid} /\ slot.start \in 0..MaxTime
  BY <1>1 DEF SlotOk, Slot
<1>3. CASE Expired(slot, time)
  <2>1. Counted(slot, Threshold[d], time)
          = [pid |-> slot.pid, count |-> 1, start |-> time, flag |-> FALSE]
    BY <1>2, <1>3 DEF Counted, Slot
  <2>2. 1 \in 0..Threshold[d] /\ 1 # Threshold[d] /\ 1 <= slot.count + 1
    BY <1>1, <1>2
  <2>3. SlotOk(d, [pid |-> slot.pid, count |-> 1, start |-> time, flag |-> FALSE])
    <3>1. FALSE <=> 1 = Threshold[d]
      BY <2>2
    <3> QED BY <1>2, <2>2, <3>1, SlotMade
  <2> QED BY <2>1, <2>2, <2>3
<1>4. CASE ~Expired(slot, time) /\ slot.flag
  BY <1>1, <1>2, <1>4 DEF Counted, SlotOk, Slot
<1>5. CASE ~Expired(slot, time) /\ ~slot.flag
  <2>1. n \in 0..Threshold[d] /\ (n >= Threshold[d] <=> n = Threshold[d])
    BY <1>1, <1>2, <1>5 DEF SlotOk
  <2>2. PICK flag \in BOOLEAN : flag = (slot.count + 1 >= Threshold[d])
    <3>1. CASE n = Threshold[d]
      <4>1. (slot.count + 1 >= Threshold[d]) = TRUE
        BY <1>1, <1>2, <3>1
      <4> QED BY <4>1
    <3>2. CASE n # Threshold[d]
      <4>1. (slot.count + 1 >= Threshold[d]) = FALSE
        BY <1>1, <1>2, <2>1, <3>2
      <4> QED BY <4>1
    <3> QED BY <3>1, <3>2
  <2>3. Counted(slot, Threshold[d], time)
          = [pid |-> slot.pid, count |-> n, start |-> slot.start, flag |-> flag]
    <3>1. Counted(slot, Threshold[d], time)
            = [slot EXCEPT !.count = n, !.flag = slot.count + 1 >= Threshold[d]]
      BY <1>5 DEF Counted
    <3>2. Counted(slot, Threshold[d], time) = [slot EXCEPT !.count = n, !.flag = flag]
      BY <2>2, <3>1
    <3> QED BY <1>2, <3>2 DEF Slot
  <2>4. SlotOk(d, [pid |-> slot.pid, count |-> n, start |-> slot.start, flag |-> flag])
    <3>1. flag <=> n = Threshold[d]
      BY <2>1, <2>2
    <3> QED BY <1>2, <2>1, <3>1, SlotMade
  <2>5. n <= slot.count + 1
    BY <1>2
  <2> QED BY <2>3, <2>4, <2>5
<1> QED BY <1>3, <1>4, <1>5

LEMMA ClaimedOk ==
  ASSUME NEW d \in Tables, NEW slot, SlotOk(d, slot), NEW p \in Pids, NEW time \in 0..MaxTime
  PROVE  /\ SlotOk(d, Claimed(slot, p, time)) /\ Claimed(slot, p, time).pid = p
         /\ Claimed(slot, p, time).count = IF slot.pid = p THEN slot.count ELSE 0
<1>1. Threshold[d] \in Nat \ {0, 1} /\ MaxTime \in Nat
  BY MonitorAssumption
<1> QED BY <1>1 DEF Claimed, SlotOk, Slot

\* What counting leaves in each slot: another process' slot as it was, or one of this process
\* with at most one more.
LEMMA RecordedOk ==
  ASSUME MonitorInv, NEW d \in Tables, NEW p \in Pids, NEW time \in 0..MaxTime, NEW s \in Slots
  PROVE  LET slot == Recorded(d, p, time)[s] IN
         /\ SlotOk(d, slot)
         /\ \/ slot = tables[d][s]
            \/ slot.pid = p /\ slot.count <= 1
            \/ slot.pid = p /\ tables[d][s].pid = p /\ slot.count <= tables[d][s].count + 1
<1> DEFINE old == tables[d][s]
           slot == Recorded(d, p, time)[s]
<1>1. SlotOk(d, old)
  BY DEF MonitorInv, TableOk
<1>2. CASE s \notin Place(d, p)
  BY <1>1, <1>2 DEF Recorded
<1>3. CASE s \in Place(d, p)
  <2>1. PICK claimed : claimed = Claimed(old, p, time)
    OBVIOUS
  <2>2. /\ SlotOk(d, claimed) /\ claimed.pid = p
        /\ claimed.count = IF old.pid = p THEN old.count ELSE 0
    BY <1>1, <2>1, ClaimedOk
  <2>3. slot = Counted(claimed, Threshold[d], time)
    BY <1>3, <2>1 DEF Recorded
  <2>4. SlotOk(d, slot) /\ slot.pid = p /\ slot.count <= claimed.count + 1
    BY <2>2, <2>3, CountedOk
  <2> HIDE DEF slot, old
  <2> QED BY <2>2, <2>4 DEF slot, old
<1> QED BY <1>2, <1>3

LEMMA CountKeeps ==
  ASSUME MonitorInv, Times, NEW t \in Threads, Count(t)
  PROVE  MonitorInv'
<1>1. PICK d \in Tables : d = at[t]
  BY DEF Count
<1>2. PICK p \in Pids : p = Pid(t)
  BY ActorAssumption DEF Pid
<1>3. PICK time \in 0..MaxTime : time = seen[t]
  BY DEF Count, Times
<1>4. /\ tables' = [tables EXCEPT ![d] = Recorded(d, p, time)] /\ now' = now
      /\ deletes' = [deletes EXCEPT ![p] = IF d = "deletes" /\ @ < Threshold[d] THEN @ + 1 ELSE @]
  BY <1>1, <1>2, <1>3 DEF Count
<1>5. /\ tables' = [e \in Tables |-> tables'[e]]
      /\ \A e \in Tables : tables'[e] = IF e = d THEN Recorded(d, p, time) ELSE tables[e]
  BY <1>4 DEF MonitorInv
<1>6. \A e \in Tables : TableOk(e, tables'[e])
  <2>1. TableOk(d, Recorded(d, p, time))
    BY RecordedOk DEF TableOk, Recorded
  <2> QED BY <1>5, <2>1 DEF MonitorInv
<1>7. \A e \in Tables : Threshold[e] \in Nat
  BY MonitorAssumption
<1>8. deletes' \in [Pids -> Nat] /\ \A q \in Pids : deletes[q] <= deletes'[q]
  BY <1>4, <1>7 DEF MonitorInv
<1>9. ASSUME NEW s \in Slots, NEW q \in Pids, tables'["deletes"][s].pid = q
      PROVE  tables'["deletes"][s].count <= deletes'[q]
  <2> DEFINE old == tables["deletes"][s]
             new == tables'["deletes"][s]
  <2>1. "deletes" \in Tables
    BY DEF Tables
  <2>2. /\ SlotOk("deletes", new) /\ SlotOk("deletes", old)
        /\ old.pid = q => old.count <= deletes[q]
    BY <1>6, <2>1 DEF TableOk, MonitorInv
  <2>3. /\ new.count \in 0..Threshold["deletes"] /\ old.count \in Nat
        /\ deletes[q] \in Nat /\ deletes'[q] \in Nat /\ deletes[q] <= deletes'[q]
    BY <1>7, <1>8, <2>1, <2>2 DEF SlotOk, Slot, MonitorInv
  <2>4. CASE new = old
    BY <1>9, <2>2, <2>3, <2>4
  <2>5. CASE new # old
    <3>1. d = "deletes" /\ new = Recorded(d, p, time)[s]
      BY <1>5, <2>1, <2>5
    <3>2. /\ q = p
          /\ new.count <= 1 \/ (old.pid = p /\ new.count <= old.count + 1)
      BY <1>9, <2>5, <3>1, RecordedOk
    <3>3. deletes'[p] = IF deletes[p] < Threshold["deletes"] THEN deletes[p] + 1 ELSE deletes[p]
      BY <1>4, <3>1 DEF MonitorInv
    <3>4. old.pid = p => old.count <= deletes[p]
      BY <2>2, <3>2
    <3>5. PICK m \in Nat, a \in Nat, b \in Nat, c \in Nat, limit \in Nat :
            /\ m = new.count /\ a = old.count /\ b = deletes[p] /\ c = deletes'[p]
            /\ limit = Threshold["deletes"]
      BY <1>7, <2>1, <2>3, <3>2
    <3>6. m <= limit /\ (m <= 1 \/ (a <= b /\ m <= a + 1)) /\ c = (IF b < limit THEN b + 1 ELSE b)
      BY <2>3, <3>2, <3>3, <3>4, <3>5
    <3>7. m <= c
      BY <3>6
    <3> QED BY <3>2, <3>5, <3>7
  <2> QED BY <2>4, <2>5
<1> QED BY <1>4, <1>5, <1>6, <1>8, <1>9 DEF MonitorInv

\* Ageing and forgetting leave a slot as it was or empty it; only forgetting gives it away.
LEMMA EmptiedOk ==
  ASSUME MonitorInv, NEW d \in Tables, NEW s \in Slots, NEW slot,
         \/ slot = tables[d][s]
         \/ slot = [tables[d][s] EXCEPT !.flag = FALSE, !.count = 0]
         \/ slot = [tables[d][s] EXCEPT !.pid = NoPid, !.count = 0, !.flag = FALSE]
  PROVE  SlotOk(d, slot) /\ (slot = tables[d][s] \/ slot.count = 0)
<1>1. Threshold[d] \in Nat \ {0, 1}
  BY MonitorAssumption
<1>2. SlotOk(d, tables[d][s])
  BY DEF MonitorInv, TableOk
<1>3. CASE slot = tables[d][s]
  BY <1>2, <1>3
<1>4. ASSUME NEW p \in Pids \cup {NoPid}, NEW time \in 0..MaxTime,
             slot = [pid |-> p, count |-> 0, start |-> time, flag |-> FALSE]
      PROVE  SlotOk(d, slot) /\ slot.count = 0
  <2>1. 0 \in 0..Threshold[d] /\ 0 # Threshold[d] /\ (FALSE <=> 0 = Threshold[d])
    BY <1>1
  <2>2. SlotOk(d, [pid |-> p, count |-> 0, start |-> time, flag |-> FALSE])
    BY <2>1, SlotMade
  <2> QED BY <1>4, <2>2
<1>5. /\ tables[d][s].pid \in Pids \cup {NoPid} /\ tables[d][s].start \in 0..MaxTime
      /\ tables[d][s] = [pid |-> tables[d][s].pid, count |-> tables[d][s].count,
                         start |-> tables[d][s].start, flag |-> tables[d][s].flag]
  BY <1>2 DEF SlotOk, Slot
<1>6. CASE slot = [tables[d][s] EXCEPT !.flag = FALSE, !.count = 0]
  <2>1. slot = [pid |-> tables[d][s].pid, count |-> 0, start |-> tables[d][s].start,
                flag |-> FALSE]
    BY <1>5, <1>6
  <2> QED BY <1>4, <1>5, <2>1
<1>7. CASE slot = [tables[d][s] EXCEPT !.pid = NoPid, !.count = 0, !.flag = FALSE]
  <2>1. slot = [pid |-> NoPid, count |-> 0, start |-> tables[d][s].start, flag |-> FALSE]
    BY <1>5, <1>7
  <2> QED BY <1>4, <1>5, <2>1
<1> QED BY <1>3, <1>6, <1>7

LEMMA RateKeeps ==
  ASSUME MonitorInv, NEW t \in Threads, Rate(t)
  PROVE  MonitorInv'
<1>1. /\ \/ tables' = tables
         \/ tables' = [d \in Tables |-> Aged(d, Pid(t), seen[t])]
      /\ now' = now /\ deletes' = deletes
  BY DEF Rate, AfterRating
<1>2. /\ tables' = [d \in Tables |-> tables'[d]]
      /\ \A d \in Tables : tables'[d] = [s \in Slots |-> tables'[d][s]]
  BY <1>1 DEF MonitorInv, TableOk, Aged
<1>3. ASSUME NEW d \in Tables, NEW s \in Slots
      PROVE  SlotOk(d, tables'[d][s]) /\ (tables'[d][s] = tables[d][s] \/ tables'[d][s].count = 0)
  <2>1. \/ tables'[d][s] = tables[d][s]
        \/ tables'[d][s] = [tables[d][s] EXCEPT !.flag = FALSE, !.count = 0]
    <3>1. CASE tables' = [e \in Tables |-> Aged(e, Pid(t), seen[t])]
      <4>1. tables'[d][s] = Aged(d, Pid(t), seen[t])[s]
        BY <3>1
      <4>2. \/ Aged(d, Pid(t), seen[t])[s] = tables[d][s]
            \/ Aged(d, Pid(t), seen[t])[s] = [tables[d][s] EXCEPT !.flag = FALSE, !.count = 0]
        BY Zenon DEF Aged
      <4> QED BY <4>1, <4>2
    <3> QED BY <1>1, <3>1
  <2> QED BY <2>1, EmptiedOk
<1>4. ASSUME NEW s \in Slots, NEW p \in Pids, tables'["deletes"][s].pid = p
      PROVE  tables'["deletes"][s].count <= deletes'[p]
  <2>1. "deletes" \in Tables
    BY DEF Tables
  <2>2. deletes[p] \in Nat
    BY DEF MonitorInv
  <2>3. CASE tables'["deletes"][s] = tables["deletes"][s]
    BY <1>1, <1>4, <2>3 DEF MonitorInv
  <2>4. CASE tables'["deletes"][s].count = 0
    BY <1>1, <2>2, <2>4
  <2> QED BY <1>3, <2>1, <2>3, <2>4
<1> QED BY <1>1, <1>2, <1>3, <1>4 DEF MonitorInv, TableOk

LEMMA ExitKeeps ==
  ASSUME MonitorInv, NEW p \in Pids, Exit(p)
  PROVE  MonitorInv'
<1>1. /\ tables' = [d \in Tables |-> Forgotten(d, p)] /\ now' = now
      /\ deletes' = [deletes EXCEPT ![p] = 0]
  BY DEF Exit, AfterExit
<1>2. /\ tables' = [d \in Tables |-> tables'[d]]
      /\ \A d \in Tables : tables'[d] = [s \in Slots |-> tables'[d][s]]
  BY <1>1 DEF Forgotten
<1>3. ASSUME NEW d \in Tables, NEW s \in Slots
      PROVE  /\ SlotOk(d, tables'[d][s]) /\ tables'[d][s].pid # p
             /\ tables'[d][s] = tables[d][s] \/ tables'[d][s].count = 0
  <2>1. tables'[d][s] =
          IF tables[d][s].pid = p
          THEN [tables[d][s] EXCEPT !.pid = NoPid, !.count = 0, !.flag = FALSE]
          ELSE tables[d][s]
    BY <1>1 DEF Forgotten
  <2>2. SlotOk(d, tables'[d][s]) /\ (tables'[d][s] = tables[d][s] \/ tables'[d][s].count = 0)
    BY <2>1, EmptiedOk
  <2>3. tables'[d][s].pid # p
    <3>1. tables[d][s] \in Slot(d) /\ p # NoPid
      BY MonitorAssumption DEF MonitorInv, TableOk, SlotOk
    <3> QED BY <2>1, <3>1 DEF Slot
  <2> QED BY <2>2, <2>3
<1>4. deletes' \in [Pids -> Nat]
  BY <1>1 DEF MonitorInv
<1>5. ASSUME NEW s \in Slots, NEW q \in Pids, tables'["deletes"][s].pid = q
      PROVE  tables'["deletes"][s].count <= deletes'[q]
  <2>1. "deletes" \in Tables
    BY DEF Tables
  <2>2. q # p /\ deletes'[q] = deletes[q] /\ deletes[q] \in Nat
    BY <1>1, <1>3, <1>5, <2>1 DEF MonitorInv
  <2> QED BY <1>3, <1>5, <2>1, <2>2 DEF MonitorInv
<1> QED BY <1>1, <1>2, <1>3, <1>4, <1>5 DEF MonitorInv, TableOk

LEMMA MonitorStart == Init => MonitorInv
<1> SUFFICES ASSUME Init PROVE MonitorInv
  OBVIOUS
<1>1. ASSUME NEW d \in Tables
      PROVE  Threshold[d] \in Nat \ {0, 1} /\ MaxTime \in Nat
  BY MonitorAssumption
<1>2. ASSUME NEW d \in Tables, NEW s \in Slots
      PROVE  SlotOk(d, [pid |-> NoPid, count |-> 0, start |-> 0, flag |-> FALSE])
  <2>1. /\ 0 \in 0..Threshold[d] /\ 0 \in 0..MaxTime /\ (FALSE <=> 0 = Threshold[d])
    BY <1>1
  <2> QED BY <2>1, SlotMade
<1>3. /\ tables = [d \in Tables |->
                   [s \in Slots |-> [pid |-> NoPid, count |-> 0, start |-> 0, flag |-> FALSE]]]
      /\ now = 0 /\ deletes = [p \in Pids |-> 0]
  BY DEF Init, MonitorInit
<1>4. "deletes" \in Tables /\ MaxTime \in Nat /\ NoPid \notin Pids
  BY MonitorAssumption DEF Tables
<1>5. /\ tables = [d \in Tables |-> tables[d]] /\ \A d \in Tables : TableOk(d, tables[d])
  BY <1>2, <1>3 DEF TableOk
<1>6. \A s \in Slots : tables["deletes"][s].pid = NoPid
  BY <1>3, <1>4
<1>7. now \in 0..MaxTime /\ deletes \in [Pids -> Nat]
  BY <1>3, <1>4
<1>8. \A s \in Slots, p \in Pids :
        tables["deletes"][s].pid = p => tables["deletes"][s].count <= deletes[p]
  BY <1>4, <1>6
<1> QED BY <1>5, <1>7, <1>8 DEF MonitorInv

LEMMA MonitorStep == MonitorInv /\ Times /\ [Next]_vars => MonitorInv'
<1> SUFFICES ASSUME MonitorInv, Times, [Next]_vars PROVE MonitorInv'
  OBVIOUS
<1>1. CASE UNCHANGED <<tables, now, deletes>>
  BY <1>1 DEF MonitorInv, TableOk
<1>2. ASSUME NEW t \in Threads, Count(t) PROVE MonitorInv'
  BY <1>2, CountKeeps
<1>3. ASSUME NEW t \in Threads, Rate(t) PROVE MonitorInv'
  BY <1>3, RateKeeps
<1>4. ASSUME NEW p \in Pids, Exit(p) PROVE MonitorInv'
  BY <1>4, ExitKeeps
<1>5. CASE Clock
  <2>1. tables' = tables /\ deletes' = deletes /\ now' \in 0..MaxTime
    BY <1>5, MonitorAssumption DEF Clock, Tick, MonitorInv
  <2> QED BY <2>1 DEF MonitorInv, TableOk
<1>6. CASE UNCHANGED vars
  BY <1>1, <1>6 DEF vars, monitorVars, countVars
<1>7. ASSUME NEW t \in Threads, NEW h \in Handles,
             \/ OpenToWrite(t, h) \/ Write(t, h) \/ Cleanup(t, h)
             \/ SetInformation(t, h, "delete", NoPath)
             \/ \E to \in Targets : SetInformation(t, h, "rename", to)
      PROVE  UNCHANGED <<tables, now, deletes>>
  BY <1>7 DEF OpenToWrite, Write, Cleanup, SetInformation, monitorVars, countVars
<1>8. ASSUME NEW t \in Threads,
             \/ OpenToRead(t) \/ KeepBootContext(t) \/ ReadClock(t)
             \/ CreateSucceeds(t) \/ CreateFails(t) \/ PostCreate(t) \/ Mark(t)
             \/ TargetUnnamed(t) \/ CheckTarget(t) \/ Rename(t) \/ Effect(t) \/ CheckBoot(t)
             \/ Close(t) \/ \E d \in Answers : Answer(t, d)
      PROVE  UNCHANGED <<tables, now, deletes>>
  BY <1>8 DEF OpenToRead, KeepBootContext, ReadClock, CreateSucceeds, CreateFails, PostCreate,
       Mark, TargetUnnamed, CheckTarget, Rename, Effect, CheckBoot, Close, Answer, monitorVars,
       countVars
<1>9. ASSUME NEW g \in BootConfigs, Configure(g) PROVE UNCHANGED <<tables, now, deletes>>
  BY <1>9 DEF Configure, monitorVars, countVars
<1> QED BY <1>1, <1>2, <1>3, <1>4, <1>5, <1>6, <1>7, <1>8, <1>9 DEF Next

\* A flagged slot has counted as many deletes as the threshold, and they are the process' own.
LEMMA FlagIsEarned == MonitorInv => FlagIsOwn
<1> SUFFICES ASSUME MonitorInv, NEW p \in Pids, NEW s \in Slots,
                    tables["deletes"][s].pid = p, tables["deletes"][s].flag
             PROVE  deletes[p] >= Threshold["deletes"]
  BY DEF FlagIsOwn, Flagged
<1>1. "deletes" \in Tables
  BY DEF Tables
<1>2. SlotOk("deletes", tables["deletes"][s]) /\ tables["deletes"][s].count <= deletes[p]
  BY <1>1 DEF MonitorInv, TableOk
<1>3. tables["deletes"][s].count = Threshold["deletes"]
  BY <1>2 DEF SlotOk
<1>4. Threshold["deletes"] \in Nat /\ deletes[p] \in Nat
  BY <1>1, MonitorAssumption DEF MonitorInv
<1> QED BY <1>2, <1>3, <1>4

----------------------------------------------------------------------------
(* Requests: types, and what each place says of the request there *)

Kinds == {"none", "open", "write", "rename", "delete", "cleanup"}
Opening == {"keeping", "creating", "opened", "rating"} \cup Tables
Places == Opening \cup {"idle", "boot", "asking", "writing", "marking", "target", "renaming",
                       "deleting", "closing"}
Reasons == {"none", "boot", "autorun", "rule", "rename", "scan"}
Names == Paths \cup {NoPath}
Jobs == [kind : Kinds, handle : Handles \cup {NoPath}, path : Names, to : Names,
         access : Accesses, subject : Names]

Types ==
  /\ at \in [Threads -> Places] /\ job \in [Threads -> Jobs] /\ reason \in [Threads -> Reasons]
  /\ boot \in [Threads -> BOOLEAN] /\ seen \in [Threads -> 0..MaxTime \cup {NoTime}]
  /\ covered \in [Threads -> BOOLEAN] /\ allowed \in [Threads -> BOOLEAN]
  /\ name \in [Handles -> Names] /\ openedAs \in [Handles -> Names]
  /\ context \in [Handles -> Paths \cup {"none", "dirty"}]
  /\ guarded \in SUBSET Paths

\* A request to open a file for reading holds no file object; every other one holds its own.
ReadOpen(t) == Kind(t) = "open" /\ job[t].access = "read"
Holds(t) == Kind(t) # "none" /\ ~ReadOpen(t)
RequestOk(t) ==
  /\ at[t] = "idle" <=> Kind(t) = "none"
  /\ at[t] = "idle" => ~covered[t] /\ ~boot[t]
  /\ Kind(t) = "open" => Path(t) \in Paths
  /\ Kind(t) = "rename" => job[t].to \in Paths
  /\ Holds(t) => Handle(t) \in Handles
  /\ ReadOpen(t) => at[t] \in {"rating", "creating"}
  /\ boot[t] => at[t] \in {"creating", "opened"} /\ ~ReadOpen(t)
  /\ at[t] = "opened" => boot[t]
PlaceOk(t) ==
  /\ at[t] \in Opening => Kind(t) = "open"
  /\ at[t] = "boot" => Kind(t) \in {"open", "write", "rename", "delete"}
  /\ at[t] \in {"writing", "marking"} => Kind(t) = "write"
  /\ at[t] \in {"target", "renaming"} => Kind(t) = "rename"
  /\ at[t] = "deleting" => Kind(t) = "delete"
  /\ at[t] = "closing" => Kind(t) = "cleanup"
  /\ at[t] = "asking" /\ Kind(t) = "cleanup" => reason[t] = "scan"
RequestsInv == Types /\ \A t \in Threads : RequestOk(t) /\ PlaceOk(t)

\* A step of one thread leaves the requests of the others as they are.
Same(t) ==
  /\ at'[t] = at[t] /\ job'[t] = job[t] /\ reason'[t] = reason[t] /\ boot'[t] = boot[t]
  /\ covered'[t] = covered[t] /\ allowed'[t] = allowed[t]
StepOf(t) == \A u \in Threads \ {t} : Same(u)
\* Its own request begins, ends or goes on with the same file object.
Goes(t) == job'[t].kind = job[t].kind /\ job'[t].handle = job[t].handle
           /\ job'[t].path = job[t].path /\ job'[t].to = job[t].to
           /\ job'[t].access = job[t].access

LEMMA RequestsStart == Init => RequestsInv
<1> SUFFICES ASSUME Init PROVE RequestsInv
  OBVIOUS
<1>1. NoJob \in Jobs
  BY DEF NoJob, Jobs, Kinds, Names, Accesses
<1>2. Types
  BY <1>1 DEF Init, Types, Places, Reasons, Names
<1>3. \A t \in Threads : at[t] = "idle" /\ job[t] = NoJob /\ ~covered[t] /\ ~boot[t]
  BY DEF Init
<1>4. \A t \in Threads : RequestOk(t) /\ PlaceOk(t)
  BY <1>3 DEF RequestOk, PlaceOk, ReadOpen, Holds, NoJob, Kind, Path, Handle, Opening, Tables
<1> QED BY <1>2, <1>4 DEF RequestsInv

LEMMA SameKeeps ==
  ASSUME RequestsInv, NEW t \in Threads, Same(t)
  PROVE  (RequestOk(t) /\ PlaceOk(t))'
BY DEF RequestsInv, RequestOk, PlaceOk, Same, ReadOpen, Holds, Kind, Path, Handle

\* How a thread's own part moves.
LEMMA ReturnFacts ==
  ASSUME RequestsInv, NEW t \in Threads, Return(t)
  PROVE  /\ StepOf(t) /\ at'[t] = "idle" /\ job'[t] = NoJob /\ ~covered'[t] /\ ~boot'[t]
         /\ at' \in [Threads -> Places] /\ job' \in [Threads -> Jobs]
         /\ reason' \in [Threads -> Reasons] /\ boot' \in [Threads -> BOOLEAN]
         /\ seen' \in [Threads -> 0..MaxTime \cup {NoTime}]
         /\ covered' \in [Threads -> BOOLEAN] /\ allowed' \in [Threads -> BOOLEAN]
         /\ (RequestOk(t) /\ PlaceOk(t))'
<1>1. NoJob \in Jobs
  BY DEF NoJob, Jobs, Kinds, Names, Accesses
<1>2. /\ StepOf(t) /\ at'[t] = "idle" /\ job'[t] = NoJob /\ ~covered'[t] /\ ~boot'[t]
  BY DEF RequestsInv, Types, Return, Go, StepOf, Same
<1>3. /\ at' \in [Threads -> Places] /\ job' \in [Threads -> Jobs]
      /\ reason' \in [Threads -> Reasons] /\ boot' \in [Threads -> BOOLEAN]
      /\ seen' \in [Threads -> 0..MaxTime \cup {NoTime}]
      /\ covered' \in [Threads -> BOOLEAN] /\ allowed' \in [Threads -> BOOLEAN]
  BY <1>1 DEF RequestsInv, Types, Return, Go, Places, Reasons
<1>4. (RequestOk(t) /\ PlaceOk(t))'
  BY <1>2 DEF RequestOk, PlaceOk, NoJob, Kind, Path, Handle, ReadOpen, Holds, Opening, Tables
<1> QED BY <1>2, <1>3, <1>4

LEMMA Assemble ==
  ASSUME RequestsInv, NEW t \in Threads, StepOf(t), Types', (RequestOk(t) /\ PlaceOk(t))'
  PROVE  RequestsInv'
<1>1. ASSUME NEW u \in Threads PROVE (RequestOk(u) /\ PlaceOk(u))'
  <2>1. CASE u = t
    BY <2>1
  <2>2. CASE u # t
    BY <2>2, SameKeeps DEF StepOf
  <2> QED BY <2>1, <2>2
<1> QED BY <1>1 DEF RequestsInv

\* The move of a request that goes on: to a place, with a reason.
Move(t, place, why) == at' = [at EXCEPT ![t] = place] /\ reason' = [reason EXCEPT ![t] = why]

LEMMA MoveFacts ==
  ASSUME RequestsInv, NEW t \in Threads, NEW place \in Places, NEW why \in Reasons,
         Move(t, place, why), job' = job, boot' = boot, covered' = covered, allowed' = allowed
  PROVE  /\ StepOf(t) /\ at'[t] = place /\ reason'[t] = why
         /\ at' \in [Threads -> Places] /\ reason' \in [Threads -> Reasons]
BY DEF RequestsInv, Types, Move, StepOf, Same

LEMMA GoMoves ==
  ASSUME RequestsInv, NEW t \in Threads, NEW place, Go(t, place), reason' = reason
  PROVE  Move(t, place, reason[t]) /\ reason[t] \in Reasons
BY DEF RequestsInv, Types, Go, Move

AfterNames == {"creating", "writes", "deletes", "rating"}
LEMMA AfterRulesPlace ==
  ASSUME NEW p, NEW path, NEW access
  PROVE  AfterRules(p, path, access) \in AfterNames
BY DEF AfterRules, AfterWrites, AfterNames

LEMMA RulesMove ==
  ASSUME RequestsInv, NEW t \in Threads, NEW p, NEW path, NEW access, Rules(t, p, path, access)
  PROVE  \E place \in AfterNames \cup {"asking"}, why \in Reasons : Move(t, place, why)
<1>1. CASE path \in Ruled /\ Ask(t, "rule")
  BY <1>1 DEF Ask, Go, Move, Reasons
<1>2. CASE Go(t, AfterRules(p, path, access)) /\ reason' = reason
  BY <1>2, GoMoves, AfterRulesPlace
<1> QED BY <1>1, <1>2 DEF Rules

\* Where a request goes that its boot check or the client has let through.
Onward(t, place) ==
  \/ Kind(t) = "open" /\ place \in AfterNames \cup {"keeping", "asking"}
  \/ Kind(t) = "write" /\ place \in {"marking", "writing"}
  \/ Kind(t) = "rename" /\ place = "renaming"
  \/ Kind(t) = "delete" /\ place = "deleting"
  \/ Kind(t) = "cleanup" /\ place = "closing"
LEMMA ProceedMoves ==
  ASSUME RequestsInv, NEW t \in Threads, Proceed(t)
  PROVE  \E place \in Places, why \in Reasons : Move(t, place, why) /\ Onward(t, place)
<1>1. ASSUME NEW place \in Places, Onward(t, place), Go(t, place), reason' = reason
      PROVE  \E to \in Places, why \in Reasons : Move(t, to, why) /\ Onward(t, to)
  BY <1>1, GoMoves
<1>2. AfterNames \cup {"keeping", "asking", "marking", "writing", "renaming", "deleting", "closing"}
        \subseteq Places
  BY DEF AfterNames, Places, Opening, Tables
<1>3. CASE Kind(t) = "open" /\ Why(t) = "boot" /\ Go(t, "keeping") /\ reason' = reason
  BY <1>1, <1>2, <1>3 DEF Onward
<1>4. CASE Kind(t) = "open" /\ Rules(t, Pid(t), Path(t), job[t].access)
  BY <1>2, <1>4, RulesMove DEF Onward
<1>5. CASE Kind(t) = "open" /\ Go(t, AfterRules(Pid(t), Path(t), job[t].access)) /\ reason' = reason
  BY <1>1, <1>2, <1>5, AfterRulesPlace DEF Onward
<1>6. CASE Kind(t) = "write" /\ reason' = reason
           /\ Go(t, IF context[Handle(t)] = "none" THEN "marking" ELSE "writing")
  BY <1>1, <1>2, <1>6 DEF Onward
<1>7. CASE Kind(t) = "rename" /\ Go(t, "renaming") /\ reason' = reason
  BY <1>1, <1>2, <1>7 DEF Onward
<1>8. CASE Kind(t) = "delete" /\ Go(t, "deleting") /\ reason' = reason
  BY <1>1, <1>2, <1>8 DEF Onward
<1>9. CASE Kind(t) = "cleanup" /\ Go(t, "closing") /\ reason' = reason
  BY <1>1, <1>2, <1>9 DEF Onward
<1> QED BY <1>3, <1>4, <1>5, <1>6, <1>7, <1>8, <1>9 DEF Proceed

\* What the threads' own variables are after a step.
ThreadTypes ==
  /\ at \in [Threads -> Places] /\ job \in [Threads -> Jobs] /\ reason \in [Threads -> Reasons]
  /\ boot \in [Threads -> BOOLEAN] /\ seen \in [Threads -> 0..MaxTime \cup {NoTime}]
  /\ covered \in [Threads -> BOOLEAN] /\ allowed \in [Threads -> BOOLEAN]
HandleTypes ==
  /\ name \in [Handles -> Names] /\ openedAs \in [Handles -> Names]
  /\ context \in [Handles -> Paths \cup {"none", "dirty"}]

LEMMA TypesSplit ==
  /\ Types <=> ThreadTypes /\ HandleTypes /\ guarded \in SUBSET Paths
  /\ Types' <=> ThreadTypes' /\ HandleTypes' /\ guarded' \in SUBSET Paths
BY DEF Types, ThreadTypes, HandleTypes

LEMMA HandlesStand ==
  ASSUME RequestsInv, UNCHANGED handleVars PROVE HandleTypes'
BY DEF RequestsInv, Types, HandleTypes, handleVars

\* Whether a path is protected is a Boolean.
LEMMA CoverMoves ==
  ASSUME NEW t \in Threads, NEW path, NEW paths, covered' = [covered EXCEPT ![t] = path \in paths]
  PROVE  \E under \in BOOLEAN :
           covered' = [covered EXCEPT ![t] = under] /\ (under <=> path \in paths)
<1>1. CASE path \in paths
  <2>1. (path \in paths) = TRUE
    BY <1>1
  <2>2. covered' = [covered EXCEPT ![t] = TRUE]
    BY <2>1
  <2> QED BY <1>1, <2>2
<1>2. CASE path \notin paths
  <2>1. (path \in paths) = FALSE
    BY <1>2
  <2>2. covered' = [covered EXCEPT ![t] = FALSE]
    BY <2>1
  <2> QED BY <1>2, <2>2
<1> QED BY <1>1, <1>2

\* A request arrives.
LEMMA BeginFacts ==
  ASSUME RequestsInv, NEW t \in Threads, NEW kind \in Kinds, NEW h \in Handles \cup {NoPath},
         NEW path \in Names, NEW to \in Names, NEW access \in Accesses, NEW subject \in Names,
         NEW place \in Places \ {"idle"}, NEW why \in Reasons, NEW under \in BOOLEAN,
         Begin(t, kind, h, path, to, access, subject), Move(t, place, why),
         covered' = [covered EXCEPT ![t] = under]
  PROVE  /\ ThreadTypes' /\ StepOf(t) /\ at[t] = "idle" /\ Kind(t) = "none"
         /\ at'[t] = place /\ reason'[t] = why /\ ~boot'[t] /\ covered'[t] = under
         /\ job'[t] = [kind |-> kind, handle |-> h, path |-> path, to |-> to, access |-> access,
                       subject |-> subject]
<1> DEFINE new == [kind |-> kind, handle |-> h, path |-> path, to |-> to, access |-> access,
                   subject |-> subject]
<1>1. new \in Jobs
  BY DEF Jobs
<1> HIDE DEF new
<1>2. at[t] = "idle" /\ job' = [job EXCEPT ![t] = new] /\ boot' = boot /\ seen' = seen
      /\ allowed' = allowed
  BY DEF Begin, new
<1>3. Kind(t) = "none" /\ ~boot[t]
  BY <1>2 DEF RequestsInv, RequestOk
<1>4. ThreadTypes'
  BY <1>1, <1>2 DEF RequestsInv, Types, ThreadTypes, Move
<1>5. StepOf(t) /\ at'[t] = place /\ reason'[t] = why /\ ~boot'[t] /\ covered'[t] = under
  BY <1>2, <1>3 DEF RequestsInv, Types, StepOf, Same, Move
<1>6. job'[t] = new
  BY <1>2 DEF RequestsInv, Types
<1> QED BY <1>2, <1>3, <1>4, <1>5, <1>6 DEF new

LEMMA OpenToReadStep ==
  ASSUME RequestsInv, NEW t \in Threads, OpenToRead(t)
  PROVE  RequestsInv' /\ StepOf(t) /\ ReadOpen(t)'
<1>1. PICK path \in Paths : Begin(t, "open", NoPath, path, NoPath, "read", NoPath)
  BY DEF OpenToRead
<1>2. covered' = [covered EXCEPT ![t] = covered[t]] /\ covered[t] \in BOOLEAN
  BY DEF OpenToRead, RequestsInv, Types
<1>3. Move(t, "rating", reason[t]) /\ reason[t] \in Reasons
  BY GoMoves DEF OpenToRead
<1>4. /\ "rating" \in Places \ {"idle"} /\ "open" \in Kinds /\ "read" \in Accesses
      /\ path \in Names /\ NoPath \in Names
  BY DEF Places, Opening, Kinds, Accesses, Names
<1>5. /\ ThreadTypes' /\ StepOf(t) /\ at[t] = "idle"
      /\ at'[t] = "rating" /\ ~boot'[t]
      /\ job'[t] = [kind |-> "open", handle |-> NoPath, path |-> path, to |-> NoPath,
                    access |-> "read", subject |-> NoPath]
  BY <1>1, <1>2, <1>3, <1>4, BeginFacts
<1>6. (RequestOk(t) /\ PlaceOk(t))' /\ ReadOpen(t)'
  BY <1>5 DEF RequestOk, PlaceOk, Opening, Tables, ReadOpen, Holds, Kind, Path, Handle
<1>7. guarded' \in SUBSET Paths /\ HandleTypes'
  BY HandlesStand DEF OpenToRead, RequestsInv, Types
<1> QED BY <1>5, <1>6, <1>7, TypesSplit, Assemble

\* A thread holds the file object of its request, and shapes one that it creates or cleans up.
Holding(t, kind, h) == Kind(t) = kind /\ Handle(t) = h /\ Holds(t)
Opened(t, kind, h) ==
  /\ RequestsInv' /\ StepOf(t) /\ at[t] = "idle" /\ Kind(t) = "none" /\ Holding(t, kind, h)'

LEMMA OpenToWriteStep ==
  ASSUME RequestsInv, NEW t \in Threads, NEW h \in Handles, OpenToWrite(t, h)
  PROVE  Opened(t, "open", h) /\ at'[t] # "opened"
<1>1. PICK path \in Paths, access \in Accesses \ {"read"} :
        OpenUnnamed(t, h, path, access) \/ OpenNamed(t, h, path, access)
  BY DEF OpenToWrite
<1>2. PICK subject \in Names :
        /\ Begin(t, "open", h, path, NoPath, access, subject)
        /\ \E under \in BOOLEAN : covered' = [covered EXCEPT ![t] = under]
        /\ \E place \in AfterNames \cup {"asking", "boot"}, why \in Reasons : Move(t, place, why)
  <2>1. NoPath \in Names /\ path \in Names
    BY DEF Names
  <2>2. CASE OpenUnnamed(t, h, path, access)
    <3>1. covered' = [covered EXCEPT ![t] = covered[t]] /\ covered[t] \in BOOLEAN
      BY <2>2 DEF OpenUnnamed, RequestsInv, Types
    <3>2. Move(t, "creating", reason[t]) /\ reason[t] \in Reasons
      BY <2>2, GoMoves DEF OpenUnnamed
    <3> QED BY <2>1, <2>2, <3>1, <3>2 DEF OpenUnnamed, AfterNames
  <2>3. CASE OpenNamed(t, h, path, access)
    <3>1. \E under \in BOOLEAN : covered' = [covered EXCEPT ![t] = under]
      BY <2>3, CoverMoves DEF OpenNamed
    <3>2. CASE path \in guarded
      BY <2>1, <2>3, <3>1, <3>2, GoMoves DEF OpenNamed
    <3>3. CASE path \notin guarded /\ path \in Autorun
      <4>1. Ask(t, "autorun")
        BY <2>3, <3>3 DEF OpenNamed
      <4>2. Move(t, "asking", "autorun") /\ "autorun" \in Reasons
        BY <4>1 DEF Ask, Go, Move, Reasons
      <4> QED BY <2>1, <2>3, <3>1, <4>2 DEF OpenNamed
    <3>4. CASE path \notin guarded /\ path \notin Autorun
      BY <2>1, <2>3, <3>1, <3>4, RulesMove DEF OpenNamed
    <3> QED BY <3>2, <3>3, <3>4
  <2> QED BY <1>1, <2>2, <2>3
<1>3. PICK under \in BOOLEAN : covered' = [covered EXCEPT ![t] = under]
  BY <1>2
<1>4. PICK place \in AfterNames \cup {"asking", "boot"}, why \in Reasons : Move(t, place, why)
  BY <1>2
<1>5. /\ place \in Places \ {"idle"} /\ "open" \in Kinds /\ access \in Accesses
      /\ path \in Names /\ NoPath \in Names
  BY DEF AfterNames, Places, Opening, Tables, Kinds, Accesses, Names
<1>6. /\ ThreadTypes' /\ StepOf(t) /\ at[t] = "idle" /\ Kind(t) = "none"
      /\ at'[t] = place /\ ~boot'[t]
      /\ job'[t] = [kind |-> "open", handle |-> h, path |-> path, to |-> NoPath,
                    access |-> access, subject |-> subject]
  BY <1>2, <1>3, <1>4, <1>5, BeginFacts
<1>7. /\ (RequestOk(t) /\ PlaceOk(t))' /\ Holding(t, "open", h)'
      /\ at'[t] # "opened"
  BY <1>6 DEF RequestOk, PlaceOk, AfterNames, Opening, Tables, ReadOpen, Holds, Holding, Kind, Path,
       Handle
<1>8. guarded' \in SUBSET Paths /\ HandleTypes'
  BY HandlesStand DEF OpenToWrite, RequestsInv, Types
<1> QED BY <1>6, <1>7, <1>8, TypesSplit, Assemble DEF Opened

\* A mutation of a protected file, to which the client has agreed or is yet to be asked.
Mutations == {"write", "rename", "delete"}
Guarded(t) ==
  Kind(t) \in Mutations /\ covered[t] =>
    /\ Subject(t) \in guarded /\ (Kind(t) = "write" => Subject(t) = openedAs[Handle(t)])
    /\ at[t] = "boot" \/ (at[t] = "asking" /\ reason[t] = "boot")
       \/ (at[t] # "asking" /\ allowed[t])

LEMMA WriteStep ==
  ASSUME RequestsInv, NEW t \in Threads, NEW h \in Handles, Write(t, h)
  PROVE  /\ Opened(t, "write", h) /\ (covered'[t] => openedAs[h] \in guarded)
         /\ context[h] \in Paths => Subject(t)' = context[h] /\ at'[t] = "boot"
<1> DEFINE path == IF context[h] \in Paths THEN context[h] ELSE name[h]
<1>1. path \in Names /\ NoPath \in Names
  BY DEF RequestsInv, Types, Names
<1> HIDE DEF path
<1>2. Begin(t, "write", h, path, NoPath, "write", path) /\ UNCHANGED handleVars
      /\ guarded' = guarded
  BY DEF Write, path
<1>3. PICK under \in BOOLEAN :
        covered' = [covered EXCEPT ![t] = under] /\ (under <=> openedAs[h] \in guarded)
  BY CoverMoves DEF Write
<1>4. PICK place \in {"boot", "marking", "writing"} :
        Go(t, place) /\ (context[h] \in Paths => place = "boot")
  BY PathAssumption DEF Write
<1>5. Move(t, place, reason[t]) /\ reason[t] \in Reasons
  BY <1>4, GoMoves DEF Write
<1>6. /\ place \in Places \ {"idle"} /\ "write" \in Kinds /\ "write" \in Accesses
  BY DEF Places, Opening, Tables, Kinds, Accesses
<1>7. /\ ThreadTypes' /\ StepOf(t) /\ at[t] = "idle" /\ Kind(t) = "none"
      /\ at'[t] = place /\ ~boot'[t] /\ covered'[t] = under
      /\ job'[t] = [kind |-> "write", handle |-> h, path |-> path, to |-> NoPath,
                    access |-> "write", subject |-> path]
  BY <1>1, <1>2, <1>3, <1>5, <1>6, BeginFacts
<1>8. (RequestOk(t) /\ PlaceOk(t))' /\ Holding(t, "write", h)' /\ Subject(t)' = path
  BY <1>7 DEF RequestOk, PlaceOk, Opening, Tables, ReadOpen, Holds, Holding, Kind, Path, Handle,
       Subject
<1>9. guarded' \in SUBSET Paths /\ HandleTypes'
  BY <1>2, HandlesStand DEF RequestsInv, Types
<1> QED BY <1>3, <1>4, <1>7, <1>8, <1>9, TypesSplit, Assemble DEF Opened, path

LEMMA SetInformationStep ==
  ASSUME RequestsInv, NEW t \in Threads, NEW h \in Handles, NEW kind, NEW to \in Names,
         SetInformation(t, h, kind, to), kind = "delete" \/ (kind = "rename" /\ to \in Paths)
  PROVE  Opened(t, kind, h) /\ Guarded(t)'
<1>1. name[h] \in Names /\ NoPath \in Names /\ kind \in Kinds /\ "delete" \in Accesses
  BY DEF RequestsInv, Types, Names, Kinds, Accesses
<1>2. UNCHANGED handleVars /\ guarded' = guarded /\ reason' = reason
  BY DEF SetInformation
<1>3. PICK subject \in Names, under \in BOOLEAN,
           place \in {"boot", "deleting", "target", "renaming"} :
        /\ Begin(t, kind, h, name[h], to, "delete", subject)
        /\ covered' = [covered EXCEPT ![t] = under] /\ Go(t, place)
        /\ place \in (IF kind = "delete" THEN {"boot", "deleting"}
                      ELSE {"boot", "target", "renaming"})
        /\ under => subject \in guarded /\ place = "boot"
  <2>1. CASE /\ Begin(t, kind, h, name[h], to, "delete", NoPath)
             /\ Go(t, IF kind = "delete" THEN "deleting" ELSE "renaming")
             /\ UNCHANGED <<reason, covered>>
    <3>1. at[t] = "idle"
      BY <2>1 DEF Begin
    <3>2. covered[t] = FALSE
      BY <3>1 DEF RequestsInv, RequestOk, Types
    <3>3. covered' = [covered EXCEPT ![t] = FALSE]
      BY <2>1, <3>2 DEF RequestsInv, Types
    <3> QED BY <1>1, <2>1, <3>3
  <2>2. CASE /\ Begin(t, kind, h, name[h], to, "delete", name[h])
             /\ covered' = [covered EXCEPT ![t] = name[h] \in guarded]
             /\ IF name[h] \in guarded THEN Go(t, "boot")
                ELSE Go(t, IF kind = "delete" THEN "deleting" ELSE "target")
    <3>1. PICK under \in BOOLEAN :
            covered' = [covered EXCEPT ![t] = under] /\ (under <=> name[h] \in guarded)
      BY <2>2, CoverMoves
    <3>2. CASE name[h] \in guarded
      BY <1>1, <2>2, <3>1, <3>2
    <3>3. CASE name[h] \notin guarded
      BY <1>1, <2>2, <3>1, <3>3
    <3> QED BY <3>2, <3>3
  <2>3. \/ /\ Begin(t, kind, h, name[h], to, "delete", NoPath)
           /\ Go(t, IF kind = "delete" THEN "deleting" ELSE "renaming")
           /\ UNCHANGED <<reason, covered>>
        \/ /\ Begin(t, kind, h, name[h], to, "delete", name[h])
           /\ covered' = [covered EXCEPT ![t] = name[h] \in guarded]
           /\ IF name[h] \in guarded THEN Go(t, "boot")
              ELSE Go(t, IF kind = "delete" THEN "deleting" ELSE "target")
    BY DEF SetInformation
  <2> QED BY <2>1, <2>2, <2>3
<1>4. Move(t, place, reason[t]) /\ reason[t] \in Reasons
  BY <1>2, <1>3, GoMoves
<1>5. place \in Places \ {"idle"}
  BY <1>3 DEF Places, Opening, Tables
<1>6. /\ ThreadTypes' /\ StepOf(t) /\ at[t] = "idle" /\ Kind(t) = "none"
      /\ at'[t] = place /\ ~boot'[t] /\ covered'[t] = under
      /\ job'[t] = [kind |-> kind, handle |-> h, path |-> name[h], to |-> to,
                    access |-> "delete", subject |-> subject]
  BY <1>1, <1>3, <1>4, <1>5, BeginFacts
<1>7. (RequestOk(t) /\ PlaceOk(t))' /\ Holding(t, kind, h)'
  BY <1>3, <1>6 DEF RequestOk, PlaceOk, Opening, Tables, ReadOpen, Holds, Holding, Kind, Path, Handle
<1>8. Guarded(t)'
  BY <1>2, <1>3, <1>6 DEF Guarded, Kind, Subject, Handle
<1>9. guarded' \in SUBSET Paths /\ HandleTypes'
  BY <1>2, HandlesStand DEF RequestsInv, Types
<1> QED BY <1>6, <1>7, <1>8, <1>9, TypesSplit, Assemble DEF Opened

LEMMA CleanupStep ==
  ASSUME RequestsInv, NEW t \in Threads, NEW h \in Handles, Cleanup(t, h)
  PROVE  /\ RequestsInv'
         /\ \/ Forget(h) /\ UNCHANGED threadVars
            \/ Opened(t, "cleanup", h) /\ UNCHANGED <<name, openedAs>>
<1>1. /\ context' \in [Handles -> Paths \cup {"none", "dirty"}] /\ HandleTypes'
      /\ guarded' = guarded
  BY DEF Cleanup, Forget, RequestsInv, Types, HandleTypes, Names
<1>2. CASE Forget(h) /\ UNCHANGED threadVars
  <2>1. Types'
    BY <1>1, <1>2, TypesSplit DEF threadVars, ThreadTypes, RequestsInv
  <2>2. \A u \in Threads : (RequestOk(u) /\ PlaceOk(u))'
    BY <1>2, SameKeeps DEF threadVars, Same
  <2> QED BY <1>2, <2>1, <2>2 DEF RequestsInv
<1>3. CASE Begin(t, "cleanup", h, name[h], NoPath, "read", NoPath) /\ Ask(t, "scan")
           /\ UNCHANGED <<name, openedAs, covered>>
  <2>1. PICK under \in BOOLEAN : covered' = [covered EXCEPT ![t] = under]
    <3>1. covered' = [covered EXCEPT ![t] = covered[t]] /\ covered[t] \in BOOLEAN
      BY <1>3 DEF RequestsInv, Types
    <3> QED BY <3>1
  <2>2. Move(t, "asking", "scan")
    BY <1>3 DEF Ask, Go, Move
  <2>3. /\ "asking" \in Places \ {"idle"} /\ "scan" \in Reasons /\ "cleanup" \in Kinds
        /\ "read" \in Accesses /\ name[h] \in Names /\ NoPath \in Names
    BY DEF Places, Reasons, Kinds, Accesses, Names, RequestsInv, Types
  <2> DEFINE path == name[h]
  <2> HIDE DEF path
  <2>4. Begin(t, "cleanup", h, path, NoPath, "read", NoPath) /\ path \in Names
    BY <1>3, <2>3 DEF path
  <2>5. /\ ThreadTypes' /\ StepOf(t) /\ at[t] = "idle" /\ Kind(t) = "none"
        /\ at'[t] = "asking" /\ reason'[t] = "scan" /\ ~boot'[t]
        /\ job'[t] = [kind |-> "cleanup", handle |-> h, path |-> path, to |-> NoPath,
                      access |-> "read", subject |-> NoPath]
    BY <2>1, <2>2, <2>3, <2>4, BeginFacts
  <2>6. (RequestOk(t) /\ PlaceOk(t))' /\ Holding(t, "cleanup", h)'
    BY <2>5 DEF RequestOk, PlaceOk, Opening, Tables, ReadOpen, Holds, Holding, Kind, Path, Handle
  <2> QED BY <1>1, <1>3, <2>5, <2>6, TypesSplit, Assemble DEF Opened, RequestsInv, Types
<1> QED BY <1>2, <1>3 DEF Cleanup

\* A request ends, or goes on with its file object.
Ended(t) == RequestsInv' /\ StepOf(t) /\ job'[t] = NoJob
Continued(t) == RequestsInv' /\ StepOf(t) /\ Goes(t) /\ (at'[t] = "opened" => boot[t])

LEMMA EndStep ==
  ASSUME RequestsInv, NEW t \in Threads, Return(t), HandleTypes', guarded' = guarded
  PROVE  Ended(t)
BY ReturnFacts, TypesSplit, Assemble DEF Ended, ThreadTypes, RequestsInv

\* The places a request may be at, with the reason to wait.
Fits(t, place, why) ==
  /\ place \in Opening => Kind(t) = "open"
  /\ place = "boot" => Kind(t) \in {"open", "write", "rename", "delete"}
  /\ place \in {"writing", "marking"} => Kind(t) = "write"
  /\ place \in {"target", "renaming"} => Kind(t) = "rename"
  /\ place = "deleting" => Kind(t) = "delete"
  /\ place = "closing" => Kind(t) = "cleanup"
  /\ place = "asking" /\ Kind(t) = "cleanup" => why = "scan"

LEMMA ContinueStep ==
  ASSUME RequestsInv, NEW t \in Threads, NEW place \in Places \ {"idle", "opened"},
         NEW why \in Reasons, Move(t, place, why), at[t] # "idle", Fits(t, place, why),
         job' = job, boot' = boot, covered' = covered,
         seen' \in [Threads -> 0..MaxTime \cup {NoTime}],
         allowed' \in [Threads -> BOOLEAN], \A u \in Threads \ {t} : allowed'[u] = allowed[u],
         boot[t] => place = "creating", ReadOpen(t) => place \in {"rating", "creating"},
         HandleTypes', guarded' = guarded
  PROVE  Continued(t) /\ at'[t] = place /\ reason'[t] = why
<1>1. ThreadTypes' /\ StepOf(t) /\ at'[t] = place /\ reason'[t] = why
  BY DEF RequestsInv, Types, ThreadTypes, Move, StepOf, Same
<1>2. Types'
  BY <1>1, TypesSplit DEF RequestsInv
<1>3. RequestOk(t)'
  BY <1>1 DEF RequestsInv, RequestOk, ReadOpen, Holds, Kind, Path, Handle
<1>4. PlaceOk(t)'
  BY <1>1 DEF PlaceOk, Fits, Kind
<1>5. Goes(t)
  BY DEF Goes
<1> QED BY <1>1, <1>2, <1>3, <1>4, <1>5, Assemble DEF Continued

LEMMA KeepBootContextStep ==
  ASSUME RequestsInv, NEW t \in Threads, KeepBootContext(t)
  PROVE  Ended(t) \/ Continued(t)
<1>1. HandleTypes' /\ guarded' = guarded
  BY HandlesStand DEF KeepBootContext
<1>2. CASE Return(t)
  BY <1>1, <1>2, EndStep
<1>3. CASE Go(t, "creating") /\ boot' = [boot EXCEPT ![t] = TRUE]
           /\ UNCHANGED <<job, reason, seen, covered, allowed>>
  <2>1. at[t] = "keeping" /\ ~ReadOpen(t) /\ Kind(t) = "open"
    BY DEF KeepBootContext, RequestsInv, RequestOk, PlaceOk, Opening
  <2>2. /\ ThreadTypes' /\ StepOf(t) /\ at'[t] = "creating" /\ boot'[t] = TRUE
        /\ job'[t] = job[t] /\ reason'[t] = reason[t] /\ covered'[t] = covered[t]
    BY <1>3 DEF RequestsInv, Types, ThreadTypes, Go, StepOf, Same, Places, Opening
  <2>3. Types'
    BY <1>1, <2>2, TypesSplit DEF RequestsInv
  <2>4. (RequestOk(t) /\ PlaceOk(t))' /\ Goes(t)
    BY <2>1, <2>2 DEF RequestsInv, RequestOk, PlaceOk, Opening, Tables, ReadOpen, Holds, Kind, Path,
       Handle, Goes
  <2> QED BY <2>2, <2>3, <2>4, Assemble DEF Continued
<1> QED BY <1>2, <1>3 DEF KeepBootContext

LEMMA MonitorPlaces ==
  ASSUME RequestsInv, NEW t \in Threads, at[t] \in Tables \cup {"rating"}
  PROVE  /\ Kind(t) = "open" /\ ~boot[t] /\ at[t] # "idle"
         /\ ReadOpen(t) => at[t] = "rating"
BY DEF RequestsInv, RequestOk, PlaceOk, Opening, Tables

LEMMA ReadClockStep ==
  ASSUME RequestsInv, NEW t \in Threads, now \in 0..MaxTime, ReadClock(t)
  PROVE  Continued(t)
<1>1. HandleTypes' /\ guarded' = guarded
  BY HandlesStand DEF ReadClock
<1>2. /\ seen' \in [Threads -> 0..MaxTime \cup {NoTime}]
      /\ UNCHANGED <<at, job, reason, boot, covered, allowed>>
  BY DEF ReadClock, RequestsInv, Types
<1>3. at[t] \in Places \ {"idle", "opened"} /\ reason[t] \in Reasons
  BY DEF ReadClock, Tables, Places, Opening, RequestsInv, Types
<1>4. Move(t, at[t], reason[t])
  BY <1>2 DEF Move, RequestsInv, Types
<1>5. Fits(t, at[t], reason[t])
  BY DEF RequestsInv, PlaceOk, Fits
<1>6. /\ allowed' \in [Threads -> BOOLEAN] /\ \A u \in Threads \ {t} : allowed'[u] = allowed[u]
      /\ ~boot[t] /\ (ReadOpen(t) => at[t] \in {"rating", "creating"})
  BY <1>2, MonitorPlaces DEF RequestsInv, Types, ReadClock
<1> QED BY <1>1, <1>2, <1>3, <1>4, <1>5, <1>6, ContinueStep

LEMMA MonitorGoes ==
  ASSUME RequestsInv, NEW t \in Threads, at[t] \in Tables \cup {"rating"},
         NEW place \in AfterNames, at[t] = "rating" => place = "creating", Go(t, place),
         seen' = [seen EXCEPT ![t] = NoTime], UNCHANGED <<job, reason, boot, covered, allowed>>,
         HandleTypes', guarded' = guarded
  PROVE  Continued(t)
<1>1. place \in Places \ {"idle", "opened"} /\ place \in Opening
  BY DEF AfterNames, Places, Opening, Tables
<1>2. Move(t, place, reason[t]) /\ reason[t] \in Reasons
  BY GoMoves
<1>3. /\ Kind(t) = "open" /\ ~boot[t] /\ at[t] # "idle"
      /\ ReadOpen(t) => place \in {"rating", "creating"}
  BY MonitorPlaces
<1>4. Fits(t, place, reason[t])
  BY <1>3 DEF Fits, AfterNames
<1>5. /\ seen' \in [Threads -> 0..MaxTime \cup {NoTime}] /\ allowed' \in [Threads -> BOOLEAN]
      /\ \A u \in Threads \ {t} : allowed'[u] = allowed[u]
  BY DEF RequestsInv, Types
<1> QED BY <1>1, <1>2, <1>3, <1>4, <1>5, ContinueStep

LEMMA CountStep ==
  ASSUME RequestsInv, NEW t \in Threads, Count(t)
  PROVE  Ended(t) \/ Continued(t)
<1>1. HandleTypes' /\ guarded' = guarded /\ at[t] \in Tables
  BY HandlesStand DEF Count
<1>2. CASE Return(t)
  BY <1>1, <1>2, EndStep
<1>3. CASE /\ Go(t, IF at[t] = "writes" THEN AfterWrites(Pid(t), Path(t), job[t].access)
                   ELSE "rating")
           /\ seen' = [seen EXCEPT ![t] = NoTime]
           /\ UNCHANGED <<job, reason, boot, covered, allowed>>
  <2>1. PICK place \in AfterNames : Go(t, place)
    BY <1>3 DEF AfterWrites, AfterNames
  <2>2. at[t] # "rating"
    BY <1>1 DEF Tables
  <2> QED BY <1>1, <1>3, <2>1, <2>2, MonitorGoes
<1> QED BY <1>2, <1>3 DEF Count

LEMMA RateStep ==
  ASSUME RequestsInv, NEW t \in Threads, Rate(t)
  PROVE  Ended(t) \/ Continued(t)
<1>1. HandleTypes' /\ guarded' = guarded /\ at[t] = "rating" /\ "creating" \in AfterNames
  BY HandlesStand DEF Rate, AfterNames
<1>2. CASE Return(t)
  BY <1>1, <1>2, EndStep
<1>3. CASE Go(t, "creating") /\ seen' = [seen EXCEPT ![t] = NoTime]
           /\ UNCHANGED <<job, reason, boot, covered, allowed>>
  BY <1>1, <1>3, MonitorGoes
<1> QED BY <1>2, <1>3 DEF Rate

LEMMA CreateSucceedsStep ==
  ASSUME RequestsInv, NEW t \in Threads, CreateSucceeds(t)
  PROVE  /\ Kind(t) = "open" /\ Path(t) \in Paths
         /\ IF boot[t] THEN Continued(t) /\ at'[t] = "opened" ELSE Ended(t)
<1>1. at[t] = "creating" /\ Kind(t) = "open" /\ Path(t) \in Paths /\ (boot[t] => ~ReadOpen(t))
  BY DEF CreateSucceeds, RequestsInv, RequestOk, PlaceOk, Opening
<1>2. HandleTypes' /\ guarded' = guarded
  <2>1. Path(t) \in Names /\ NoPath \in Names
    BY <1>1 DEF Names
  <2>2. name' \in [Handles -> Names] /\ openedAs' \in [Handles -> Names]
    BY <2>1 DEF CreateSucceeds, RequestsInv, Types
  <2> QED BY <2>2 DEF CreateSucceeds, RequestsInv, Types, HandleTypes
<1>3. CASE ~boot[t]
  BY <1>1, <1>2, <1>3, EndStep DEF CreateSucceeds
<1>4. CASE boot[t]
  <2>1. Go(t, "opened") /\ UNCHANGED <<job, reason, boot, seen, covered, allowed>>
    BY <1>4 DEF CreateSucceeds
  <2>2. /\ ThreadTypes' /\ StepOf(t) /\ at'[t] = "opened" /\ boot'[t] = boot[t]
        /\ job'[t] = job[t] /\ reason'[t] = reason[t] /\ covered'[t] = covered[t]
    BY <2>1 DEF RequestsInv, Types, ThreadTypes, Go, StepOf, Same, Places, Opening
  <2>3. Types'
    BY <1>2, <2>2, TypesSplit DEF RequestsInv
  <2>4. (RequestOk(t) /\ PlaceOk(t))' /\ Goes(t)
    BY <1>1, <1>4, <2>2 DEF RequestsInv, RequestOk, PlaceOk, Opening, Tables, ReadOpen, Holds, Kind,
       Path, Handle, Goes
  <2> QED BY <1>1, <1>4, <2>2, <2>3, <2>4, Assemble DEF Continued
<1> QED BY <1>3, <1>4

LEMMA PostCreateStep ==
  ASSUME RequestsInv, NEW t \in Threads, PostCreate(t)
  PROVE  Kind(t) = "open" /\ ~ReadOpen(t) /\ Path(t) \in Paths /\ Ended(t)
<1>1. Kind(t) = "open" /\ ~ReadOpen(t) /\ Path(t) \in Paths
  BY DEF PostCreate, RequestsInv, RequestOk, PlaceOk, Opening
<1>2. guarded' = guarded /\ Return(t)
  BY DEF PostCreate
<1>3. HandleTypes'
  BY <1>1 DEF PostCreate, Cancelled, RequestsInv, Types, HandleTypes, Names
<1> QED BY <1>1, <1>2, <1>3, EndStep

LEMMA MarkStep ==
  ASSUME RequestsInv, NEW t \in Threads, Mark(t)
  PROVE  Continued(t) /\ at'[t] = "writing" /\ Kind(t) = "write"
<1>1. at[t] = "marking" /\ Kind(t) = "write" /\ guarded' = guarded
  BY DEF Mark, RequestsInv, PlaceOk
<1>2. HandleTypes'
  BY DEF Mark, RequestsInv, Types, HandleTypes
<1>3. "writing" \in Places \ {"idle", "opened"}
  BY DEF Places
<1>4. Move(t, "writing", reason[t]) /\ reason[t] \in Reasons
  BY GoMoves DEF Mark
<1>5. Fits(t, "writing", reason[t])
  BY <1>1 DEF Fits, Opening, Tables
<1>6. ~boot[t] /\ ~ReadOpen(t)
  BY <1>1 DEF RequestsInv, RequestOk
<1>7. /\ UNCHANGED <<job, boot, seen, covered, allowed>>
      /\ seen' \in [Threads -> 0..MaxTime \cup {NoTime}] /\ allowed' \in [Threads -> BOOLEAN]
  BY DEF Mark, RequestsInv, Types
<1> QED BY <1>1, <1>2, <1>3, <1>4, <1>5, <1>6, <1>7, ContinueStep

\* Leaving the file system, failing and closing end the request.
LEMMA EndingStep ==
  ASSUME RequestsInv, NEW t \in Threads, CreateFails(t) \/ Rename(t) \/ Effect(t) \/ Close(t)
  PROVE  Ended(t)
<1>1. Return(t) /\ guarded' = guarded
  BY DEF CreateFails, Rename, Effect, Close
<1>2. CASE CreateFails(t) \/ Effect(t)
  BY <1>1, <1>2, HandlesStand, EndStep DEF CreateFails, Effect
<1>3. CASE Rename(t)
  <2>1. Kind(t) = "rename" /\ job[t].to \in Names
    BY <1>3 DEF Rename, RequestsInv, PlaceOk, RequestOk, Names
  <2>2. HandleTypes'
    BY <1>3, <2>1 DEF Rename, RequestsInv, Types, HandleTypes
  <2> QED BY <1>1, <2>2, EndStep
<1>4. CASE Close(t)
  <2>1. HandleTypes'
    BY <1>4 DEF Close, Forget, RequestsInv, Types, HandleTypes, Names
  <2> QED BY <1>1, <2>1, EndStep
<1> QED BY <1>2, <1>3, <1>4

\* The destination of a rename becomes what the request is about.
LEMMA SubjectStep ==
  ASSUME RequestsInv, NEW t \in Threads, at[t] = "target", NEW subject \in Names,
         NEW under \in BOOLEAN, NEW place \in {"boot", "asking", "renaming"}, NEW why \in Reasons,
         Move(t, place, why), job' = [job EXCEPT ![t] = [@ EXCEPT !.subject = subject]],
         covered' = [covered EXCEPT ![t] = under], UNCHANGED <<boot, seen, allowed>>,
         UNCHANGED handleVars, guarded' = guarded
  PROVE  /\ Continued(t) /\ at'[t] = place /\ covered'[t] = under /\ Subject(t)' = subject
         /\ Kind(t) = "rename"
<1>1. Kind(t) = "rename" /\ ~boot[t]
  BY DEF RequestsInv, RequestOk, PlaceOk
<1>2. PICK old \in Jobs : old = job[t]
  BY DEF RequestsInv, Types
<1>3. [old EXCEPT !.subject = subject] \in Jobs
  BY DEF Jobs
<1>4. job'[t] = [old EXCEPT !.subject = subject] /\ job' \in [Threads -> Jobs]
  BY <1>2, <1>3 DEF RequestsInv, Types
<1>5. /\ job'[t].kind = job[t].kind /\ job'[t].handle = job[t].handle
      /\ job'[t].path = job[t].path /\ job'[t].to = job[t].to
      /\ job'[t].access = job[t].access /\ job'[t].subject = subject
  BY <1>2, <1>4 DEF Jobs
<1>6. place \in Places
  BY DEF Places
<1>7. /\ ThreadTypes' /\ StepOf(t) /\ at'[t] = place /\ boot'[t] = boot[t]
      /\ covered'[t] = under
  BY <1>4, <1>6 DEF RequestsInv, Types, ThreadTypes, Move, StepOf, Same
<1>8. Types'
  BY <1>7, HandlesStand, TypesSplit DEF RequestsInv
<1>9. (RequestOk(t) /\ PlaceOk(t))'
  BY <1>1, <1>5, <1>7 DEF RequestsInv, RequestOk, PlaceOk, Opening, Tables, ReadOpen, Holds, Kind,
     Path, Handle
<1> QED BY <1>1, <1>5, <1>7, <1>8, <1>9, Assemble DEF Continued, Goes, Subject

LEMMA TargetUnnamedStep ==
  ASSUME RequestsInv, NEW t \in Threads, TargetUnnamed(t)
  PROVE  Continued(t) /\ Guarded(t)'
<1>1. Move(t, "renaming", reason[t]) /\ reason[t] \in Reasons
  BY GoMoves DEF TargetUnnamed
<1>2. NoPath \in Names
  BY DEF Names
<1>3. Continued(t) /\ covered'[t] = FALSE
  BY <1>1, <1>2, SubjectStep DEF TargetUnnamed
<1> QED BY <1>3 DEF Guarded

LEMMA CheckTargetStep ==
  ASSUME RequestsInv, NEW t \in Threads, CheckTarget(t)
  PROVE  Ended(t) \/ (Continued(t) /\ Guarded(t)')
<1> DEFINE to == job[t].to
<1>1. to \in Paths /\ to \in Names /\ at[t] = "target"
  BY DEF CheckTarget, RequestsInv, RequestOk, PlaceOk, Names
<1> HIDE DEF to
<1>2. UNCHANGED handleVars /\ guarded' = guarded
  BY DEF CheckTarget
<1>3. CASE Return(t)
  BY <1>2, <1>3, HandlesStand, EndStep
<1>4. CASE /\ job' = [job EXCEPT ![t] = [@ EXCEPT !.subject = to]]
           /\ covered' = [covered EXCEPT ![t] = to \in guarded]
           /\ IF to \in guarded THEN Go(t, "boot") /\ UNCHANGED reason
              ELSE IF {Path(t), to} \cap Scannable # {} THEN Ask(t, "rename")
              ELSE Go(t, "renaming") /\ UNCHANGED reason
           /\ UNCHANGED <<boot, seen, allowed>>
  <2>1. PICK under \in BOOLEAN :
          covered' = [covered EXCEPT ![t] = under] /\ (under <=> to \in guarded)
    BY <1>4, CoverMoves
  <2>2. PICK place \in {"boot", "asking", "renaming"}, why \in Reasons :
          Move(t, place, why) /\ (to \in guarded => place = "boot")
    <3>1. CASE to \in guarded
      BY <1>4, <3>1, GoMoves
    <3>2. CASE to \notin guarded /\ Ask(t, "rename")
      BY <3>2 DEF Ask, Go, Move, Reasons
    <3>3. CASE to \notin guarded /\ Go(t, "renaming") /\ UNCHANGED reason
      BY <3>3, GoMoves
    <3> QED BY <1>4, <3>1, <3>2, <3>3
  <2>3. /\ Continued(t) /\ at'[t] = place /\ covered'[t] = under /\ Subject(t)' = to
        /\ Kind(t) = "rename"
    BY <1>1, <1>2, <1>4, <2>1, <2>2, SubjectStep
  <2>4. Kind(t)' = "rename"
    BY <2>3 DEF Continued, Goes, Kind
  <2> QED BY <1>2, <2>1, <2>2, <2>3, <2>4 DEF Guarded
<1> QED BY <1>3, <1>4 DEF CheckTarget, to

LEMMA OnwardFits ==
  ASSUME RequestsInv, NEW t \in Threads, at[t] \in {"boot", "asking"}, NEW place \in Places,
         NEW why \in Reasons, Onward(t, place)
  PROVE  /\ place \in Places \ {"idle", "opened"} /\ Fits(t, place, why)
         /\ ~boot[t] /\ ~ReadOpen(t)
<1>1. ~boot[t] /\ ~ReadOpen(t)
  BY DEF RequestsInv, RequestOk
<1>2. place \in Places \ {"idle", "opened"} /\ Fits(t, place, why)
  BY DEF Onward, AfterNames, Fits, Opening, Tables
<1> QED BY <1>1, <1>2

LEMMA CheckBootStep ==
  ASSUME RequestsInv, NEW t \in Threads, Guarded(t), CheckBoot(t)
  PROVE  Continued(t) /\ Guarded(t)'
<1>1. at[t] = "boot" /\ HandleTypes' /\ guarded' = guarded /\ openedAs' = openedAs
      /\ UNCHANGED <<job, boot, seen, covered, allowed>>
  BY HandlesStand DEF CheckBoot, handleVars
<1>2. /\ seen' \in [Threads -> 0..MaxTime \cup {NoTime}] /\ allowed' \in [Threads -> BOOLEAN]
      /\ \A u \in Threads \ {t} : allowed'[u] = allowed[u]
  BY <1>1 DEF RequestsInv, Types
<1>3. CASE Subject(t) \in guarded
  <2>1. Move(t, "asking", "boot") /\ "boot" \in Reasons /\ "asking" \in Places \ {"idle", "opened"}
    BY <1>3 DEF CheckBoot, Ask, Go, Move, Reasons, Places
  <2>2. Fits(t, "asking", "boot") /\ ~boot[t] /\ ~ReadOpen(t)
    BY <1>1 DEF RequestsInv, RequestOk, PlaceOk, Fits, Opening, Tables
  <2>3. Continued(t) /\ at'[t] = "asking" /\ reason'[t] = "boot"
    BY <1>1, <1>2, <2>1, <2>2, ContinueStep
  <2> QED BY <1>1, <1>3, <2>3 DEF Guarded, Kind, Subject, Handle
<1>4. CASE Subject(t) \notin guarded
  <2>1. Proceed(t)
    BY <1>4 DEF CheckBoot
  <2>2. PICK place \in Places, why \in Reasons : Move(t, place, why) /\ Onward(t, place)
    BY <2>1, ProceedMoves
  <2>3. /\ place \in Places \ {"idle", "opened"} /\ Fits(t, place, why)
        /\ ~boot[t] /\ ~ReadOpen(t)
    BY <1>1, <2>2, OnwardFits
  <2>4. Continued(t)
    BY <1>1, <1>2, <2>2, <2>3, ContinueStep
  <2> QED BY <1>1, <1>4, <2>4 DEF Guarded, Kind
<1> QED BY <1>3, <1>4

LEMMA AnswerStep ==
  ASSUME RequestsInv, NEW t \in Threads, NEW d, Guarded(t), Answer(t, d)
  PROVE  /\ Ended(t) \/ (Continued(t) /\ Guarded(t)')
         /\ Kind(t) = "cleanup" => Continued(t)
<1>1. at[t] = "asking" /\ HandleTypes' /\ guarded' = guarded /\ openedAs' = openedAs
  BY HandlesStand DEF Answer, handleVars
<1>2. CASE ~Passes(t, d)
  <2>1. Kind(t) # "cleanup"
    BY <1>1, <1>2 DEF RequestsInv, PlaceOk, Passes
  <2>2. Return(t)
    BY <1>2 DEF Answer
  <2> QED BY <1>1, <2>1, <2>2, EndStep
<1>3. CASE Passes(t, d)
  <2>1. /\ Proceed(t) /\ allowed' = [allowed EXCEPT ![t] = d = "allow"]
        /\ UNCHANGED <<job, boot, seen, covered>>
    BY <1>3 DEF Answer
  <2>2. PICK allow \in BOOLEAN : allowed' = [allowed EXCEPT ![t] = allow] /\ (allow <=> d = "allow")
    <3>1. CASE d = "allow"
      <4>1. (d = "allow") = TRUE
        BY <3>1
      <4>2. allowed' = [allowed EXCEPT ![t] = TRUE]
        BY <2>1, <4>1
      <4> QED BY <3>1, <4>2
    <3>2. CASE d # "allow"
      <4>1. (d = "allow") = FALSE
        BY <3>2
      <4>2. allowed' = [allowed EXCEPT ![t] = FALSE]
        BY <2>1, <4>1
      <4> QED BY <3>2, <4>2
    <3> QED BY <3>1, <3>2
  <2>3. PICK place \in Places, why \in Reasons : Move(t, place, why) /\ Onward(t, place)
    BY <2>1, ProceedMoves
  <2>4. /\ place \in Places \ {"idle", "opened"} /\ Fits(t, place, why)
        /\ ~boot[t] /\ ~ReadOpen(t)
    BY <1>1, <2>3, OnwardFits
  <2>5. /\ seen' \in [Threads -> 0..MaxTime \cup {NoTime}] /\ allowed' \in [Threads -> BOOLEAN]
        /\ allowed'[t] = allow /\ \A u \in Threads \ {t} : allowed'[u] = allowed[u]
    BY <2>1, <2>2 DEF RequestsInv, Types
  <2>6. Continued(t) /\ at'[t] = place
    BY <1>1, <2>1, <2>3, <2>4, <2>5, ContinueStep
  <2>7. Guarded(t)'
    <3> SUFFICES ASSUME Kind(t) \in Mutations, covered[t] PROVE Guarded(t)'
      BY <2>1 DEF Guarded, Kind
    <3>1. reason[t] = "boot"
      BY <1>1 DEF Guarded
    <3>2. allowed'[t]
      BY <1>3, <2>2, <2>5, <3>1 DEF Passes, BootPasses
    <3>3. place # "asking"
      BY <2>3 DEF Onward, Mutations
    <3> QED BY <1>1, <2>1, <2>6, <3>2, <3>3 DEF Guarded, Kind, Subject, Handle
  <2> QED BY <2>6, <2>7
<1> QED BY <1>2, <1>3

\* The steps of nobody's request.
LEMMA OutsideStep ==
  ASSUME RequestsInv, \/ \E g \in BootConfigs : Configure(g)
                      \/ (\E p \in Pids : Exit(p)) \/ Clock \/ UNCHANGED vars
  PROVE  RequestsInv'
<1>1. CASE UNCHANGED <<threadVars, handleVars, guarded>>
  <2>1. Types'
    BY <1>1 DEF RequestsInv, Types, threadVars, handleVars
  <2>2. \A u \in Threads : (RequestOk(u) /\ PlaceOk(u))'
    BY <1>1, SameKeeps DEF threadVars, Same
  <2> QED BY <2>1, <2>2 DEF RequestsInv
<1>2. ASSUME NEW g \in BootConfigs, Configure(g) PROVE RequestsInv'
  <2>1. /\ UNCHANGED <<at, job, reason, boot, seen, allowed>> /\ UNCHANGED handleVars
        /\ guarded' \in SUBSET Paths
    BY <1>2, PathAssumption DEF Configure
  <2>2. covered' \in [Threads -> BOOLEAN] /\ \A u \in Threads : covered'[u] => covered[u]
    BY <1>2 DEF Configure, RequestsInv, Types
  <2>3. Types'
    BY <2>1, <2>2 DEF RequestsInv, Types, handleVars
  <2>4. \A u \in Threads : (RequestOk(u) /\ PlaceOk(u))'
    BY <2>1, <2>2 DEF RequestsInv, RequestOk, PlaceOk, ReadOpen, Holds, Kind, Path, Handle
  <2> QED BY <2>3, <2>4 DEF RequestsInv
<1> QED BY <1>1, <1>2 DEF Exit, Clock, vars

----------------------------------------------------------------------------
(* File objects: one that is being created or cleaned up is that request's *)
(* alone, and one opened under protection carries its context afterwards   *)

Shapes(t) == Holds(t) /\ Kind(t) \in {"open", "cleanup"}
Exclusive == \A t, u \in Threads : t # u /\ Shapes(t) /\ Holds(u) => Handle(t) # Handle(u)
OpeningOk(t) ==
  Kind(t) = "open" /\ Holds(t) =>
    openedAs[Handle(t)] = IF at[t] = "opened" THEN Path(t) ELSE NoPath
HandleOk(h) ==
  /\ name[h] = NoPath => openedAs[h] = NoPath
  /\ \/ openedAs[h] = NoPath
     \/ context[h] = openedAs[h]
     \/ \E t \in Threads : Shapes(t) /\ Handle(t) = h
BootInv ==
  /\ RequestsInv /\ Exclusive
  /\ \A h \in Handles : HandleOk(h)
  /\ \A t \in Threads : Guarded(t) /\ OpeningOk(t)

LEMMA BootStart == Init => BootInv
<1> SUFFICES ASSUME Init PROVE BootInv
  OBVIOUS
<1>1. RequestsInv
  BY RequestsStart
<1>2. \A t \in Threads : Kind(t) = "none"
  BY DEF Init, Kind, NoJob
<1>3. \A h \in Handles : HandleOk(h)
  BY DEF Init, HandleOk
<1>4. Exclusive /\ \A t \in Threads : Guarded(t) /\ OpeningOk(t)
  BY <1>2 DEF Exclusive, Shapes, Holds, Guarded, Mutations, OpeningOk
<1> QED BY <1>1, <1>3, <1>4 DEF BootInv

LEMMA ExclusiveKept ==
  ASSUME Exclusive, NEW t \in Threads, StepOf(t), Goes(t) \/ job'[t] = NoJob
  PROVE  Exclusive'
<1>1. ASSUME NEW u \in Threads, Holds(u)'
      PROVE  Holds(u) /\ Handle(u)' = Handle(u) /\ Kind(u)' = Kind(u)
  <2>1. CASE u = t
    BY <1>1, <2>1 DEF Goes, NoJob, Holds, ReadOpen, Kind, Handle
  <2>2. CASE u # t
    BY <1>1, <2>2 DEF StepOf, Same, Holds, ReadOpen, Kind, Handle
  <2> QED BY <2>1, <2>2
<1> QED BY <1>1 DEF Exclusive, Shapes

\* The requests of the other threads, if their file objects are left alone.
LEMMA OthersKept ==
  ASSUME BootInv, NEW t \in Threads, StepOf(t), guarded' = guarded, NEW u \in Threads \ {t},
         Holds(u) => openedAs'[Handle(u)] = openedAs[Handle(u)]
  PROVE  (Guarded(u) /\ OpeningOk(u))'
<1>1. /\ Guarded(u) /\ OpeningOk(u) /\ at'[u] = at[u] /\ job'[u] = job[u]
      /\ reason'[u] = reason[u] /\ covered'[u] = covered[u] /\ allowed'[u] = allowed[u]
  BY DEF BootInv, StepOf, Same
<1>2. Kind(u) \in Mutations => Holds(u)
  BY DEF Mutations, Holds, ReadOpen
<1>3. OpeningOk(u)'
  BY <1>1 DEF OpeningOk, Holds, ReadOpen, Kind, Handle, Path
<1>4. Guarded(u)'
  BY <1>1, <1>2 DEF Guarded, Kind, Handle, Subject
<1> QED BY <1>3, <1>4

\* A file object whose state stands, while its thread does not stop shaping it.
LEMMA HandleKept ==
  ASSUME BootInv, NEW t \in Threads, StepOf(t), NEW h \in Handles,
         name'[h] = name[h] \/ name'[h] # NoPath,
         openedAs'[h] = openedAs[h], context'[h] = context[h],
         Shapes(t) /\ Handle(t) = h =>
           \/ openedAs[h] = NoPath
           \/ Shapes(t)' /\ Handle(t)' = h
  PROVE  HandleOk(h)'
<1>1. HandleOk(h)
  BY DEF BootInv
<1>2. ASSUME NEW u \in Threads, Shapes(u), Handle(u) = h, openedAs[h] # NoPath
      PROVE  Shapes(u)' /\ Handle(u)' = h
  <2>1. CASE u = t
    BY <1>2, <2>1
  <2>2. CASE u # t
    BY <1>2, <2>2 DEF StepOf, Same, Shapes, Holds, ReadOpen, Kind, Handle
  <2> QED BY <2>1, <2>2
<1> QED BY <1>1, <1>2 DEF HandleOk

LEMMA ContinuedKeeps ==
  ASSUME BootInv, NEW t \in Threads, Continued(t), UNCHANGED handleVars, guarded' = guarded,
         Guarded(t)', at[t] \notin {"creating", "opened"}
  PROVE  BootInv'
<1>1. UNCHANGED <<name, context, openedAs>> /\ StepOf(t) /\ Goes(t) /\ RequestsInv'
  BY DEF handleVars, Continued
<1>2. Exclusive'
  BY <1>1, ExclusiveKept DEF BootInv
<1>3. Shapes(t) => Shapes(t)' /\ Handle(t)' = Handle(t)
  BY <1>1 DEF Goes, Shapes, Holds, ReadOpen, Kind, Handle
<1>4. \A h \in Handles : HandleOk(h)'
  BY <1>1, <1>3, HandleKept
<1>5. OpeningOk(t)'
  <2>1. at'[t] # "opened"
    BY DEF Continued, BootInv, RequestsInv, RequestOk
  <2> QED BY <1>1, <2>1 DEF BootInv, OpeningOk, Goes, Holds, ReadOpen, Kind, Handle, Path
<1>6. \A u \in Threads \ {t} : (Guarded(u) /\ OpeningOk(u))'
  BY <1>1, OthersKept
<1> QED BY <1>1, <1>2, <1>4, <1>5, <1>6 DEF BootInv

LEMMA EndedSelf ==
  ASSUME NEW t \in Threads, Ended(t)
  PROVE  (Guarded(t) /\ OpeningOk(t))' /\ ~Shapes(t)' /\ RequestsInv' /\ StepOf(t)
BY DEF Ended, Guarded, Mutations, OpeningOk, Shapes, Holds, Kind, NoJob

LEMMA EndedKeeps ==
  ASSUME BootInv, NEW t \in Threads, Ended(t), UNCHANGED handleVars, guarded' = guarded,
         Kind(t) # "cleanup", at[t] # "opened"
  PROVE  BootInv'
<1>1. UNCHANGED <<name, context, openedAs>> /\ StepOf(t) /\ RequestsInv' /\ job'[t] = NoJob
  BY DEF handleVars, Ended
<1>2. Exclusive'
  BY <1>1, ExclusiveKept DEF BootInv
<1>3. Shapes(t) => openedAs[Handle(t)] = NoPath
  BY DEF BootInv, OpeningOk, Shapes
<1>4. \A h \in Handles : HandleOk(h)'
  BY <1>1, <1>3, HandleKept
<1>5. \A u \in Threads \ {t} : (Guarded(u) /\ OpeningOk(u))'
  BY <1>1, OthersKept
<1> QED BY <1>1, <1>2, <1>4, <1>5, EndedSelf DEF BootInv

\* A request begins on a file object that is free of those it excludes.
LEMMA OpenedKeeps ==
  ASSUME BootInv, NEW t \in Threads, NEW kind, NEW h \in Handles, Opened(t, kind, h),
         guarded' = guarded, UNCHANGED handleVars,
         \A u \in Threads \ {t} :
           Holds(u) /\ Handle(u) = h => kind \notin {"open", "cleanup"} /\ ~Shapes(u),
         Guarded(t)', OpeningOk(t)'
  PROVE  BootInv'
<1>1. /\ RequestsInv' /\ StepOf(t) /\ ~Shapes(t) /\ UNCHANGED <<name, context, openedAs>>
      /\ Kind(t)' = kind /\ Handle(t)' = h
  BY DEF Opened, Holding, Shapes, Holds, handleVars
<1>2. ASSUME NEW u \in Threads \ {t}
      PROVE  /\ (Shapes(u)' <=> Shapes(u)) /\ (Holds(u)' <=> Holds(u))
             /\ Handle(u)' = Handle(u)
  BY <1>1, <1>2 DEF StepOf, Same, Shapes, Holds, ReadOpen, Kind, Handle
<1>3. Exclusive'
  <2> SUFFICES ASSUME NEW u \in Threads, NEW v \in Threads, u # v, Shapes(u)', Holds(v)'
               PROVE  Handle(u)' # Handle(v)'
    BY DEF Exclusive
  <2>1. CASE u = t
    BY <1>1, <1>2, <2>1 DEF Shapes
  <2>2. CASE v = t
    BY <1>1, <1>2, <2>2 DEF Shapes
  <2>3. CASE u # t /\ v # t
    BY <1>2, <2>3 DEF BootInv, Exclusive
  <2> QED BY <2>1, <2>2, <2>3
<1>4. \A g \in Handles : HandleOk(g)'
  BY <1>1, HandleKept
<1>5. \A u \in Threads \ {t} : (Guarded(u) /\ OpeningOk(u))'
  BY <1>1, OthersKept
<1> QED BY <1>1, <1>3, <1>4, <1>5 DEF BootInv

LEMMA UserHolds ==
  ASSUME RequestsInv, NEW u \in Threads, NEW h, Holds(u), Handle(u) = h
  PROVE  u \in Users(h)
BY DEF RequestsInv, RequestOk, Holds, Users

LEMMA OpenToWriteKeeps ==
  ASSUME BootInv, NEW t \in Threads, NEW h \in Handles, OpenToWrite(t, h)
  PROVE  BootInv'
<1>1. Opened(t, "open", h) /\ at'[t] # "opened"
  BY OpenToWriteStep DEF BootInv
<1>2. guarded' = guarded /\ UNCHANGED handleVars /\ name[h] = NoPath /\ Users(h) = {}
  BY DEF OpenToWrite
<1>3. openedAs[h] = NoPath /\ openedAs' = openedAs
  BY <1>2 DEF BootInv, HandleOk, handleVars
<1>4. Guarded(t)' /\ OpeningOk(t)'
  BY <1>1, <1>3 DEF Opened, Holding, Guarded, Mutations, OpeningOk
<1> QED BY <1>1, <1>2, <1>4, OpenedKeeps, UserHolds DEF BootInv

LEMMA UsableFree ==
  ASSUME BootInv, NEW h \in Handles, Usable(h)
  PROVE  \A u \in Threads : Holds(u) /\ Handle(u) = h => ~Shapes(u)
BY UserHolds DEF BootInv, Usable, Shapes

LEMMA WriteKeeps ==
  ASSUME BootInv, NEW t \in Threads, NEW h \in Handles, Write(t, h)
  PROVE  BootInv'
<1>1. /\ Opened(t, "write", h) /\ (covered'[t] => openedAs[h] \in guarded)
      /\ context[h] \in Paths => Subject(t)' = context[h] /\ at'[t] = "boot"
  BY WriteStep DEF BootInv
<1>2. guarded' = guarded /\ UNCHANGED handleVars /\ openedAs' = openedAs /\ Usable(h)
  BY DEF Write, handleVars
<1>3. \A u \in Threads : Holds(u) /\ Handle(u) = h => ~Shapes(u)
  BY <1>2, UsableFree
<1>4. Guarded(t)'
  <2> SUFFICES ASSUME covered'[t] PROVE Guarded(t)'
    BY DEF Guarded
  <2>1. openedAs[h] \in guarded /\ openedAs[h] \in Paths /\ openedAs[h] # NoPath
    BY <1>1, PathAssumption DEF BootInv, RequestsInv, Types
  <2>2. context[h] = openedAs[h]
    BY <1>3, <2>1 DEF BootInv, HandleOk, Shapes
  <2>3. Subject(t)' = openedAs[h] /\ at'[t] = "boot" /\ Handle(t)' = h
    BY <1>1, <2>1, <2>2 DEF Opened, Holding
  <2> QED BY <1>2, <2>1, <2>3 DEF Guarded
<1>5. OpeningOk(t)'
  BY <1>1 DEF Opened, Holding, OpeningOk
<1> QED BY <1>1, <1>2, <1>3, <1>4, <1>5, OpenedKeeps

LEMMA SetInformationKeeps ==
  ASSUME BootInv, NEW t \in Threads, NEW h \in Handles, NEW kind, NEW to \in Names,
         SetInformation(t, h, kind, to), kind = "delete" \/ (kind = "rename" /\ to \in Paths)
  PROVE  BootInv'
<1>1. Opened(t, kind, h) /\ Guarded(t)'
  BY SetInformationStep DEF BootInv
<1>2. guarded' = guarded /\ UNCHANGED handleVars /\ Usable(h)
  BY DEF SetInformation
<1>3. OpeningOk(t)'
  BY <1>1 DEF Opened, Holding, OpeningOk
<1> QED BY <1>1, <1>2, <1>3, OpenedKeeps, UsableFree

LEMMA CleanupKeeps ==
  ASSUME BootInv, NEW t \in Threads, NEW h \in Handles, Cleanup(t, h)
  PROVE  BootInv'
<1>1. \A u \in Threads : ~(Holds(u) /\ Handle(u) = h)
  BY UserHolds DEF BootInv, Cleanup
<1>2. /\ RequestsInv' /\ guarded' = guarded /\ context' = [context EXCEPT ![h] = "none"]
      /\ name \in [Handles -> Names] /\ openedAs \in [Handles -> Names]
      /\ context \in [Handles -> Paths \cup {"none", "dirty"}]
  BY CleanupStep DEF BootInv, Cleanup, Forget, RequestsInv, Types
<1>3. CASE Forget(h) /\ UNCHANGED threadVars
  <2>1. StepOf(t) /\ Same(t) /\ Goes(t)
    BY <1>3 DEF threadVars, StepOf, Same, Goes
  <2>2. /\ name'[h] = NoPath /\ openedAs'[h] = NoPath
        /\ \A g \in Handles \ {h} : /\ name'[g] = name[g] /\ openedAs'[g] = openedAs[g]
                                    /\ context'[g] = context[g]
    BY <1>2, <1>3 DEF Forget
  <2>3. Exclusive'
    BY <2>1, ExclusiveKept DEF BootInv
  <2>4. ASSUME NEW g \in Handles PROVE HandleOk(g)'
    <3>1. CASE g = h
      BY <2>2, <3>1 DEF HandleOk
    <3>2. CASE g # h
      <4>1. Shapes(t)' <=> Shapes(t)
        BY <2>1 DEF Same, Shapes, Holds, ReadOpen, Kind
      <4>2. Handle(t)' = Handle(t)
        BY <2>1 DEF Same, Handle
      <4> QED BY <2>1, <2>2, <3>2, <4>1, <4>2, HandleKept
    <3> QED BY <3>1, <3>2
  <2>5. ASSUME NEW u \in Threads PROVE (Guarded(u) /\ OpeningOk(u))'
    <3>1. Same(u)
      BY <2>1 DEF StepOf
    <3>2. Holds(u) => Handle(u) \in Handles /\ openedAs'[Handle(u)] = openedAs[Handle(u)]
      BY <1>1, <2>2 DEF BootInv, RequestsInv, RequestOk
    <3>3. (Kind(u) \in Mutations => Holds(u)) /\ Guarded(u) /\ OpeningOk(u)
      BY DEF Mutations, Holds, ReadOpen, BootInv
    <3> QED BY <1>2, <3>1, <3>2, <3>3 DEF Same, Guarded, OpeningOk, Holds, ReadOpen, Kind, Handle,
         Path, Subject
  <2> QED BY <1>2, <2>3, <2>4, <2>5 DEF BootInv
<1>4. CASE Opened(t, "cleanup", h) /\ UNCHANGED <<name, openedAs>>
  <2>1. StepOf(t) /\ Kind(t) = "none" /\ Holding(t, "cleanup", h)'
    BY <1>4 DEF Opened
  <2>2. ASSUME NEW u \in Threads \ {t}
        PROVE  /\ (Shapes(u)' <=> Shapes(u)) /\ (Holds(u)' <=> Holds(u))
               /\ Handle(u)' = Handle(u)
    BY <2>1 DEF StepOf, Same, Shapes, Holds, ReadOpen, Kind, Handle
  <2>3. Exclusive'
    <3> SUFFICES ASSUME NEW u \in Threads, NEW v \in Threads, u # v, Shapes(u)', Holds(v)'
                 PROVE  Handle(u)' # Handle(v)'
      BY DEF Exclusive
    <3>1. CASE u = t
      BY <1>1, <2>1, <2>2, <3>1 DEF Holding
    <3>2. CASE v = t
      BY <1>1, <2>1, <2>2, <3>2 DEF Holding, Shapes
    <3>3. CASE u # t /\ v # t
      BY <2>2, <3>3 DEF BootInv, Exclusive
    <3> QED BY <3>1, <3>2, <3>3
  <2>4. ASSUME NEW g \in Handles PROVE HandleOk(g)'
    <3>1. CASE g = h
      <4>1. Shapes(t)' /\ Handle(t)' = h
        BY <2>1 DEF Holding, Shapes
      <4> QED BY <1>4, <3>1, <4>1 DEF HandleOk, BootInv
    <3>2. CASE g # h
      <4>1. ~Shapes(t)
        BY <2>1 DEF Shapes, Holds
      <4> QED BY <1>2, <1>4, <2>1, <3>2, <4>1, HandleKept
    <3> QED BY <3>1, <3>2
  <2>5. \A u \in Threads \ {t} : (Guarded(u) /\ OpeningOk(u))'
    BY <1>2, <1>4, <2>1, OthersKept
  <2>6. (Guarded(t) /\ OpeningOk(t))'
    BY <2>1 DEF Holding, Guarded, Mutations, OpeningOk
  <2> QED BY <1>2, <2>3, <2>4, <2>5, <2>6 DEF BootInv
<1> QED BY <1>3, <1>4, CleanupStep DEF BootInv

\* A thread changes the file object that it shapes.
LEMMA ShapingKeeps ==
  ASSUME BootInv, NEW t \in Threads, RequestsInv', StepOf(t), Goes(t) \/ job'[t] = NoJob,
         guarded' = guarded, Shapes(t), NEW h \in Handles, h = Handle(t),
         \A g \in Handles \ {h} :
           name'[g] = name[g] /\ openedAs'[g] = openedAs[g] /\ context'[g] = context[g],
         HandleOk(h)', (Guarded(t) /\ OpeningOk(t))'
  PROVE  BootInv'
<1>1. Exclusive'
  BY ExclusiveKept DEF BootInv
<1>2. ASSUME NEW u \in Threads \ {t}, Holds(u)
      PROVE  openedAs'[Handle(u)] = openedAs[Handle(u)]
  BY <1>2 DEF BootInv, Exclusive, RequestsInv, RequestOk
<1>3. \A u \in Threads \ {t} : (Guarded(u) /\ OpeningOk(u))'
  BY <1>2, OthersKept
<1>4. ASSUME NEW g \in Handles PROVE HandleOk(g)'
  <2>1. CASE g = h
    BY <2>1
  <2>2. CASE g # h
    BY <2>2, HandleKept
  <2> QED BY <2>1, <2>2
<1> QED BY <1>1, <1>3, <1>4 DEF BootInv

LEMMA CreateSucceedsKeeps ==
  ASSUME BootInv, NEW t \in Threads, CreateSucceeds(t)
  PROVE  BootInv'
<1>1. /\ Kind(t) = "open" /\ Path(t) \in Paths
      /\ IF boot[t] THEN Continued(t) /\ at'[t] = "opened" ELSE Ended(t)
  BY CreateSucceedsStep DEF BootInv
<1>2. guarded' = guarded /\ context' = context /\ at[t] = "creating"
  BY DEF CreateSucceeds
<1>3. CASE job[t].access = "read"
  <2>1. ReadOpen(t)
    BY <1>1, <1>3 DEF ReadOpen
  <2>2. ~boot[t]
    BY <2>1 DEF BootInv, RequestsInv, RequestOk
  <2>3. UNCHANGED handleVars
    BY <1>2, <1>3 DEF CreateSucceeds, handleVars
  <2> QED BY <1>1, <1>2, <2>2, <2>3, EndedKeeps
<1>4. CASE job[t].access # "read"
  <2> DEFINE as == IF boot[t] THEN Path(t) ELSE NoPath
  <2>1. PICK h \in Handles : h = Handle(t) /\ Shapes(t)
    BY <1>1, <1>4 DEF Shapes, Holds, ReadOpen, BootInv, RequestsInv, RequestOk
  <2>2. /\ name'[h] = Path(t) /\ openedAs'[h] = as
        /\ \A g \in Handles \ {h} : name'[g] = name[g] /\ openedAs'[g] = openedAs[g]
    BY <1>4, <2>1 DEF CreateSucceeds, BootInv, RequestsInv, Types
  <2>3. CASE boot[t]
    <3>1. Continued(t) /\ at'[t] = "opened"
      BY <1>1, <2>3
    <3>2. Shapes(t)' /\ Handle(t)' = h /\ Path(t)' = Path(t) /\ Kind(t)' = "open"
      BY <1>1, <2>1, <3>1 DEF Continued, Goes, Shapes, Holds, ReadOpen, Kind, Handle, Path
    <3>3. HandleOk(h)'
      BY <1>1, <2>2, <3>2, PathAssumption DEF HandleOk
    <3>4. (Guarded(t) /\ OpeningOk(t))'
      BY <2>2, <2>3, <3>1, <3>2 DEF Guarded, Mutations, OpeningOk
    <3> QED BY <1>2, <2>1, <2>2, <3>1, <3>3, <3>4, ShapingKeeps DEF Continued
  <2>4. CASE ~boot[t]
    <3>1. HandleOk(h)'
      BY <2>2, <2>4 DEF HandleOk
    <3> QED BY <1>1, <1>2, <2>1, <2>2, <2>4, <3>1, ShapingKeeps, EndedSelf DEF Ended
  <2> QED BY <2>3, <2>4
<1> QED BY <1>3, <1>4

LEMMA PostCreateKeeps ==
  ASSUME BootInv, NEW t \in Threads, PostCreate(t)
  PROVE  BootInv'
<1>1. Kind(t) = "open" /\ ~ReadOpen(t) /\ Path(t) \in Paths /\ Ended(t)
  BY PostCreateStep DEF BootInv
<1>2. guarded' = guarded /\ at[t] = "opened"
  BY DEF PostCreate
<1>3. PICK h \in Handles : h = Handle(t) /\ Shapes(t) /\ openedAs[h] = Path(t)
  BY <1>1, <1>2 DEF Shapes, Holds, OpeningOk, BootInv, RequestsInv, RequestOk
<1>4. \A g \in Handles \ {h} :
        name'[g] = name[g] /\ openedAs'[g] = openedAs[g] /\ context'[g] = context[g]
  BY <1>3 DEF PostCreate, Cancelled, BootInv, RequestsInv, Types
<1>5. HandleOk(h)'
  <2>1. CASE context' = [context EXCEPT ![Handle(t)] = Path(t)] /\ UNCHANGED <<name, openedAs>>
    <3>1. context'[h] = openedAs'[h] /\ name'[h] = name[h] /\ openedAs'[h] = openedAs[h]
      BY <1>3, <2>1 DEF BootInv, RequestsInv, Types
    <3> QED BY <1>3, <3>1 DEF HandleOk, BootInv
  <2>2. CASE Cancelled(Handle(t))
    BY <1>3, <2>2 DEF Cancelled, HandleOk, BootInv, RequestsInv, Types
  <2> QED BY <2>1, <2>2 DEF PostCreate
<1> QED BY <1>1, <1>2, <1>3, <1>4, <1>5, ShapingKeeps, EndedSelf DEF Ended

LEMMA CloseKeeps ==
  ASSUME BootInv, NEW t \in Threads, Close(t)
  PROVE  BootInv'
<1>1. Ended(t) /\ Kind(t) = "cleanup"
  BY EndingStep DEF BootInv, Close, RequestsInv, PlaceOk
<1>2. PICK h \in Handles : h = Handle(t) /\ Shapes(t) /\ guarded' = guarded
  BY <1>1 DEF Shapes, Holds, ReadOpen, BootInv, RequestsInv, RequestOk, Close
<1>3. \A g \in Handles \ {h} :
        name'[g] = name[g] /\ openedAs'[g] = openedAs[g] /\ context'[g] = context[g]
  BY <1>2 DEF Close, Forget, BootInv, RequestsInv, Types
<1>4. HandleOk(h)'
  BY <1>2 DEF Close, Forget, HandleOk, BootInv, RequestsInv, Types
<1> QED BY <1>1, <1>2, <1>3, <1>4, ShapingKeeps, EndedSelf DEF Ended

LEMMA MarkKeeps ==
  ASSUME BootInv, NEW t \in Threads, Mark(t)
  PROVE  BootInv'
<1>1. Continued(t) /\ at'[t] = "writing" /\ Kind(t) = "write" /\ at[t] = "marking"
  BY MarkStep DEF BootInv, Mark
<1>2. UNCHANGED <<name, openedAs, job, covered, allowed>> /\ guarded' = guarded
  BY DEF Mark
<1>3. ~Shapes(t) /\ StepOf(t) /\ Goes(t) /\ RequestsInv'
  BY <1>1 DEF Shapes, Continued
<1>4. ASSUME NEW g \in Handles PROVE HandleOk(g)'
  <2>1. CASE context'[g] = context[g]
    BY <1>2, <1>3, <2>1, HandleKept
  <2>2. CASE context'[g] # context[g]
    <3>1. context[g] = "none"
      BY <2>2 DEF Mark, BootInv, RequestsInv, Types
    <3>2. openedAs[g] \in Paths \cup {NoPath} /\ "none" \notin Paths
      BY PathAssumption DEF BootInv, RequestsInv, Types, Names
    <3>3. ASSUME NEW u \in Threads, Shapes(u), Handle(u) = g
          PROVE  Shapes(u)' /\ Handle(u)' = g
      BY <1>3, <3>3 DEF StepOf, Same, Shapes, Holds, ReadOpen, Kind, Handle
    <3> QED BY <1>2, <3>1, <3>2, <3>3 DEF HandleOk, BootInv
  <2> QED BY <2>1, <2>2
<1>5. Exclusive'
  BY <1>3, ExclusiveKept DEF BootInv
<1>6. \A u \in Threads \ {t} : (Guarded(u) /\ OpeningOk(u))'
  BY <1>2, <1>3, OthersKept
<1>7. OpeningOk(t)' /\ Guarded(t)'
  BY <1>1, <1>2 DEF OpeningOk, BootInv, Guarded, Kind, Subject, Handle
<1> QED BY <1>3, <1>4, <1>5, <1>6, <1>7 DEF BootInv

LEMMA RenameKeeps ==
  ASSUME BootInv, NEW t \in Threads, Rename(t)
  PROVE  BootInv'
<1>1. Ended(t) /\ Kind(t) = "rename" /\ job[t].to \in Paths
  BY EndingStep DEF BootInv, Rename, RequestsInv, RequestOk, PlaceOk
<1>2. UNCHANGED <<context, openedAs, guarded>> /\ ~Shapes(t)
  BY <1>1 DEF Rename, Shapes
<1>3. \A g \in Handles : name'[g] = name[g] \/ name'[g] # NoPath
  BY <1>1, PathAssumption DEF Rename
<1>4. StepOf(t) /\ job'[t] = NoJob /\ RequestsInv' /\ (Guarded(t) /\ OpeningOk(t))'
  BY <1>1, EndedSelf DEF Ended
<1>5. \A g \in Handles : HandleOk(g)'
  BY <1>2, <1>3, <1>4, HandleKept
<1>6. \A u \in Threads \ {t} : (Guarded(u) /\ OpeningOk(u))'
  BY <1>2, <1>4, OthersKept
<1>7. Exclusive'
  BY <1>4, ExclusiveKept DEF BootInv
<1> QED BY <1>4, <1>5, <1>6, <1>7 DEF BootInv

LEMMA ConfigureKeeps ==
  ASSUME BootInv, NEW g \in BootConfigs, Configure(g)
  PROVE  BootInv'
<1>1. RequestsInv'
  BY OutsideStep DEF BootInv
<1>2. /\ UNCHANGED <<at, job, reason, boot, allowed>> /\ UNCHANGED <<name, context, openedAs>>
      /\ guarded' = g
  BY DEF Configure, handleVars
<1>3. \A t \in Threads :
        covered'[t] => /\ covered[t]
                       /\ (IF Kind(t) = "write" THEN openedAs[Handle(t)] ELSE Subject(t)) \in g
  BY DEF Configure
<1>4. Exclusive'
  BY <1>2 DEF BootInv, Exclusive, Shapes, Holds, ReadOpen, Kind, Handle
<1>5. \A h \in Handles : HandleOk(h)'
  BY <1>2 DEF BootInv, HandleOk, Shapes, Holds, ReadOpen, Kind, Handle
<1>6. \A t \in Threads : OpeningOk(t)'
  BY <1>2 DEF BootInv, OpeningOk, Holds, ReadOpen, Kind, Handle, Path
<1>7. \A t \in Threads : Guarded(t)'
  BY <1>2, <1>3 DEF BootInv, Guarded, Kind, Handle, Subject
<1> QED BY <1>1, <1>4, <1>5, <1>6, <1>7 DEF BootInv

LEMMA BootStep == BootInv /\ now \in 0..MaxTime /\ [Next]_vars => BootInv'
<1> SUFFICES ASSUME BootInv, now \in 0..MaxTime, [Next]_vars PROVE BootInv'
  OBVIOUS
<1>1. CASE UNCHANGED <<threadVars, handleVars, guarded>>
  <2>1. UNCHANGED <<at, job, reason, boot, seen, covered, allowed, name, context, openedAs, guarded>>
    BY <1>1 DEF threadVars, handleVars
  <2>2. RequestsInv'
    <3>1. \A u \in Threads : (RequestOk(u) /\ PlaceOk(u))'
      BY <2>1, SameKeeps DEF Same, BootInv
    <3> QED BY <2>1, <3>1 DEF BootInv, RequestsInv, Types
  <2>3. \A t \in Threads : (Guarded(t) /\ OpeningOk(t))'
    BY <2>1 DEF BootInv, Guarded, OpeningOk, Holds, ReadOpen, Kind, Handle, Path, Subject
  <2>4. Exclusive' /\ \A h \in Handles : HandleOk(h)'
    BY <2>1 DEF BootInv, Exclusive, HandleOk, Shapes, Holds, ReadOpen, Kind, Handle
  <2> QED BY <2>2, <2>3, <2>4 DEF BootInv
<1>2. CASE (\E p \in Pids : Exit(p)) \/ Clock \/ UNCHANGED vars
  BY <1>1, <1>2 DEF Exit, Clock, vars
<1>3. ASSUME NEW g \in BootConfigs, Configure(g) PROVE BootInv'
  BY <1>3, ConfigureKeeps
<1>4. ASSUME NEW t \in Threads, NEW h \in Handles,
             \/ OpenToWrite(t, h) \/ Write(t, h) \/ Cleanup(t, h)
             \/ SetInformation(t, h, "delete", NoPath)
             \/ \E to \in Targets : SetInformation(t, h, "rename", to)
      PROVE  BootInv'
  <2>1. NoPath \in Names /\ \A to \in Targets : to \in Paths /\ to \in Names
    BY PathAssumption DEF Names
  <2>2. CASE SetInformation(t, h, "delete", NoPath)
    BY <2>1, <2>2, SetInformationKeeps
  <2>3. ASSUME NEW to \in Targets, SetInformation(t, h, "rename", to) PROVE BootInv'
    BY <2>1, <2>3, SetInformationKeeps
  <2> QED BY <1>4, <2>2, <2>3, OpenToWriteKeeps, WriteKeeps, CleanupKeeps
<1>5. ASSUME NEW t \in Threads, CreateSucceeds(t) \/ PostCreate(t) \/ Mark(t) \/ Rename(t) \/ Close(t)
      PROVE  BootInv'
  BY <1>5, CreateSucceedsKeeps, PostCreateKeeps, MarkKeeps, RenameKeeps, CloseKeeps
<1>6. RequestsInv /\ \A t \in Threads : Guarded(t)
  BY DEF BootInv
<1>7. ASSUME NEW t \in Threads, OpenToRead(t) PROVE BootInv'
  <2>1. RequestsInv' /\ StepOf(t) /\ ReadOpen(t)'
    BY <1>6, <1>7, OpenToReadStep
  <2>2. Kind(t) = "none" /\ guarded' = guarded /\ UNCHANGED <<name, context, openedAs>>
    BY <1>6, <1>7 DEF OpenToRead, Begin, RequestsInv, RequestOk, handleVars
  <2>3. ASSUME NEW u \in Threads, Holds(u)'
        PROVE  u # t /\ Holds(u) /\ Handle(u)' = Handle(u) /\ Kind(u)' = Kind(u)
    <3>1. u # t
      BY <2>1, <2>3 DEF Holds
    <3> QED BY <2>1, <2>3, <3>1 DEF StepOf, Same, Holds, ReadOpen, Kind, Handle
  <2>4. Exclusive'
    BY <2>3 DEF BootInv, Exclusive, Shapes
  <2>5. ~Shapes(t)
    BY <2>2 DEF Shapes, Holds
  <2>6. \A h \in Handles : HandleOk(h)'
    BY <2>1, <2>2, <2>5, HandleKept
  <2>7. (Guarded(t) /\ OpeningOk(t))'
    BY <2>1 DEF ReadOpen, Guarded, Mutations, OpeningOk, Holds
  <2>8. \A u \in Threads \ {t} : (Guarded(u) /\ OpeningOk(u))'
    BY <2>1, <2>2, OthersKept
  <2> QED BY <2>1, <2>4, <2>6, <2>7, <2>8 DEF BootInv
<1>8. ASSUME NEW t \in Threads,
             \/ KeepBootContext(t) \/ ReadClock(t) \/ Count(t) \/ Rate(t) \/ CreateFails(t)
      PROVE  BootInv'
  <2>1. UNCHANGED handleVars /\ guarded' = guarded
    BY <1>8 DEF KeepBootContext, ReadClock, Count, Rate, CreateFails
  <2>2. Ended(t) \/ Continued(t)
    BY <1>6, <1>8, KeepBootContextStep, ReadClockStep, CountStep, RateStep, EndingStep
  <2>3. Kind(t) = "open" /\ at[t] # "opened"
    BY <1>6, <1>8 DEF KeepBootContext, ReadClock, Count, Rate, CreateFails, RequestsInv, PlaceOk,
       Opening, Tables
  <2>4. CASE Ended(t)
    BY <2>1, <2>3, <2>4, EndedKeeps
  <2>5. CASE Continued(t)
    <3>1. Kind(t)' = "open"
      BY <2>3, <2>5 DEF Continued, Goes, Kind
    <3>2. Guarded(t)'
      BY <3>1 DEF Guarded, Mutations
    <3>3. at[t] # "creating" \/ CreateFails(t)
      BY <1>8 DEF KeepBootContext, ReadClock, Count, Rate, Tables
    <3>4. CASE CreateFails(t)
      BY <1>6, <2>1, <2>3, <3>4, EndingStep, EndedKeeps
    <3> QED BY <2>1, <2>3, <2>5, <3>2, <3>3, <3>4, ContinuedKeeps
  <2> QED BY <2>2, <2>4, <2>5
<1>9. ASSUME NEW t \in Threads,
             \/ TargetUnnamed(t) \/ CheckTarget(t) \/ Effect(t) \/ CheckBoot(t)
             \/ \E d \in Answers : Answer(t, d)
      PROVE  BootInv'
  <2>1. UNCHANGED handleVars /\ guarded' = guarded
    BY <1>9 DEF TargetUnnamed, CheckTarget, Effect, CheckBoot, Answer
  <2>2. at[t] \in {"target", "writing", "deleting", "boot", "asking"}
    BY <1>9 DEF TargetUnnamed, CheckTarget, Effect, CheckBoot, Answer
  <2>3. /\ Ended(t) \/ (Continued(t) /\ Guarded(t)')
        /\ Kind(t) = "cleanup" => Continued(t) /\ Guarded(t)'
    <3>1. CASE TargetUnnamed(t) \/ CheckTarget(t)
      <4>1. Kind(t) # "cleanup"
        BY <1>6, <3>1 DEF TargetUnnamed, CheckTarget, RequestsInv, PlaceOk
      <4> QED BY <1>6, <3>1, <4>1, TargetUnnamedStep, CheckTargetStep
    <3>2. CASE Effect(t)
      <4>1. Kind(t) # "cleanup"
        BY <1>6, <3>2 DEF Effect, RequestsInv, PlaceOk
      <4> QED BY <1>6, <3>2, <4>1, EndingStep
    <3>3. CASE CheckBoot(t)
      BY <1>6, <3>3, CheckBootStep
    <3>4. ASSUME NEW d \in Answers, Answer(t, d)
          PROVE  /\ Ended(t) \/ (Continued(t) /\ Guarded(t)')
                 /\ Kind(t) = "cleanup" => Continued(t) /\ Guarded(t)'
      <4>1. /\ Ended(t) \/ (Continued(t) /\ Guarded(t)')
            /\ Kind(t) = "cleanup" => Continued(t)
        BY <1>6, <3>4, AnswerStep
      <4>2. Kind(t) = "cleanup" /\ Continued(t) => Guarded(t)'
        BY DEF Continued, Goes, Guarded, Mutations, Kind
      <4> QED BY <4>1, <4>2
    <3> QED BY <1>9, <3>1, <3>2, <3>3, <3>4
  <2>4. CASE Continued(t) /\ Guarded(t)'
    BY <2>1, <2>2, <2>4, ContinuedKeeps
  <2>5. CASE Ended(t) /\ Kind(t) # "cleanup"
    BY <2>1, <2>2, <2>5, EndedKeeps
  <2> QED BY <2>3, <2>4, <2>5
<1> QED BY <1>2, <1>3, <1>4, <1>5, <1>7, <1>8, <1>9 DEF Next

----------------------------------------------------------------------------
(* The theorems *)

LEMMA GateInvariant == Spec => [](MonitorInv /\ BootInv)
<1>1. Init => MonitorInv /\ BootInv
  BY MonitorStart, BootStart
<1>2. MonitorInv /\ BootInv /\ [Next]_vars => (MonitorInv /\ BootInv)'
  <2>1. BootInv => Times
    BY DEF BootInv, RequestsInv, Types, Times
  <2>2. MonitorInv => now \in 0..MaxTime
    BY DEF MonitorInv
  <2> QED BY <2>1, <2>2, MonitorStep, BootStep
<1> QED BY <1>1, <1>2, PTL DEF Spec

\* Every variable of the minifilter and of the monitor keeps its type.
THEOREM TypeInvariant == Spec => []TypeOK
<1>1. MonitorInv /\ BootInv => TypeOK
  <2> SUFFICES ASSUME MonitorInv, BootInv PROVE TypeOK
    OBVIOUS
  <2>1. ASSUME NEW d \in Tables PROVE tables[d] \in [Slots -> Slot(d)]
    <3>1. TableOk(d, tables[d]) /\ tables = [e \in Tables |-> tables[e]]
      BY DEF MonitorInv
    <3>2. \A s \in Slots : tables[d][s] \in Slot(d)
      BY <3>1 DEF TableOk, SlotOk
    <3>3. tables[d] = [s \in Slots |-> tables[d][s]]
      BY <3>1 DEF TableOk
    <3> QED BY <3>2, <3>3
  <2>2. Types /\ now \in 0..MaxTime
    BY DEF BootInv, RequestsInv, MonitorInv
  <2> QED BY <2>1, <2>2 DEF TypeOK, Types, Names, Places, Opening, Reasons
<1> QED BY <1>1, GateInvariant, PTL

\* A write through a file object opened under protection, and a rename or delete of a file
\* protected since the request arrived, reaches the file system only after the client's Allow,
\* whatever other requests, configurations and failures come in between.
THEOREM MutationInvariant == Spec => []BootMutationsAllowed
<1>1. BootInv => BootMutationsAllowed
  <2> SUFFICES ASSUME BootInv, NEW t \in Threads, at[t] \in {"writing", "renaming", "deleting"},
                      covered[t]
               PROVE  allowed[t]
    BY DEF BootMutationsAllowed
  <2>1. Kind(t) \in Mutations /\ Guarded(t)
    BY DEF BootInv, RequestsInv, PlaceOk, Mutations
  <2> QED BY <2>1 DEF Guarded
<1> QED BY <1>1, GateInvariant, PTL

\* A process is flagged for as many deletes of its own as the threshold, and never for those of
\* an earlier process that had its number.
THEOREM FlagInvariant == Spec => []FlagIsOwn
BY GateInvariant, FlagIsEarned, PTL

----------------------------------------------------------------------------
(* Bursts of deletes *)

Limit == Threshold["deletes"]
Room(n) == 2 * (Limit - 1) + 2 * (n - 1)

\* What a process with n threads can still open for deletion in the span of one window from an
\* instant on.  open counts the deletes let through in the span and those counted but not rated,
\* left those that fit in the window of its slot; lateFrom and lateEnd are the threads that have
\* read the clock, and not counted, before the span and before the end of that window.  The
\* cases are a window that begins in the span; one that is over when the span begins; and one
\* that reaches into the span, which is running or is over.
Bounded(open, left, n, start, from, time, lateFrom, lateEnd) ==
  LET end == start + Window IN
  /\ start >= from => open + left <= Room(n)
  /\ end <= from => open + lateFrom <= n
  /\ start < from /\ from < end /\ time < end => open + left + (n - 1) + (Limit - 1) <= Room(n)
  /\ start < from /\ from < end /\ end <= time =>
       \/ open + lateEnd + (Limit - 1) <= Room(n)
       \/ left = 0 /\ open + (n - 1) + (Limit - 1) <= Room(n)

LEMMA LimitIs == Limit \in Nat /\ Limit >= 2 /\ Window \in Nat /\ Window >= 1
<1>1. "deletes" \in Tables
  BY DEF Tables
<1>2. Threshold["deletes"] \in Nat \ {0, 1} /\ Window \in Nat \ {0}
  BY <1>1, MonitorAssumption
<1> QED BY <1>2 DEF Limit

\* The bound holds in every case.
LEMMA BoundedRoom ==
  ASSUME NEW open \in Nat, NEW left \in Nat, NEW n \in Nat, NEW start \in Nat, NEW from \in Nat,
         NEW time \in Nat, NEW lf \in Nat, NEW le \in Nat,
         Bounded(open, left, n, start, from, time, lf, le)
  PROVE  open <= Room(n)
<1> PICK limit \in Nat : limit = Limit /\ limit >= 2
  BY LimitIs
<1> QED BY LimitIs DEF Bounded, Room

\* Nothing that only lets deletes and late threads go breaks it.
LEMMA BoundedLess ==
  ASSUME NEW open \in Nat, NEW left \in Nat, NEW n \in Nat, NEW start \in Nat, NEW from \in Nat,
         NEW time \in Nat, NEW lf \in Nat, NEW le \in Nat,
         Bounded(open, left, n, start, from, time, lf, le),
         NEW open1 \in Nat, NEW lf1 \in Nat, NEW le1 \in Nat,
         open1 <= open, from <= time => lf1 <= lf, start + Window <= time => le1 <= le,
         from <= time
  PROVE  Bounded(open1, left, n, start, from, time, lf1, le1)
<1> PICK limit \in Nat : limit = Limit /\ limit >= 2
  BY LimitIs
<1> QED BY LimitIs DEF Bounded, Room

\* A delete counted in a window that is not over at the time read, which leaves less of it.
MoreCounted(open, left, n, start, from, time, lf, le, open1, left1, lf1, le1, stamp) ==
  /\ {open, left, n, start, from, time, lf, le, open1, left1, lf1, le1, stamp} \subseteq Nat
  /\ Bounded(open, left, n, start, from, time, lf, le) /\ left = left1 + 1
  /\ stamp < start + Window /\ from <= time /\ open1 <= open + 1
  /\ stamp < from => lf1 + 1 <= lf
  /\ start + Window <= time => le1 + 1 <= le
LEMMA BoundedMore ==
  ASSUME NEW open, NEW left, NEW n, NEW start, NEW from, NEW time, NEW lf, NEW le,
         NEW open1, NEW left1, NEW lf1, NEW le1, NEW stamp,
         MoreCounted(open, left, n, start, from, time, lf, le, open1, left1, lf1, le1, stamp)
  PROVE  Bounded(open1, left1, n, start, from, time, lf1, le1)
<1> PICK limit \in Nat : limit = Limit /\ limit >= 2
  BY LimitIs
<1> QED BY LimitIs DEF MoreCounted, Bounded, Room

\* A delete that begins another window: what is left of it, and of the threads others than its.
CountedAnew(open, left, n, start, from, time, lf, le, open1, lf1, le1, stamp) ==
  /\ {open, left, n, start, from, time, lf, le, open1, lf1, le1, stamp} \subseteq Nat
  /\ Bounded(open, left, n, start, from, time, lf, le) /\ n >= 1
  /\ stamp >= start + Window /\ stamp <= time /\ from <= time /\ time < from + Window
  /\ open1 <= open + 1 /\ lf1 <= lf /\ le1 <= n - 1
  /\ stamp < from => lf1 + 1 <= lf
LEMMA BoundedAnew ==
  ASSUME NEW open, NEW left, NEW n, NEW start, NEW from, NEW time, NEW lf, NEW le,
         NEW open1, NEW lf1, NEW le1, NEW stamp,
         CountedAnew(open, left, n, start, from, time, lf, le, open1, lf1, le1, stamp)
  PROVE  Bounded(open1, Limit - 2, n, stamp, from, time, lf1, le1)
<1> PICK limit \in Nat : limit = Limit /\ limit >= 2
  BY LimitIs
<1>0. /\ {open, left, n, start, from, time, lf, le, open1, lf1, le1, stamp} \subseteq Nat
      /\ Window \in Nat
  BY LimitIs DEF CountedAnew
<1>1. CASE start + Window <= from
  BY <1>0, <1>1, LimitIs DEF CountedAnew, Bounded, Room
<1>2. CASE ~(start + Window <= from)
  BY <1>0, <1>2, LimitIs DEF CountedAnew, Bounded, Room
<1> QED BY <1>1, <1>2

\* The first delete of a process.
LEMMA BoundedFirst ==
  ASSUME NEW open \in Nat, NEW n \in Nat, NEW stamp \in Nat, NEW from \in Nat,
         NEW time \in Nat, NEW lf \in Nat, NEW le \in Nat, n >= 1,
         open + lf <= n, open + le <= n
  PROVE  Bounded(open, Limit - 2, n, stamp, from, time, lf, le)
<1> PICK limit \in Nat : limit = Limit /\ limit >= 2
  BY LimitIs
<1> QED BY LimitIs DEF Bounded, Room

\* A flag that is cleared: the thread that clears it is late no more.
LEMMA BoundedCleared ==
  ASSUME NEW open \in Nat, NEW n \in Nat, NEW start \in Nat, NEW from \in Nat,
         NEW time \in Nat, NEW lf \in Nat, NEW le \in Nat, NEW left \in Nat,
         Bounded(open, left, n, start, from, time, lf, le), n >= 1,
         NEW open1 \in Nat, NEW lf1 \in Nat, NEW le1 \in Nat, NEW left1 \in Nat,
         start + Window <= time, from <= time, time < from + Window,
         open1 <= open, lf1 <= lf, le1 <= le, le1 <= n - 1
  PROVE  Bounded(open1, left1, n, start, from, time, lf1, le1)
<1> PICK limit \in Nat : limit = Limit /\ limit >= 2
  BY LimitIs
<1> QED BY LimitIs DEF Bounded, Room

\* The clock ticks: in a span that has begun, and at the beginning of another one.
LEMMA BoundedLater ==
  ASSUME NEW open \in Nat, NEW left \in Nat, NEW n \in Nat, NEW start \in Nat, NEW from \in Nat,
         NEW time \in Nat, NEW lf \in Nat, NEW le \in Nat, le <= n,
         Bounded(open, left, n, start, from, time, lf, le)
  PROVE  Bounded(open, left, n, start, from, time + 1, lf, le)
<1> PICK limit \in Nat : limit = Limit /\ limit >= 2
  BY LimitIs
<1> QED BY LimitIs DEF Bounded, Room
LEMMA BoundedEntered ==
  ASSUME NEW open \in Nat, NEW left \in Nat, NEW n \in Nat, NEW start \in Nat,
         NEW time \in Nat, NEW lf \in Nat, NEW le \in Nat,
         start < time, open + lf <= n, open <= n, time < start + Window => left <= Limit - 2
  PROVE  Bounded(open, left, n, start, time, time, lf, le)
<1> PICK limit \in Nat : limit = Limit /\ limit >= 2
  BY LimitIs
<1> QED BY LimitIs DEF Bounded, Room

\* A delete that is counted and not rated; and a thread that has read the clock before an
\* instant and has not counted yet.
IsPending(t) == at[t] = "rating" /\ CountsDelete(Pid(t), Path(t), job[t].access)
IsLate(t, time) == at[t] = "deletes" /\ seen[t] # NoTime /\ seen[t] < time
Pending(p) == {t \in Ours(p) : IsPending(t)}
Late(p, time) == {t \in Ours(p) : IsLate(t, time)}
Left(slot) == IF slot.count < Limit THEN Limit - 1 - slot.count ELSE 0
Log == tables["deletes"]
Phase(p, from, slot) ==
  Bounded(InSpan(p, from) + Cardinality(Pending(p)), Left(slot), Cardinality(Ours(p)), slot.start,
          from, now, Cardinality(Late(p, from)), Cardinality(Late(p, slot.start + Window)))

\* The clock is read in no other place than the monitor's, a slot is claimed when it counts, and
\* a process has one slot, and none if it has let nothing through.
ClockOk(t) == seen[t] # NoTime => seen[t] <= now /\ at[t] \in Tables \cup {"rating"}
SlotTimes(slot) ==
  slot.start <= now /\ (slot.pid \in Pids /\ now < slot.start + Window => slot.count > 0)
Held(p) == \E s \in Slots : Log[s].pid = p
PassedOk(p) ==
  /\ passed[p] \in [0..MaxTime -> Nat]
  /\ \A i \in 0..MaxTime : i > now \/ ~Held(p) => passed[p][i] = 0
SpanOk(p, from) ==
  /\ InSpan(p, from) <= Room(Cardinality(Ours(p)))
  /\ from <= now /\ now < from + Window =>
       \A s \in Slots : Log[s].pid = p => Phase(p, from, Log[s])
SpanInv ==
  /\ \A t \in Threads : ClockOk(t)
  /\ \A s \in Slots : SlotTimes(Log[s])
  /\ \A s, r \in Slots : Log[s].pid = Log[r].pid /\ Log[s].pid \in Pids => s = r
  /\ passed = [p \in Pids |-> passed[p]] /\ \A p \in Pids : PassedOk(p)
  /\ \A p \in Pids, from \in 0..MaxTime : SpanOk(p, from)

LEMMA DisjointParts ==
  ASSUME NEW S, IsFiniteSet(S), NEW A, NEW B, A \subseteq S, B \subseteq S, A \cap B = {}
  PROVE  /\ IsFiniteSet(A) /\ IsFiniteSet(B) /\ Cardinality(A) \in Nat /\ Cardinality(B) \in Nat
         /\ Cardinality(S) \in Nat /\ Cardinality(B) <= Cardinality(S)
         /\ Cardinality(A) + Cardinality(B) <= Cardinality(S)
<1>1. /\ IsFiniteSet(A) /\ IsFiniteSet(B) /\ Cardinality(A) \in Nat /\ Cardinality(B) \in Nat
      /\ Cardinality(S) \in Nat /\ Cardinality(B) <= Cardinality(S)
  BY FS_Subset, FS_CardinalityType
<1>2. Cardinality(A \cap B) = 0
  BY FS_EmptySet
<1>3. Cardinality(A \cup B) = Cardinality(A) + Cardinality(B) - Cardinality(A \cap B)
  BY <1>1, FS_Union
<1>4. A \cup B \subseteq S
  OBVIOUS
<1>5. Cardinality(A \cup B) <= Cardinality(S)
  BY <1>4, FS_Subset
<1> QED BY <1>1, <1>2, <1>3, <1>5

LEMMA Counts ==
  ASSUME NEW p
  PROVE  /\ IsFiniteSet(Ours(p)) /\ Cardinality(Ours(p)) \in Nat
         /\ IsFiniteSet(Pending(p)) /\ Cardinality(Pending(p)) \in Nat
         /\ \A x : /\ IsFiniteSet(Late(p, x)) /\ Cardinality(Late(p, x)) \in Nat
                   /\ Cardinality(Late(p, x)) <= Cardinality(Ours(p))
                   /\ Cardinality(Pending(p)) + Cardinality(Late(p, x)) <= Cardinality(Ours(p))
<1>1. IsFiniteSet(Ours(p)) /\ Cardinality(Ours(p)) \in Nat
  <2>1. Ours(p) \subseteq Threads
    BY DEF Ours
  <2> QED BY <2>1, ThreadsAssumption, FS_Subset, FS_CardinalityType
<1>2. Pending(p) \subseteq Ours(p)
  BY DEF Pending
<1>3. ASSUME NEW x PROVE Late(p, x) \subseteq Ours(p) /\ Pending(p) \cap Late(p, x) = {}
  BY DEF Pending, Late, IsPending, IsLate
<1>4. IsFiniteSet(Pending(p)) /\ Cardinality(Pending(p)) \in Nat
  BY <1>1, <1>2, FS_Subset, FS_CardinalityType
<1> QED BY <1>1, <1>2, <1>3, <1>4, DisjointParts

\* The same, after a step.
LEMMA CountsAfter ==
  ASSUME NEW p
  PROVE  /\ Ours(p)' = Ours(p)
         /\ IsFiniteSet(Pending(p)') /\ Cardinality(Pending(p)') \in Nat
         /\ \A x : /\ IsFiniteSet(Late(p, x)') /\ Cardinality(Late(p, x)') \in Nat
                   /\ Cardinality(Late(p, x)') <= Cardinality(Ours(p))
                   /\ Cardinality(Pending(p)') + Cardinality(Late(p, x)') <= Cardinality(Ours(p))
<1>1. Ours(p)' = Ours(p) /\ IsFiniteSet(Ours(p))
  BY Counts DEF Ours
<1>2. Pending(p)' \subseteq Ours(p)
  BY <1>1 DEF Pending
<1>3. ASSUME NEW x PROVE Late(p, x)' \subseteq Ours(p) /\ Pending(p)' \cap Late(p, x)' = {}
  <2>1. Late(p, x)' \subseteq Ours(p)
    BY <1>1 DEF Late
  <2>2. Pending(p)' \cap Late(p, x)' = {}
    BY DEF Pending, Late, IsPending, IsLate
  <2> QED BY <2>1, <2>2
<1>4. IsFiniteSet(Pending(p)') /\ Cardinality(Pending(p)') \in Nat
  BY <1>1, <1>2, FS_Subset, FS_CardinalityType
<1> QED BY <1>1, <1>2, <1>3, <1>4, DisjointParts

\* A thread that adds no delete to those counted, and reads no clock but the present one.
Calm(t) ==
  /\ IsPending(t)' => IsPending(t)
  /\ \A x \in Nat : x <= now /\ IsLate(t, x)' => IsLate(t, x)

LEMMA CalmCounts ==
  ASSUME NEW p, \A t \in Ours(p) : Calm(t)
  PROVE  /\ Cardinality(Pending(p)') <= Cardinality(Pending(p))
         /\ \A x \in Nat : x <= now => Cardinality(Late(p, x)') <= Cardinality(Late(p, x))
<1>1. Ours(p)' = Ours(p)
  BY CountsAfter
<1>2. Pending(p)' \subseteq Pending(p)
  BY <1>1 DEF Pending, Calm
<1>3. ASSUME NEW x \in Nat, x <= now PROVE Late(p, x)' \subseteq Late(p, x)
  BY <1>1, <1>3 DEF Late, Calm
<1>4. IsFiniteSet(Pending(p)) /\ \A x : IsFiniteSet(Late(p, x))
  BY Counts
<1> QED BY <1>2, <1>3, <1>4, FS_Subset

\* The span of one window from an instant on.
Span(from) == {i \in 0..MaxTime : from <= i /\ i < from + Window}

LEMMA SpanFinite == ASSUME NEW from PROVE IsFiniteSet(Span(from))
<1>1. IsFiniteSet(0..MaxTime) /\ Span(from) \subseteq 0..MaxTime
  <2>1. MaxTime \in Nat
    BY MonitorAssumption
  <2> QED BY <2>1, FS_Interval DEF Span
<1> QED BY <1>1, FS_Subset
LEMMA SpanTotal ==
  \A p \in Pids, from \in 0..MaxTime :
    \A W : W = passed[p] => InSpan(p, from) = Total(W, Span(from))
BY DEF InSpan, Total, Span
LEMMA SpanTotalNext ==
  \A p \in Pids, from \in 0..MaxTime : InSpan(p, from)' = Total(passed'[p], Span(from))
<1>1. (\A p \in Pids, from \in 0..MaxTime :
         \A W : W = passed[p] => InSpan(p, from) = Total(W, Span(from)))'
  BY SpanTotal, PTL
<1>2. ASSUME NEW p \in Pids, NEW from \in 0..MaxTime, NEW W, W = passed'[p]
      PROVE  InSpan(p, from)' = Total(W, Span(from))
  BY <1>1, <1>2
<1> QED BY <1>2
LEMMA SpanIs ==
  ASSUME NEW p \in Pids, NEW from \in 0..MaxTime
  PROVE  /\ InSpan(p, from) = Total(passed[p], Span(from)) /\ IsFiniteSet(Span(from))
         /\ InSpan(p, from)' = Total(passed'[p], Span(from))
BY SpanFinite, SpanTotal, SpanTotalNext

\* A span counts what was let through in it; before it begins nothing was.
LEMMA SpanNat ==
  ASSUME NEW p \in Pids, NEW from \in 0..MaxTime, passed[p] \in [0..MaxTime -> Nat]
  PROVE  InSpan(p, from) \in Nat
<1>1. Natural(passed[p], Span(from))
  BY DEF Natural, Span
<1> QED BY <1>1, SpanIs, TotalNat
LEMMA SpanEmpty ==
  ASSUME NEW p \in Pids, NEW from \in 0..MaxTime, \A i \in Span(from) : passed[p][i] = 0
  PROVE  InSpan(p, from) = 0
BY SpanIs, TotalZero
LEMMA SpanNew ==
  ASSUME NEW p \in Pids, NEW from \in 0..MaxTime, \A i \in Span(from) : passed'[p][i] = 0
  PROVE  InSpan(p, from)' = 0
<1>1. Total(passed'[p], Span(from)) = 0
  BY SpanIs, TotalZero
<1> QED BY <1>1, SpanIs
LEMMA SpanSame ==
  ASSUME NEW p \in Pids, NEW from \in 0..MaxTime, passed'[p] = passed[p]
  PROVE  InSpan(p, from)' = InSpan(p, from)
BY SpanIs
LEMMA SpanElsewhere ==
  ASSUME NEW p \in Pids, NEW from \in 0..MaxTime, passed[p] \in [0..MaxTime -> Nat],
         \A i \in Span(from) : passed'[p][i] = passed[p][i]
  PROVE  InSpan(p, from)' = InSpan(p, from)
<1>1. Natural(passed[p], Span(from)) /\ Natural(passed'[p], Span(from))
  BY DEF Natural, Span
<1>2. Total(passed'[p], Span(from)) = Total(passed[p], Span(from))
  BY <1>1, SpanIs, TotalSame
<1> QED BY <1>2, SpanIs
LEMMA SpanBump ==
  ASSUME NEW p \in Pids, NEW from \in 0..MaxTime, passed[p] \in [0..MaxTime -> Nat], NEW e \in Span(from),
         passed'[p] = [passed[p] EXCEPT ![e] = @ + 1]
  PROVE  InSpan(p, from)' = InSpan(p, from) + 1
<1>1. Natural(passed[p], Span(from)) /\ e \in 0..MaxTime
  BY DEF Natural, Span
<1>2. passed'[p][e] = passed[p][e] + 1 /\ \A x \in Span(from) \ {e} : passed'[p][x] = passed[p][x]
  BY <1>1 DEF Span
<1>3. Total(passed'[p], Span(from)) = Total(passed[p], Span(from)) + 1
  <2>1. PICK V, W : V = passed'[p] /\ W = passed[p]
    OBVIOUS
  <2>2. IsFiniteSet(Span(from)) /\ Natural(W, Span(from))
    BY <1>1, <2>1, SpanFinite
  <2>3. V[e] = W[e] + 1 /\ \A x \in Span(from) \ {e} : V[x] = W[x]
    BY <1>2, <2>1
  <2>4. Total(V, Span(from)) = Total(W, Span(from)) + 1
    BY <2>2, <2>3, TotalBump
  <2> QED BY <2>1, <2>4
<1> QED BY <1>3, SpanIs

\* The slot of a process stays bounded while its threads are calm and it lets nothing through.
LEMMA PhaseCalm ==
  ASSUME NEW p, NEW from \in Nat, NEW slot, slot.start \in Nat, Left(slot) \in Nat,
         now \in Nat, from <= now, now' = now,
         InSpan(p, from) \in Nat, InSpan(p, from)' = InSpan(p, from),
         \A t \in Ours(p) : Calm(t), Phase(p, from, slot)
  PROVE  Phase(p, from, slot)'
<1> DEFINE n == Cardinality(Ours(p))
           end == slot.start + Window
           m == Cardinality(Pending(p))
           m1 == Cardinality(Pending(p)')
           lf == Cardinality(Late(p, from))
           lf1 == Cardinality(Late(p, from)')
           le == Cardinality(Late(p, end))
           le1 == Cardinality(Late(p, end)')
<1>1. n \in Nat /\ m \in Nat /\ m1 \in Nat /\ lf \in Nat /\ lf1 \in Nat /\ le \in Nat /\ le1 \in Nat
  BY Counts, CountsAfter
<1>2. m1 <= m /\ lf1 <= lf /\ (end <= now => le1 <= le)
  <2>1. end \in Nat
    BY LimitIs
  <2> HIDE DEF end
  <2> QED BY <2>1, CalmCounts
<1>3. Bounded(InSpan(p, from) + m, Left(slot), n, slot.start, from, now, lf, le)
  BY DEF Phase
<1> HIDE DEF n, m, m1, lf, lf1, le, le1
<1>4. Bounded(InSpan(p, from) + m1, Left(slot), n, slot.start, from, now, lf1, le1)
  <2> DEFINE open == InSpan(p, from) + m
             open1 == InSpan(p, from) + m1
  <2>1. open \in Nat /\ open1 \in Nat /\ open1 <= open
    BY <1>1, <1>2
  <2>2. Bounded(open, Left(slot), n, slot.start, from, now, lf, le)
    BY <1>3
  <2> HIDE DEF open, open1
  <2>3. Bounded(open1, Left(slot), n, slot.start, from, now, lf1, le1)
    BY <1>1, <1>2, <2>1, <2>2, BoundedLess
  <2> QED BY <2>3 DEF open1
<1>5. Left(slot)' = Left(slot) /\ Cardinality(Ours(p))' = n
  BY CountsAfter DEF Left, Limit, n
<1> QED BY <1>4, <1>5 DEF Phase, Bounded, Room, Limit, m1, lf1, le1

\* The thread that moves leaves with no time read and no delete counted.
Away(t) == /\ StepOf(t) /\ seen'[t] = NoTime /\ ~IsPending(t)'
           /\ \A u \in Threads \ {t} : seen'[u] = seen[u]

LEMMA ReturnAway ==
  ASSUME RequestsInv, NEW t \in Threads, Return(t)
  PROVE  Away(t)
<1>1. StepOf(t) /\ at'[t] = "idle"
  BY ReturnFacts
<1>2. seen'[t] = NoTime /\ \A u \in Threads \ {t} : seen'[u] = seen[u]
  BY DEF Return, RequestsInv, Types
<1> QED BY <1>1, <1>2 DEF Away, IsPending

\* A step outside the monitor changes no time.
LEMMA OutsideAway ==
  ASSUME RequestsInv, NEW t \in Threads, ClockOk(t), at[t] \notin Tables \cup {"rating"},
         StepOf(t), seen' = seen,
         at'[t] = "rating" => ~CountsDelete(Pid(t), job'[t].path, job'[t].access)
  PROVE  Away(t)
<1>1. seen'[t] = NoTime
  BY DEF ClockOk
<1>2. ~IsPending(t)'
  BY DEF IsPending, CountsDelete, Pid, Path
<1> QED BY <1>1, <1>2 DEF Away

LEMMA RulesRate ==
  ASSUME RequestsInv, NEW t \in Threads, NEW p, NEW path, NEW access, Rules(t, p, path, access),
         at'[t] = "rating"
  PROVE  ~CountsDelete(p, path, access)
<1>1. CASE Ask(t, "rule")
  BY <1>1 DEF Ask, Go, RequestsInv, Types
<1>2. CASE Go(t, AfterRules(p, path, access))
  BY <1>2 DEF Go, AfterRules, AfterWrites, RequestsInv, Types
<1> QED BY <1>1, <1>2 DEF Rules

LEMMA ProceedRate ==
  ASSUME RequestsInv, NEW t \in Threads, Proceed(t), at'[t] = "rating"
  PROVE  ~CountsDelete(Pid(t), Path(t), job[t].access)
<1>1. CASE Rules(t, Pid(t), Path(t), job[t].access)
  BY <1>1, RulesRate
<1>2. CASE Go(t, AfterRules(Pid(t), Path(t), job[t].access))
  BY <1>2 DEF Go, AfterRules, AfterWrites, RequestsInv, Types
<1>3. ASSUME NEW place, Go(t, place), place # "rating"
      PROVE  FALSE
  BY <1>3 DEF Go, RequestsInv, Types
<1>4. \/ Rules(t, Pid(t), Path(t), job[t].access) \/ Go(t, AfterRules(Pid(t), Path(t), job[t].access))
      \/ Go(t, "keeping") \/ Go(t, IF context[Handle(t)] = "none" THEN "marking" ELSE "writing")
      \/ Go(t, "renaming") \/ Go(t, "deleting") \/ Go(t, "closing")
  BY DEF Proceed
<1> QED BY <1>1, <1>2, <1>3, <1>4

LEMMA BeginRate ==
  ASSUME RequestsInv, NEW t \in Threads, NEW kind, NEW h, NEW path, NEW to, NEW access,
         NEW subject, Begin(t, kind, h, path, to, access, subject), ClockOk(t), StepOf(t),
         at'[t] = "rating" => ~CountsDelete(Pid(t), path, access)
  PROVE  Away(t)
<1>1. at[t] = "idle" /\ seen' = seen
  BY DEF Begin
<1>2. job'[t].path = path /\ job'[t].access = access
  BY DEF Begin, RequestsInv, Types
<1> QED BY <1>1, <1>2, OutsideAway DEF Tables

LEMMA OpenToReadAway ==
  ASSUME RequestsInv, NEW t \in Threads, ClockOk(t), OpenToRead(t)
  PROVE  Away(t)
<1>1. StepOf(t)
  BY OpenToReadStep
<1>2. PICK path \in Paths : Begin(t, "open", NoPath, path, NoPath, "read", NoPath)
  BY DEF OpenToRead
<1>3. ~CountsDelete(Pid(t), path, "read")
  BY DEF CountsDelete
<1> QED BY <1>1, <1>2, <1>3, BeginRate

LEMMA OpenToWriteAway ==
  ASSUME RequestsInv, NEW t \in Threads, ClockOk(t), NEW h \in Handles, OpenToWrite(t, h)
  PROVE  Away(t)
<1>1. StepOf(t)
  BY OpenToWriteStep DEF Opened
<1>2. PICK path \in Paths, access \in Accesses :
        OpenUnnamed(t, h, path, access) \/ OpenNamed(t, h, path, access)
  BY DEF OpenToWrite
<1>3. CASE OpenUnnamed(t, h, path, access)
  <2>1. at'[t] # "rating"
    BY <1>3 DEF OpenUnnamed, Go, RequestsInv, Types
  <2> QED BY <1>1, <1>3, <2>1, BeginRate DEF OpenUnnamed
<1>4. CASE OpenNamed(t, h, path, access)
  <2>1. at'[t] = "rating" => ~CountsDelete(Pid(t), path, access)
    <3>1. CASE path \in guarded
      BY <1>4, <3>1 DEF OpenNamed, Go, RequestsInv, Types
    <3>2. CASE path \notin guarded /\ path \in Autorun
      BY <1>4, <3>2 DEF OpenNamed, Ask, Go, RequestsInv, Types
    <3>3. CASE path \notin guarded /\ path \notin Autorun
      BY <1>4, <3>3, RulesRate DEF OpenNamed
    <3> QED BY <3>1, <3>2, <3>3
  <2> QED BY <1>1, <1>4, <2>1, BeginRate DEF OpenNamed
<1> QED BY <1>2, <1>3, <1>4

LEMMA HandleAway ==
  ASSUME RequestsInv, NEW t \in Threads, ClockOk(t), NEW h \in Handles,
         \/ Write(t, h) \/ SetInformation(t, h, "delete", NoPath)
         \/ \E to \in Targets : SetInformation(t, h, "rename", to)
         \/ Cleanup(t, h) /\ ~UNCHANGED threadVars
  PROVE  Away(t)
<1>0. NoPath \in Names /\ \A to \in Targets : to \in Paths /\ to \in Names
  BY PathAssumption DEF Names
<1>1. CASE Write(t, h)
  <2>1. StepOf(t)
    BY <1>1, WriteStep DEF Opened
  <2>2. at'[t] # "rating"
    BY <1>1 DEF Write, Go, RequestsInv, Types
  <2> QED BY <1>1, <2>1, <2>2, BeginRate DEF Write
<1>2. ASSUME NEW kind \in {"delete", "rename"}, NEW to \in Names,
             kind = "delete" \/ (kind = "rename" /\ to \in Paths), SetInformation(t, h, kind, to)
      PROVE  Away(t)
  <2>1. StepOf(t)
    BY <1>2, SetInformationStep DEF Opened
  <2>2. at'[t] # "rating"
    BY <1>2 DEF SetInformation, Go, RequestsInv, Types
  <2> QED BY <1>2, <2>1, <2>2, BeginRate DEF SetInformation
<1>3. CASE Cleanup(t, h) /\ ~UNCHANGED threadVars
  <2>1. StepOf(t)
    BY <1>3, CleanupStep DEF Opened
  <2>2. at'[t] # "rating" /\ Begin(t, "cleanup", h, name[h], NoPath, "read", NoPath)
    BY <1>3 DEF Cleanup, Ask, Go, RequestsInv, Types
  <2> QED BY <2>1, <2>2, BeginRate
<1> QED BY <1>0, <1>1, <1>2, <1>3

LEMMA RequestAway ==
  ASSUME RequestsInv, NEW t \in Threads, ClockOk(t), Guarded(t),
         \/ KeepBootContext(t) \/ CreateSucceeds(t) \/ CreateFails(t) \/ PostCreate(t) \/ Mark(t)
         \/ TargetUnnamed(t) \/ CheckTarget(t) \/ Rename(t) \/ Effect(t) \/ CheckBoot(t) \/ Close(t)
         \/ \E d \in Answers : Answer(t, d)
  PROVE  Away(t)
<1>1. CASE Return(t)
  BY <1>1, ReturnAway
<1>2. at[t] \notin Tables \cup {"rating"}
  BY DEF KeepBootContext, CreateSucceeds, CreateFails, PostCreate, Mark, TargetUnnamed, CheckTarget,
     Rename, Effect, CheckBoot, Close, Answer, Tables
<1>3. CASE ~Return(t)
  <2>1. seen' = seen
    BY <1>3 DEF KeepBootContext, CreateSucceeds, CreateFails, PostCreate, Mark, TargetUnnamed,
       CheckTarget, Rename, Effect, CheckBoot, Close, Answer
  <2>2. StepOf(t)
    <3>1. CASE KeepBootContext(t) \/ CreateSucceeds(t) \/ CreateFails(t) \/ PostCreate(t) \/ Mark(t)
      BY <3>1, KeepBootContextStep, CreateSucceedsStep, EndingStep, PostCreateStep, MarkStep
         DEF Ended, Continued
    <3>2. CASE TargetUnnamed(t) \/ CheckTarget(t) \/ Rename(t) \/ Effect(t) \/ CheckBoot(t)
               \/ Close(t)
      BY <3>2, TargetUnnamedStep, CheckTargetStep, EndingStep, CheckBootStep DEF Ended, Continued
    <3>3. ASSUME NEW d \in Answers, Answer(t, d) PROVE StepOf(t)
      BY <3>3, AnswerStep DEF Ended, Continued
    <3> QED BY <3>1, <3>2, <3>3
  <2>3. CASE CheckBoot(t) \/ \E d \in Answers : Answer(t, d)
    <3>1. job' = job
      BY <1>3, <2>3 DEF CheckBoot, Answer
    <3>2. ASSUME at'[t] = "rating" PROVE Proceed(t)
      BY <1>3, <2>3, <3>2 DEF CheckBoot, Answer, Ask, Go, RequestsInv, Types
    <3>3. at'[t] = "rating" => ~CountsDelete(Pid(t), Path(t), job[t].access)
      BY <3>2, ProceedRate
    <3> QED BY <1>2, <2>1, <2>2, <3>1, <3>3, OutsideAway DEF Path
  <2>4. CASE ~(CheckBoot(t) \/ \E d \in Answers : Answer(t, d))
    <3>1. at'[t] # "rating"
      BY <1>3, <2>4 DEF KeepBootContext, CreateSucceeds, CreateFails, PostCreate, Mark,
         TargetUnnamed, CheckTarget, Rename, Effect, Close, Ask, Go, RequestsInv, Types
    <3> QED BY <1>2, <2>1, <2>2, <3>1, OutsideAway
  <2> QED BY <2>3, <2>4
<1> QED BY <1>1, <1>3

\* A thread leaves the monitor's tables, unless it has just been counted as a delete.
LEMMA WritesAway ==
  ASSUME RequestsInv, NEW t \in Threads, Count(t), at[t] = "writes" \/ Return(t)
  PROVE  Away(t)
<1>1. CASE Return(t)
  BY <1>1, ReturnAway
<1>2. CASE at[t] = "writes" /\ ~Return(t)
  <2>1. /\ Go(t, AfterWrites(Pid(t), Path(t), job[t].access)) /\ job' = job
        /\ seen' = [seen EXCEPT ![t] = NoTime]
    BY <1>2 DEF Count
  <2>2. StepOf(t)
    BY CountStep DEF Ended, Continued
  <2>3. at'[t] = "rating" => ~CountsDelete(Pid(t), Path(t), job[t].access)
    BY <2>1 DEF Go, AfterWrites, RequestsInv, Types
  <2>4. seen'[t] = NoTime /\ \A u \in Threads \ {t} : seen'[u] = seen[u]
    BY <2>1 DEF RequestsInv, Types
  <2> QED BY <2>1, <2>2, <2>3, <2>4 DEF Away, IsPending, CountsDelete, Pid, Path
<1> QED BY <1>1, <1>2
LEMMA RateAway ==
  ASSUME RequestsInv, NEW t \in Threads, Rate(t)
  PROVE  Away(t)
<1>1. CASE Return(t)
  BY <1>1, ReturnAway
<1>2. CASE Go(t, "creating") /\ seen' = [seen EXCEPT ![t] = NoTime]
  <2>1. StepOf(t)
    BY RateStep DEF Ended, Continued
  <2>2. seen'[t] = NoTime /\ \A u \in Threads \ {t} : seen'[u] = seen[u]
    BY <1>2 DEF RequestsInv, Types
  <2>3. at'[t] # "rating"
    BY <1>2 DEF Go, RequestsInv, Types
  <2> QED BY <2>1, <2>2, <2>3 DEF Away, IsPending
<1> QED BY <1>1, <1>2 DEF Rate

\* The other threads, and the one that moves, are calm.
LEMMA OthersCalm ==
  ASSUME NEW t, StepOf(t), \A u \in Threads \ {t} : seen'[u] = seen[u], NEW u \in Threads, u # t
  PROVE  Calm(u) /\ (now' = now /\ ClockOk(u) => ClockOk(u)')
<1>1. at'[u] = at[u] /\ job'[u] = job[u] /\ seen'[u] = seen[u]
  BY DEF StepOf, Same
<1> QED BY <1>1 DEF Calm, ClockOk, IsPending, IsLate, CountsDelete, Pid, Path
LEMMA AwayCalm ==
  ASSUME NEW t \in Threads, Away(t), NEW u \in Threads
  PROVE  Calm(u) /\ (now' = now /\ ClockOk(u) => ClockOk(u)')
<1>1. CASE u # t
  BY <1>1, OthersCalm DEF Away
<1>2. CASE u = t
  BY <1>2 DEF Away, Calm, ClockOk, IsLate
<1> QED BY <1>1, <1>2
LEMMA ReadClockCalm ==
  ASSUME RequestsInv, now \in 0..MaxTime, NEW t \in Threads, ReadClock(t), NEW u \in Threads
  PROVE  Calm(u) /\ (now' = now /\ ClockOk(u) => ClockOk(u)')
<1>1. StepOf(t) /\ at' = at /\ job' = job /\ seen' = [seen EXCEPT ![t] = now]
  BY ReadClockStep DEF Continued, ReadClock
<1>2. seen'[t] = now /\ \A v \in Threads \ {t} : seen'[v] = seen[v]
  BY <1>1 DEF RequestsInv, Types
<1>3. CASE u # t
  BY <1>1, <1>2, <1>3, OthersCalm
<1>4. CASE u = t
  <2>1. Calm(t)
    BY <1>1, <1>2 DEF Calm, IsPending, IsLate, CountsDelete, Pid, Path
  <2>2. now' = now => ClockOk(t)'
    BY <1>1, <1>2 DEF ClockOk, ReadClock
  <2> QED BY <1>4, <2>1, <2>2
<1> QED BY <1>3, <1>4

LEMMA SlotIs ==
  ASSUME NEW slot, SlotOk("deletes", slot)
  PROVE  /\ slot.start \in Nat /\ slot.count \in Nat /\ slot.count <= Limit /\ Left(slot) \in Nat
         /\ slot.pid \in Pids \cup {NoPid} /\ slot.flag \in BOOLEAN
         /\ slot.flag <=> slot.count = Limit
         /\ slot = [pid |-> slot.pid, count |-> slot.count, start |-> slot.start, flag |-> slot.flag]
<1>1. MaxTime \in Nat /\ Limit \in Nat
  BY LimitIs, MonitorAssumption
<1>2. /\ slot.start \in Nat /\ slot.count \in Nat /\ slot.count <= Limit
      /\ slot.pid \in Pids \cup {NoPid} /\ slot.flag \in BOOLEAN
      /\ slot = [pid |-> slot.pid, count |-> slot.count, start |-> slot.start, flag |-> slot.flag]
  BY <1>1 DEF SlotOk, Slot, Limit
<1>3. Left(slot) \in Nat
  BY <1>1, <1>2 DEF Left
<1>4. slot.flag <=> slot.count = Limit
  BY <1>1, <1>2 DEF SlotOk, Limit
<1> QED BY <1>2, <1>3, <1>4
LEMMA LogIs ==
  ASSUME MonitorInv
  PROVE  /\ \A s \in Slots : SlotOk("deletes", Log[s])
         /\ now \in Nat /\ now <= MaxTime /\ MaxTime \in Nat
<1>1. "deletes" \in Tables
  BY DEF Tables
<1>2. \A s \in Slots : SlotOk("deletes", Log[s])
  BY <1>1 DEF MonitorInv, TableOk, Log
<1>3. now \in Nat /\ now <= MaxTime /\ MaxTime \in Nat
  BY MonitorAssumption DEF MonitorInv
<1> QED BY <1>2, <1>3

\* A span stays bounded while the threads of its process are calm.
LEMMA SpanCalm ==
  ASSUME MonitorInv, SpanInv, NEW p \in Pids, NEW from \in 0..MaxTime, now' = now,
         passed'[p] = passed[p], \A u \in Ours(p) : Calm(u),
         \A s \in Slots : Log'[s].pid = p => Log'[s] = Log[s]
  PROVE  SpanOk(p, from)'
<1>1. PassedOk(p) /\ SpanOk(p, from) /\ from \in Nat /\ now \in Nat
  BY LogIs DEF SpanInv
<1>2. InSpan(p, from)' = InSpan(p, from) /\ InSpan(p, from) \in Nat
  BY <1>1, SpanSame, SpanNat DEF PassedOk
<1>3. Room(Cardinality(Ours(p)))' = Room(Cardinality(Ours(p)))
  BY CountsAfter DEF Room, Limit
<1>4. ASSUME from <= now, now < from + Window, NEW s \in Slots, Log'[s].pid = p
      PROVE  Phase(p, from, Log[s])'
  <2>1. PICK slot : slot = Log[s]
    OBVIOUS
  <2>2. slot.pid = p /\ Log'[s] = slot
    BY <1>4, <2>1
  <2>3. Phase(p, from, slot) /\ slot.start \in Nat /\ Left(slot) \in Nat
    BY <1>1, <1>4, <2>1, <2>2, LogIs, SlotIs DEF SpanOk
  <2>4. Phase(p, from, slot)'
    BY <1>1, <1>2, <1>4, <2>3, PhaseCalm
  <2> QED BY <2>2, <2>4
<1>5. InSpan(p, from)' <= Room(Cardinality(Ours(p)))'
  BY <1>1, <1>2, <1>3 DEF SpanOk
<1> QED BY <1>4, <1>5 DEF SpanOk

\* A step that counts nothing and lets nothing through.
LEMMA QuietKeeps ==
  ASSUME MonitorInv, SpanInv, Log' = Log, now' = now, passed' = passed,
         \A u \in Threads : Calm(u) /\ ClockOk(u)'
  PROVE  SpanInv'
<1>1. \A s \in Slots : SlotTimes(Log[s])'
  BY DEF SpanInv, SlotTimes
<1>2. \A s, r \in Slots : Log'[s].pid = Log'[r].pid /\ Log'[s].pid \in Pids => s = r
  BY DEF SpanInv
<1>3. passed' = [p \in Pids |-> passed'[p]] /\ \A p \in Pids : PassedOk(p)'
  BY DEF SpanInv, PassedOk, Held
<1>4. ASSUME NEW p \in Pids, NEW from \in 0..MaxTime PROVE SpanOk(p, from)'
  <2>1. \A u \in Ours(p) : Calm(u)
    BY DEF Ours
  <2> QED BY <2>1, SpanCalm
<1> QED BY <1>1, <1>2, <1>3, <1>4 DEF SpanInv

LEMMA SpanStart == Init => SpanInv
<1> SUFFICES ASSUME Init PROVE SpanInv
  OBVIOUS
<1>0. "deletes" \in Tables /\ NoPid \notin Pids /\ MaxTime \in Nat
  BY MonitorAssumption DEF Tables
<1>1. \A s \in Slots : Log[s] = [pid |-> NoPid, count |-> 0, start |-> 0, flag |-> FALSE]
  BY <1>0 DEF Init, MonitorInit, Log
<1>2. now = 0 /\ passed = [p \in Pids |-> [i \in 0..MaxTime |-> 0]]
  BY DEF Init, MonitorInit
<1>3. \A t \in Threads : ClockOk(t)
  BY DEF Init, ClockOk
<1>4. \A s \in Slots : SlotTimes(Log[s])
  BY <1>0, <1>1, <1>2 DEF SlotTimes
<1>5. \A p \in Pids : PassedOk(p) /\ ~Held(p)
  BY <1>0, <1>1, <1>2 DEF PassedOk, Held
<1>6. ASSUME NEW p \in Pids, NEW from \in 0..MaxTime PROVE SpanOk(p, from)
  <2>1. InSpan(p, from) = 0
    BY <1>2, SpanEmpty DEF Span
  <2>2. 0 <= Room(Cardinality(Ours(p)))
    BY Counts, LimitIs DEF Room
  <2> QED BY <1>5, <2>1, <2>2 DEF SpanOk, Held
<1>7. \A s, r \in Slots : Log[s].pid = Log[r].pid /\ Log[s].pid \in Pids => s = r
  BY <1>0, <1>1
<1>8. passed = [p \in Pids |-> passed[p]]
  BY <1>2
<1> QED BY <1>3, <1>4, <1>5, <1>6, <1>7, <1>8 DEF SpanInv

\* Every other process' part of the invariant, in a step of one process.
LEMMA OthersSpan ==
  ASSUME MonitorInv, SpanInv, NEW p \in Pids, now' = now,
         \A q \in Pids \ {p} : passed'[q] = passed[q],
         \A s \in Slots : Log'[s] = Log[s] \/ (Log[s].pid \in {p, NoPid} /\ Log'[s].pid \in {p, NoPid}),
         \A u \in Threads : Owner[u] # p => Calm(u),
         NEW q \in Pids, q # p
  PROVE  PassedOk(q)' /\ \A from \in 0..MaxTime : SpanOk(q, from)'
<1>0. NoPid \notin Pids
  BY MonitorAssumption
<1>1. \A s \in Slots : Log'[s].pid = q <=> Log[s].pid = q
  BY <1>0
<1>2. PassedOk(q)'
  BY <1>1 DEF SpanInv, PassedOk, Held
<1>3. \A u \in Ours(q) : Calm(u)
  BY DEF Ours
<1>4. \A s \in Slots : Log'[s].pid = q => Log'[s] = Log[s]
  BY <1>0
<1> QED BY <1>2, <1>3, <1>4, SpanCalm

LEMMA StandCalm ==
  ASSUME UNCHANGED threadVars, NEW u \in Threads
  PROVE  Calm(u) /\ (now' = now /\ ClockOk(u) => ClockOk(u)')
BY DEF threadVars, Calm, ClockOk, IsPending, IsLate, CountsDelete, Pid, Path

LEMMA ExitSpan ==
  ASSUME MonitorInv, SpanInv, NEW p \in Pids, Exit(p)
  PROVE  SpanInv'
<1>0. NoPid \notin Pids /\ "deletes" \in Tables /\ now' = now /\ UNCHANGED threadVars
  BY MonitorAssumption DEF Exit, Tables
<1>1. \A s \in Slots : Log'[s] = IF Log[s].pid = p
                                 THEN [Log[s] EXCEPT !.pid = NoPid, !.count = 0, !.flag = FALSE]
                                 ELSE Log[s]
  BY <1>0 DEF Exit, AfterExit, Forgotten, Log
<1>2. /\ passed' = [q \in Pids |-> passed'[q]] /\ passed'[p] = [i \in 0..MaxTime |-> 0]
      /\ \A q \in Pids \ {p} : passed'[q] = passed[q]
  BY DEF Exit, SpanInv
<1>3. \A u \in Threads : Calm(u) /\ ClockOk(u)'
  BY <1>0, StandCalm DEF SpanInv
<1>4. ASSUME NEW s \in Slots
      PROVE  /\ Log'[s].pid # p
             /\ Log'[s] = Log[s] \/ (Log[s].pid = p /\ Log'[s].pid = NoPid
                                     /\ Log'[s].start = Log[s].start)
  <2>1. PICK slot : slot = Log[s]
    OBVIOUS
  <2>2. slot \in Slot("deletes")
    BY <2>1, LogIs DEF SlotOk
  <2>3. PICK empty : empty = [slot EXCEPT !.pid = NoPid, !.count = 0, !.flag = FALSE]
    OBVIOUS
  <2>4. empty.pid = NoPid /\ empty.start = slot.start
    BY <2>2, <2>3 DEF Slot
  <2> QED BY <1>0, <1>1, <2>1, <2>3, <2>4
<1>5. \A s \in Slots : SlotTimes(Log[s])'
  BY <1>0, <1>4 DEF SpanInv, SlotTimes
<1>6. \A s, r \in Slots : Log'[s].pid = Log'[r].pid /\ Log'[s].pid \in Pids => s = r
  BY <1>0, <1>4 DEF SpanInv
<1>7. ASSUME NEW q \in Pids PROVE PassedOk(q)' /\ \A from \in 0..MaxTime : SpanOk(q, from)'
  <2>1. CASE q = p
    <3>1. PassedOk(p)'
      BY <1>2 DEF PassedOk
    <3>2. ASSUME NEW from \in 0..MaxTime PROVE SpanOk(p, from)'
      <4>1. InSpan(p, from)' = 0
        BY <1>2, SpanNew DEF Span
      <4>2. 0 <= Room(Cardinality(Ours(p))) /\ Room(Cardinality(Ours(p)))' = Room(Cardinality(Ours(p)))
        BY Counts, CountsAfter, LimitIs DEF Room, Limit
      <4> QED BY <1>4, <4>1, <4>2 DEF SpanOk
    <3> QED BY <2>1, <3>1, <3>2
  <2>2. CASE q # p
    BY <1>0, <1>2, <1>3, <1>4, <2>2, OthersSpan
  <2> QED BY <2>1, <2>2
<1> QED BY <1>2, <1>3, <1>5, <1>6, <1>7 DEF SpanInv

LEMMA ClockSpan ==
  ASSUME MonitorInv, Times, SpanInv, Clock
  PROVE  SpanInv'
<1>0. /\ now' = now + 1 /\ Log' = Log /\ passed' = passed
      /\ UNCHANGED <<at, job, seen>>
  BY DEF Clock, Tick, Log, threadVars
<1>1. now \in Nat /\ now <= MaxTime /\ MaxTime \in Nat
  BY LogIs
<1>2. ASSUME NEW p PROVE Pending(p)' = Pending(p) /\ \A x : Late(p, x)' = Late(p, x)
  BY <1>0 DEF Pending, Late, Ours, IsPending, IsLate, CountsDelete, Pid, Path
<1>3. ASSUME NEW t \in Threads PROVE ClockOk(t)'
  <2>1. seen[t] # NoTime => seen[t] <= now /\ seen[t] \in 0..MaxTime
    BY DEF SpanInv, ClockOk, Times
  <2> QED BY <1>0, <1>1, <2>1 DEF SpanInv, ClockOk
<1>4. ASSUME NEW s \in Slots PROVE SlotTimes(Log[s])'
  <2>1. Log[s].start \in Nat /\ SlotTimes(Log[s])
    BY LogIs, SlotIs DEF SpanInv
  <2> QED BY <1>0, <1>1, <2>1, LimitIs DEF SlotTimes
<1>5. \A s, r \in Slots : Log'[s].pid = Log'[r].pid /\ Log'[s].pid \in Pids => s = r
  BY <1>0 DEF SpanInv
<1>6. ASSUME NEW p \in Pids PROVE PassedOk(p)'
  <2>1. PassedOk(p)
    BY DEF SpanInv
  <2>2. \A i \in 0..MaxTime : i > now + 1 => i > now
    BY <1>1
  <2> QED BY <1>0, <2>1, <2>2 DEF PassedOk, Held
<1>7. ASSUME NEW p \in Pids, NEW from \in 0..MaxTime PROVE SpanOk(p, from)'
  <2> DEFINE n == Cardinality(Ours(p))
             m == Cardinality(Pending(p))
             open == InSpan(p, from) + m
  <2>1. SpanOk(p, from) /\ PassedOk(p) /\ from \in Nat /\ from <= MaxTime
    BY <1>1 DEF SpanInv
  <2>2. InSpan(p, from)' = InSpan(p, from) /\ InSpan(p, from) \in Nat
    BY <1>0, <2>1, SpanSame, SpanNat DEF PassedOk
  <2>3. Room(Cardinality(Ours(p)))' = Room(Cardinality(Ours(p)))
    BY CountsAfter DEF Room, Limit
  <2>4. n \in Nat /\ m \in Nat /\ open \in Nat
    BY <2>2, Counts
  <2>5. ASSUME from <= now + 1, now + 1 < from + Window, NEW s \in Slots, Log[s].pid = p
        PROVE  Phase(p, from, Log[s])'
    <3>1. PICK slot : slot = Log[s]
      OBVIOUS
    <3> DEFINE lf == Cardinality(Late(p, from))
               le == Cardinality(Late(p, slot.start + Window))
    <3>2. /\ slot.start \in Nat /\ Left(slot) \in Nat /\ slot.pid = p /\ SlotTimes(slot)
          /\ slot.count \in Nat
      BY <2>5, <3>1, LogIs, SlotIs DEF SpanInv
    <3>3. lf \in Nat /\ le \in Nat /\ le <= n /\ m + lf <= n
      BY Counts
    <3>4. Bounded(open, Left(slot), n, slot.start, from, now + 1, lf, le)
      <4>1. CASE from <= now
        <5>1. Bounded(open, Left(slot), n, slot.start, from, now, lf, le)
          <6>1. Phase(p, from, slot)
            BY <1>1, <2>1, <2>5, <3>1, <4>1, LimitIs DEF SpanOk
          <6> QED BY <6>1 DEF Phase
        <5> HIDE DEF n, open, lf, le
        <5> QED BY <1>1, <2>1, <2>4, <3>2, <3>3, <5>1, BoundedLater
      <4>2. CASE from = now + 1
        <5>1. InSpan(p, from) = 0
          <6>1. \A i \in Span(from) : passed[p][i] = 0
            BY <1>1, <2>1, <4>2 DEF Span, PassedOk
          <6> QED BY <6>1, SpanEmpty
        <5>2. open + lf <= n /\ open <= n
          BY <2>4, <3>3, <5>1
        <5>3. now + 1 < slot.start + Window => Left(slot) <= Limit - 2
          <6>1. now + 1 < slot.start + Window => slot.count > 0
            BY <1>1, <3>2, LimitIs DEF SlotTimes
          <6> QED BY <3>2, <6>1, LimitIs DEF Left
        <5>4. slot.start < now + 1 /\ now + 1 \in Nat
          BY <1>1, <3>2 DEF SlotTimes
        <5> HIDE DEF n, open, lf, le
        <5> QED BY <2>4, <3>2, <3>3, <4>2, <5>2, <5>3, <5>4, BoundedEntered
      <4> QED BY <1>1, <2>1, <2>5, <4>1, <4>2
    <3>5. /\ Cardinality(Pending(p))' = m /\ Cardinality(Late(p, from))' = lf
          /\ Cardinality(Late(p, slot.start + Window))' = le /\ Cardinality(Ours(p))' = n
      BY <1>2, CountsAfter
    <3>6. Left(slot)' = Left(slot) /\ Log'[s] = slot
      BY <1>0, <3>1 DEF Left, Limit
    <3> HIDE DEF n, m, lf, le
    <3>7. Phase(p, from, slot)'
      BY <1>0, <2>2, <3>4, <3>5, <3>6 DEF Phase, Bounded, Room, Limit
    <3> QED BY <3>6, <3>7
  <2> HIDE DEF n, m, open
  <2>6. InSpan(p, from)' <= Room(Cardinality(Ours(p)))'
    BY <2>1, <2>2, <2>3 DEF SpanOk
  <2> QED BY <1>0, <2>5, <2>6 DEF SpanOk
<1> QED BY <1>0, <1>3, <1>4, <1>5, <1>6, <1>7 DEF SpanInv

\* What rating leaves in a slot: all of it, or one of this process whose window was over.
LEMMA RateLog ==
  ASSUME MonitorInv, Times, SpanInv, NEW t \in Threads, Rate(t), NEW s \in Slots
  PROVE  \/ Log'[s] = Log[s]
         \/ /\ Log[s].pid = Pid(t) /\ Log'[s].pid = Pid(t) /\ Log'[s].start = Log[s].start
            /\ Log[s].start + Window <= now /\ Left(Log[s])' \in Nat
<1>1. seen[t] \in Nat /\ seen[t] <= now /\ now \in Nat /\ Window \in Nat /\ Window >= 1
  <2>1. seen[t] \in 0..MaxTime /\ ClockOk(t) /\ seen[t] # NoTime
    BY DEF Rate, Times, SpanInv
  <2> QED BY <2>1, LogIs, LimitIs DEF ClockOk
<1>2. CASE Log' = Log
  BY <1>2
<1>3. CASE tables' = [d \in Tables |-> Aged(d, Pid(t), seen[t])] /\ Log'[s] # Log[s]
  <2>1. PICK slot : slot = Log[s]
    OBVIOUS
  <2>2. slot \in Slot("deletes") /\ slot.start \in Nat
    BY <2>1, LogIs, SlotIs DEF SlotOk
  <2>3. PICK emptied : emptied = [slot EXCEPT !.flag = FALSE, !.count = 0]
    OBVIOUS
  <2>4. emptied.pid = slot.pid /\ emptied.start = slot.start /\ emptied.count = 0
    BY <2>2, <2>3 DEF Slot
  <2>5. Log'[s] = Aged("deletes", Pid(t), seen[t])[s]
    BY <1>3 DEF Tables, Log
  <2>6. Log'[s] = emptied /\ slot.pid = Pid(t) /\ Expired(slot, seen[t])
    BY <1>3, <2>1, <2>3, <2>5 DEF Aged, Log
  <2>7. slot.start + Window <= now
    BY <1>1, <2>2, <2>6 DEF Expired, Elapsed
  <2>8. Left(Log[s])' \in Nat
    BY <2>4, <2>6, LimitIs DEF Left, Limit
  <2> QED BY <2>1, <2>4, <2>6, <2>7, <2>8
<1> QED BY <1>2, <1>3 DEF Rate, AfterRating, Log

LEMMA OneShort ==
  ASSUME NEW S, IsFiniteSet(S), NEW e \in S, NEW A, A \subseteq S \ {e}
  PROVE  Cardinality(A) + 1 <= Cardinality(S) /\ Cardinality(A) \in Nat /\ Cardinality(S) \in Nat
<1>1. S \in SUBSET S
  OBVIOUS
<1>2. /\ Cardinality(S \ {e}) = Cardinality(S) - 1 /\ Cardinality(S) \in Nat
      /\ IsFiniteSet(S \ {e})
  BY <1>1, OneLess, FS_Subset
<1>3. IsFiniteSet(A) /\ Cardinality(A) \in Nat /\ Cardinality(A) <= Cardinality(S \ {e})
  BY <1>2, FS_Subset, FS_CardinalityType
<1> QED BY <1>2, <1>3

\* A thread that is rated is pending no more; one that is not late makes the others the most.
LEMMA LeavesPending ==
  ASSUME NEW t \in Threads, IsPending(t), ~IsPending(t)', \A u \in Ours(Pid(t)) : Calm(u)
  PROVE  Cardinality(Pending(Pid(t))') + 1 <= Cardinality(Pending(Pid(t)))
<1>1. t \in Pending(Pid(t)) /\ IsFiniteSet(Pending(Pid(t)))
  BY Counts DEF Pending, Ours, Pid
<1>2. Pending(Pid(t))' \subseteq Pending(Pid(t)) \ {t}
  BY DEF Pending, Ours, Pid, Calm
<1> QED BY <1>1, <1>2, OneShort
LEMMA NeverLate ==
  ASSUME NEW t \in Threads, NEW x, ~IsLate(t, x)'
  PROVE  /\ Cardinality(Late(Pid(t), x)') <= Cardinality(Ours(Pid(t))) - 1
         /\ Cardinality(Ours(Pid(t))) \in Nat /\ Cardinality(Ours(Pid(t))) >= 1
         /\ Cardinality(Late(Pid(t), x)') \in Nat
<1>1. t \in Ours(Pid(t)) /\ IsFiniteSet(Ours(Pid(t)))
  BY Counts DEF Ours, Pid
<1>2. Late(Pid(t), x)' \subseteq Ours(Pid(t)) \ {t}
  BY DEF Late, Ours, Pid
<1> QED BY <1>1, <1>2, OneShort

\* What rating lets through is one delete that was pending.
LEMMA RatePassed ==
  ASSUME MonitorInv, SpanInv, NEW t \in Threads, Rate(t)
  PROVE  /\ passed' = [p \in Pids |-> passed'[p]]
         /\ \A q \in Pids \ {Pid(t)} : passed'[q] = passed[q]
         /\ \/ passed'[Pid(t)] = passed[Pid(t)]
            \/ /\ passed'[Pid(t)] = [passed[Pid(t)] EXCEPT ![now] = @ + 1]
               /\ IsPending(t) /\ Held(Pid(t))
<1>1. Pid(t) \in Pids /\ passed = [p \in Pids |-> passed[p]]
  BY ActorAssumption DEF Pid, SpanInv
<1>2. CASE passed' = passed
  BY <1>1, <1>2
<1>3. CASE passed' # passed
  <2>1. CountedDelete(t) /\ passed' = [passed EXCEPT ![Pid(t)][now] = @ + 1]
    BY <1>3 DEF Rate
  <2>2. IsPending(t) /\ Held(Pid(t))
    BY <2>1 DEF CountedDelete, IsPending, Held, Log, Rate
  <2>3. passed'[Pid(t)] = [passed[Pid(t)] EXCEPT ![now] = @ + 1]
    BY <1>1, <2>1
  <2> QED BY <1>1, <2>1, <2>2, <2>3
<1> QED BY <1>2, <1>3

\* The deletes that are let through and pending are no more than before.
LEMMA RateOpen ==
  ASSUME MonitorInv, RequestsInv, SpanInv, NEW t \in Threads, Rate(t), NEW from \in 0..MaxTime
  PROVE  LET p == Pid(t) IN
         /\ InSpan(p, from) \in Nat /\ InSpan(p, from)' \in Nat
         /\ from <= now /\ now < from + Window =>
              InSpan(p, from)' + Cardinality(Pending(p)') <= InSpan(p, from) + Cardinality(Pending(p))
         /\ ~(from <= now /\ now < from + Window) \/ passed'[p] = passed[p] =>
              InSpan(p, from)' = InSpan(p, from)
<1> DEFINE m == Cardinality(Pending(Pid(t)))
           m1 == Cardinality(Pending(Pid(t))')
<1>1. Pid(t) \in Pids /\ now \in 0..MaxTime /\ passed[Pid(t)] \in [0..MaxTime -> Nat]
  BY LogIs, ActorAssumption DEF Pid, SpanInv, PassedOk
<1>2. InSpan(Pid(t), from) \in Nat
  BY <1>1, SpanNat
<1>3. \A u \in Ours(Pid(t)) : Calm(u)
  BY RateAway, AwayCalm DEF Ours
<1>4. m \in Nat /\ m1 \in Nat /\ m1 <= m
  BY <1>3, Counts, CountsAfter, CalmCounts
<1>5. CASE passed'[Pid(t)] = passed[Pid(t)]
  <2>1. InSpan(Pid(t), from)' = InSpan(Pid(t), from)
    BY <1>1, <1>5, SpanSame
  <2> HIDE DEF m, m1
  <2>2. InSpan(Pid(t), from) + m1 <= InSpan(Pid(t), from) + m
    BY <1>2, <1>4
  <2> QED BY <1>2, <2>1, <2>2 DEF m, m1
<1>6. CASE /\ passed'[Pid(t)] = [passed[Pid(t)] EXCEPT ![now] = @ + 1] /\ IsPending(t)
           /\ passed'[Pid(t)] # passed[Pid(t)]
  <2>1. CASE now \in Span(from)
    <3>1. InSpan(Pid(t), from)' = InSpan(Pid(t), from) + 1
      BY <1>1, <1>6, <2>1, SpanBump
    <3>2. m1 + 1 <= m
      BY <1>3, <1>6, RateAway, LeavesPending DEF Away
    <3>3. from <= now /\ now < from + Window
      BY <2>1 DEF Span
    <3> HIDE DEF m, m1
    <3>4. InSpan(Pid(t), from) + 1 + m1 <= InSpan(Pid(t), from) + m
      BY <1>2, <1>4, <3>2
    <3> QED BY <1>2, <1>6, <3>1, <3>3, <3>4 DEF m, m1
  <2>2. CASE now \notin Span(from)
    <3>1. \A i \in Span(from) : passed'[Pid(t)][i] = passed[Pid(t)][i]
      BY <1>1, <1>6, <2>2 DEF Span
    <3>2. InSpan(Pid(t), from)' = InSpan(Pid(t), from)
      BY <1>1, <3>1, SpanElsewhere
    <3>3. ~(from <= now /\ now < from + Window)
      BY <1>1, <2>2 DEF Span
    <3> QED BY <1>2, <3>2, <3>3
  <2> QED BY <2>1, <2>2
<1> QED BY <1>5, <1>6, RatePassed

\* The slot of the thread's process stays bounded, whether its flag is cleared or not.
LEMMA RatePhase ==
  ASSUME MonitorInv, RequestsInv, SpanInv, NEW t \in Threads, Rate(t), NEW from \in 0..MaxTime,
         from <= now, now < from + Window, NEW s \in Slots, Log[s].pid = Pid(t)
  PROVE  Phase(Pid(t), from, Log[s])' /\ InSpan(Pid(t), from)' <= Room(Cardinality(Ours(Pid(t))))
<1> DEFINE p == Pid(t)
           n == Cardinality(Ours(p))
           m == Cardinality(Pending(p))
           m1 == Cardinality(Pending(p)')
           k == InSpan(p, from)
           k1 == InSpan(p, from)'
<1>0. p \in Pids /\ Times /\ now \in Nat /\ now' = now /\ from \in Nat /\ Away(t)
  <2>1. from \in Nat
    OBVIOUS
  <2>2. p \in Pids /\ Times /\ now' = now
    BY ActorAssumption DEF RequestsInv, Types, Times, Pid, Rate
  <2> QED BY <2>1, <2>2, LogIs, RateAway
<1>1. PICK old, new : old = Log[s] /\ new = Log'[s]
  OBVIOUS
<1> DEFINE lf == Cardinality(Late(p, from))
           lf1 == Cardinality(Late(p, from)')
           le == Cardinality(Late(p, old.start + Window))
           le1 == Cardinality(Late(p, old.start + Window)')
           open == k + m
           open1 == k1 + m1
<1>2. k \in Nat /\ k1 \in Nat /\ k1 + m1 <= k + m
  BY <1>0, RateOpen
<1>3. /\ n \in Nat /\ m \in Nat /\ m1 \in Nat /\ lf \in Nat /\ lf1 \in Nat /\ le \in Nat
      /\ le1 \in Nat
  BY Counts, CountsAfter
<1>4. old.start \in Nat /\ Left(old) \in Nat /\ Phase(p, from, old)
  <2>1. SpanOk(p, from)
    BY <1>0 DEF SpanInv
  <2> QED BY <1>1, <2>1, LogIs, SlotIs DEF SpanOk
<1>5. Bounded(open, Left(old), n, old.start, from, now, lf, le)
  BY <1>4 DEF Phase
<1>6. lf1 <= lf /\ (old.start + Window <= now => le1 <= le)
  <2>1. \A u \in Ours(p) : Calm(u)
    BY <1>0, AwayCalm DEF Ours
  <2>2. old.start + Window \in Nat
    BY <1>4, LimitIs
  <2> QED BY <1>0, <2>1, <2>2, CalmCounts
<1>7. le1 <= n - 1 /\ n >= 1
  <2>1. ~IsLate(t, old.start + Window)'
    BY <1>0 DEF Away, IsLate
  <2> QED BY <2>1, NeverLate
<1>8. open \in Nat /\ open1 \in Nat /\ open1 <= open
  BY <1>2, <1>3
<1>9. /\ new.start = old.start /\ Left(new)' \in Nat
      /\ Bounded(open1, Left(new)', n, old.start, from, now, lf1, le1)
  <2> HIDE DEF open, open1, lf, lf1, le, le1, n
  <2>1. CASE new = old
    <3>1. Left(new)' = Left(old)
      BY <2>1 DEF Left, Limit
    <3> QED BY <1>0, <1>3, <1>4, <1>5, <1>6, <1>8, <2>1, <3>1, BoundedLess
  <2>2. CASE new # old
    <3>1. /\ new.start = old.start /\ old.start + Window <= now /\ Left(new)' \in Nat
      BY <1>0, <1>1, <2>2, RateLog
    <3> QED BY <1>0, <1>3, <1>4, <1>5, <1>6, <1>7, <1>8, <3>1, BoundedCleared
  <2> QED BY <2>1, <2>2
<1>10. Cardinality(Ours(p))' = n /\ Cardinality(Pending(p))' = m1 /\ Cardinality(Late(p, from))' = lf1
       /\ Cardinality(Late(p, new.start + Window))' = le1
  BY <1>9, CountsAfter
<1>11. Phase(p, from, new)'
  <2> HIDE DEF n, m1, lf1, le1, k1, p
  <2> QED BY <1>0, <1>9, <1>10 DEF Phase, Bounded, Room, Limit, open1, k1
<1>12. k1 <= Room(n)
  <2>1. open1 <= Room(n)
    <3> HIDE DEF open1, n, lf1, le1
    <3> QED BY <1>0, <1>3, <1>4, <1>8, <1>9, BoundedRoom
  <2>2. Room(n) \in Int
    <3> HIDE DEF n
    <3> QED BY <1>3, LimitIs DEF Room
  <2> HIDE DEF n, m1, k1
  <2> QED BY <1>2, <1>3, <2>1, <2>2 DEF open1
<1> QED BY <1>1, <1>11, <1>12

LEMMA RateSpan ==
  ASSUME MonitorInv, RequestsInv, SpanInv, NEW t \in Threads, Rate(t)
  PROVE  SpanInv'
<1> DEFINE p == Pid(t)
<1>0. p \in Pids /\ Times /\ now \in Nat /\ now' = now /\ Away(t) /\ NoPid \notin Pids
  BY LogIs, MonitorAssumption, ActorAssumption, RateAway DEF RequestsInv, Types, Times, Pid, Rate
<1>1. \A u \in Threads : Calm(u) /\ ClockOk(u)'
  BY <1>0, AwayCalm DEF SpanInv
<1>2. \A s \in Slots : Log'[s].pid = Log[s].pid /\ Log'[s].start = Log[s].start
  BY <1>0, RateLog
<1>3. \A s \in Slots : SlotTimes(Log[s])'
  <2>1. ASSUME NEW s \in Slots PROVE SlotTimes(Log[s])'
    <3>1. SlotTimes(Log[s]) /\ Log[s].start \in Nat
      BY LogIs, SlotIs DEF SpanInv
    <3>2. CASE Log'[s] = Log[s]
      BY <1>0, <3>1, <3>2 DEF SlotTimes
    <3>3. CASE Log[s].start + Window <= now
      BY <1>0, <1>2, <3>1, <3>3, LimitIs DEF SlotTimes
    <3> QED BY <1>0, <3>2, <3>3, RateLog
  <2> QED BY <2>1
<1>4. \A s, r \in Slots : Log'[s].pid = Log'[r].pid /\ Log'[s].pid \in Pids => s = r
  BY <1>2 DEF SpanInv
<1>5. passed' = [q \in Pids |-> passed'[q]] /\ \A q \in Pids \ {p} : passed'[q] = passed[q]
  BY RatePassed
<1>6. \A q \in Pids : Held(q)' <=> Held(q)
  BY <1>2 DEF Held
<1>7. ASSUME NEW q \in Pids, q # p PROVE PassedOk(q)' /\ \A from \in 0..MaxTime : SpanOk(q, from)'
  <2>1. \A s \in Slots : Log'[s] = Log[s] \/ (Log[s].pid \in {p, NoPid} /\ Log'[s].pid \in {p, NoPid})
    BY <1>0, RateLog
  <2> HIDE DEF p
  <2> QED BY <1>0, <1>1, <1>5, <1>7, <2>1, OthersSpan
<1>8. PassedOk(p)'
  <2>1. PassedOk(p) /\ now \in 0..MaxTime
    BY <1>0, LogIs DEF SpanInv
  <2>2. CASE passed'[p] = passed[p]
    BY <1>0, <1>6, <2>1, <2>2 DEF PassedOk
  <2>3. CASE passed'[p] = [passed[p] EXCEPT ![now] = @ + 1] /\ Held(p)
    <3>1. PICK f, g : f = passed[p] /\ g = passed'[p]
      OBVIOUS
    <3>2. f \in [0..MaxTime -> Nat] /\ \A i \in 0..MaxTime : i > now => f[i] = 0
      BY <2>1, <3>1 DEF PassedOk
    <3>3. g = [f EXCEPT ![now] = @ + 1]
      BY <2>3, <3>1
    <3>4. g \in [0..MaxTime -> Nat] /\ \A i \in 0..MaxTime : i > now => g[i] = 0
      BY <1>0, <2>1, <3>2, <3>3
    <3> QED BY <1>0, <1>6, <2>3, <3>1, <3>4 DEF PassedOk
  <2> QED BY <2>2, <2>3, RatePassed
<1>9. ASSUME NEW from \in 0..MaxTime PROVE SpanOk(p, from)'
  <2>1. SpanOk(p, from)
    BY <1>0 DEF SpanInv
  <2>2. Room(Cardinality(Ours(p)))' = Room(Cardinality(Ours(p)))
    BY CountsAfter DEF Room, Limit
  <2>3. ASSUME from <= now, now < from + Window, NEW s \in Slots, Log'[s].pid = p
        PROVE  Phase(p, from, Log[s])'
    BY <1>0, <1>2, <2>3, RatePhase
  <2>4. InSpan(p, from)' <= Room(Cardinality(Ours(p)))
    <3>1. CASE InSpan(p, from)' = InSpan(p, from)
      BY <2>1, <3>1 DEF SpanOk
    <3>2. CASE InSpan(p, from)' # InSpan(p, from)
      <4>1. from <= now /\ now < from + Window /\ passed'[p] # passed[p]
        BY <3>2, RateOpen
      <4>2. PICK s \in Slots : Log[s].pid = p
        BY <4>1, RatePassed DEF Held
      <4> QED BY <4>1, <4>2, RatePhase
    <3> QED BY <3>1, <3>2
  <2> QED BY <1>0, <2>2, <2>3, <2>4 DEF SpanOk
<1> QED BY <1>0, <1>1, <1>3, <1>4, <1>5, <1>7, <1>8, <1>9 DEF SpanInv

\* The ways a delete is counted in a slot: its process' first, the first of another window, or
\* one more.
CountsFirst(old, new, p, time) ==
  old.pid = NoPid /\ ~Held(p) /\ new.count = 1 /\ new.start = time
CountsAnew(old, new, p, time) ==
  old.pid = p /\ time >= old.start + Window /\ new.count = 1 /\ new.start = time
CountsMore(old, new, p, time) ==
  old.pid = p /\ time < old.start + Window /\ new.start = old.start
  /\ old.count < Limit /\ new.count = old.count + 1
CountsIn(s, p, time) ==
  /\ \A r \in Slots \ {s} : Log'[r] = Log[r]
  /\ Log'[s].pid = p /\ SlotOk("deletes", Log'[s])
  /\ \/ CountsFirst(Log[s], Log'[s], p, time)
     \/ CountsAnew(Log[s], Log'[s], p, time)
     \/ CountsMore(Log[s], Log'[s], p, time)

LEMMA FirstIs ==
  ASSUME NEW d, NEW p, NEW s \in FirstHeldBy(d, p), NEW r \in FirstHeldBy(d, p)
  PROVE  s = r
<1>1. s \in Nat /\ r \in Nat /\ s >= 1 /\ r >= 1
  BY MonitorAssumption DEF FirstHeldBy, Slots
<1>2. s < r => s \in 1..(r - 1)
  BY <1>1
<1>3. r < s => r \in 1..(s - 1)
  BY <1>1
<1> QED BY <1>1, <1>2, <1>3 DEF FirstHeldBy

LEMMA HeldFirst ==
  ASSUME NEW p, Held(p)
  PROVE  FirstHeldBy("deletes", p) # {}
<1> DEFINE S == {s \in Slots : Log[s].pid = p}
<1>1. S \subseteq Nat /\ S # {}
  BY MonitorAssumption DEF Held, Slots
<1>2. PICK i \in S : \A j \in S : i <= j
  <2> HIDE DEF S
  <2> QED BY <1>1, Least
<1>3. \A r \in 1..(i - 1) : Log[r].pid # p
  <2>1. i \in Nat /\ MaxSlots \in Nat /\ i <= MaxSlots
    BY MonitorAssumption DEF Slots
  <2>2. \A r \in 1..(i - 1) : r \in Slots /\ ~(i <= r)
    BY <2>1 DEF Slots
  <2> QED BY <1>2, <2>2
<1> QED BY <1>2, <1>3 DEF FirstHeldBy, Log

\* What counting a delete leaves in one slot.
LEMMA CountSlot ==
  ASSUME MonitorInv, NEW old, SlotOk("deletes", old), NEW p \in Pids, old.pid \in {p, NoPid},
         NEW time \in 0..MaxTime, NEW new, new = Counted(Claimed(old, p, time), Limit, time),
         old.pid = NoPid => ~Held(p)
  PROVE  /\ SlotOk("deletes", new) /\ new.pid = p
         /\ \/ new = old /\ old.flag
            \/ CountsFirst(old, new, p, time) \/ CountsAnew(old, new, p, time)
            \/ CountsMore(old, new, p, time)
<1>0. /\ NoPid # p /\ "deletes" \in Tables /\ time \in Nat /\ Limit \in Nat /\ Limit >= 2
      /\ Window \in Nat /\ Window >= 1 /\ Limit = Threshold["deletes"]
  BY MonitorAssumption, LimitIs DEF Tables, Limit
<1>1. PICK claimed : claimed = Claimed(old, p, time)
  OBVIOUS
<1>2. SlotOk("deletes", claimed) /\ claimed.pid = p
  BY <1>0, <1>1, ClaimedOk
<1>3. SlotOk("deletes", new) /\ new.pid = p
  BY <1>0, <1>1, <1>2, CountedOk
<1>4. claimed \in Slot("deletes") /\ claimed.start \in Nat /\ claimed.count \in Nat
      /\ (claimed.flag <=> claimed.count = Limit) /\ claimed.count <= Limit
  BY <1>2, SlotIs DEF SlotOk
<1>5. CASE old.pid = NoPid
  <2>1. claimed.count = 0 /\ claimed.start = time /\ ~claimed.flag
    BY <1>0, <1>1, <1>5 DEF Claimed
  <2>2. ~Expired(claimed, time)
    BY <1>0, <2>1 DEF Expired, Elapsed
  <2>3. new.count = 1 /\ new.start = time
    BY <1>1, <1>4, <2>1, <2>2 DEF Counted, Slot
  <2> QED BY <1>3, <1>5, <2>3 DEF CountsFirst
<1>6. CASE old.pid = p
  <2>1. claimed = old
    BY <1>1, <1>6 DEF Claimed
  <2>2. CASE Expired(old, time)
    <3>1. new.count = 1 /\ new.start = time
      BY <1>1, <1>4, <2>1, <2>2 DEF Counted, Slot
    <3>2. time >= old.start + Window
      BY <1>0, <1>4, <2>1, <2>2 DEF Expired, Elapsed
    <3> QED BY <1>3, <1>6, <3>1, <3>2 DEF CountsAnew
  <2>3. CASE ~Expired(old, time) /\ old.flag
    BY <1>1, <1>3, <2>1, <2>3 DEF Counted
  <2>4. CASE ~Expired(old, time) /\ ~old.flag
    <3>1. new.count = old.count + 1 /\ new.start = old.start
      BY <1>1, <1>4, <2>1, <2>4 DEF Counted, Slot
    <3>2. time < old.start + Window /\ old.count < Limit
      BY <1>0, <1>4, <2>1, <2>4 DEF Expired, Elapsed
    <3> QED BY <1>3, <1>6, <3>1, <3>2 DEF CountsMore
  <2> QED BY <2>2, <2>3, <2>4
<1> QED BY <1>5, <1>6

\* Counting a delete changes one slot, or none: the process is flagged, or has none and there is
\* no free one.
LEMMA CountLog ==
  ASSUME MonitorInv, Times, NEW t \in Threads, Count(t), at[t] = "deletes"
  PROVE  /\ \/ Log' = Log /\ (Flagged(Log, Pid(t)) \/ ~Held(Pid(t)))
            \/ \E s \in Slots : CountsIn(s, Pid(t), seen[t])
         /\ IF Flagged(Log', Pid(t)) THEN Return(t)
            ELSE /\ at' = [at EXCEPT ![t] = "rating"] /\ seen' = [seen EXCEPT ![t] = NoTime]
                 /\ job' = job
<1>1. PICK p \in Pids, time \in 0..MaxTime : p = Pid(t) /\ time = seen[t]
  BY ActorAssumption DEF Count, Times, Pid
<1>2. "deletes" \in Tables /\ NoPid # p /\ Limit = Threshold["deletes"]
  BY MonitorAssumption DEF Tables, Limit
<1>3. Log' = Recorded("deletes", p, time)
  BY <1>1, <1>2 DEF Count, MonitorInv, Log
<1>4. \A s \in Slots : Log'[s] = IF s \in Place("deletes", p)
                                 THEN Counted(Claimed(Log[s], p, time), Limit, time) ELSE Log[s]
  BY <1>2, <1>3 DEF Recorded, Log
<1>5. Log = [s \in Slots |-> Log[s]] /\ Log' = [s \in Slots |-> Log'[s]]
  BY <1>2, <1>3 DEF MonitorInv, TableOk, Log, Recorded
<1>6. ASSUME NEW s \in Place("deletes", p)
      PROVE  \/ Log' = Log /\ Flagged(Log, p)
             \/ CountsIn(s, p, time)
  <2>1. s \in Slots /\ \A r \in Place("deletes", p) : r = s
    BY <1>6, FirstIs DEF Place, FirstHeldBy
  <2>2. \A r \in Slots \ {s} : Log'[r] = Log[r]
    BY <1>4, <2>1
  <2>3. PICK old, new : old = Log[s] /\ new = Log'[s]
    OBVIOUS
  <2>4. new = Counted(Claimed(old, p, time), Limit, time)
    BY <1>4, <2>1, <2>3
  <2>5. SlotOk("deletes", old)
    BY <2>1, <2>3, LogIs
  <2>6. old.pid \in {p, NoPid} /\ (old.pid = NoPid => ~Held(p))
    BY <1>2, <2>1, <2>3, HeldFirst DEF Place, FirstHeldBy, Log
  <2>7. /\ SlotOk("deletes", new) /\ new.pid = p
        /\ \/ new = old /\ old.flag
           \/ CountsFirst(old, new, p, time) \/ CountsAnew(old, new, p, time)
           \/ CountsMore(old, new, p, time)
    BY <2>4, <2>5, <2>6, CountSlot
  <2>8. CASE new = old /\ old.flag
    <3>1. Flagged(Log, p)
      BY <2>1, <2>3, <2>7, <2>8 DEF Flagged
    <3>2. Log' = Log
      BY <1>5, <2>2, <2>3, <2>8
    <3> QED BY <3>1, <3>2
  <2> QED BY <2>1, <2>2, <2>3, <2>7, <2>8 DEF CountsIn
<1>7. ASSUME Place("deletes", p) = {} PROVE Log' = Log /\ ~Held(p)
  <2>1. ~Held(p)
    BY <1>7, HeldFirst DEF Place
  <2>2. Log' = Log
    BY <1>4, <1>5, <1>7
  <2> QED BY <2>1, <2>2
<1>8. \/ Log' = Log /\ (Flagged(Log, p) \/ ~Held(p))
      \/ \E s \in Slots : CountsIn(s, p, time)
  <2>1. Place("deletes", p) \subseteq Slots
    BY DEF Place, FirstHeldBy
  <2> QED BY <1>6, <1>7, <2>1
<1>9. IF Flagged(Log', p) THEN Return(t)
      ELSE /\ at' = [at EXCEPT ![t] = "rating"] /\ seen' = [seen EXCEPT ![t] = NoTime]
           /\ job' = job
  BY <1>1, <1>2, <1>3 DEF Count, Go
<1> QED BY <1>1, <1>8, <1>9

\* The thread that has counted is late no more, and pending unless its process is flagged.
LEMMA CountMoves ==
  ASSUME MonitorInv, RequestsInv, NEW t \in Threads, Count(t), at[t] = "deletes"
  PROVE  /\ \A u \in Threads \ {t} : Calm(u) /\ (ClockOk(u) => ClockOk(u)')
         /\ ClockOk(t)' /\ (\A x : ~IsLate(t, x)') /\ (Flagged(Log', Pid(t)) => ~IsPending(t)')
<1>1. Times /\ now' = now /\ StepOf(t)
  BY CountStep DEF RequestsInv, Types, Times, Count, Ended, Continued
<1>2. seen'[t] = NoTime /\ \A u \in Threads \ {t} : seen'[u] = seen[u]
  BY <1>1, CountLog DEF Times, Return
<1>3. \A u \in Threads \ {t} : Calm(u) /\ (ClockOk(u) => ClockOk(u)')
  BY <1>1, <1>2, OthersCalm
<1>4. Flagged(Log', Pid(t)) => at'[t] = "idle"
  BY <1>1, CountLog, ReturnFacts
<1> QED BY <1>2, <1>3, <1>4 DEF ClockOk, IsLate, IsPending

LEMMA CountNumbers ==
  ASSUME MonitorInv, RequestsInv, SpanInv, NEW t \in Threads, Count(t), at[t] = "deletes"
  PROVE  LET p == Pid(t) IN
         /\ Cardinality(Pending(p)') <= Cardinality(Pending(p)) + 1
         /\ Flagged(Log', p) => Cardinality(Pending(p)') <= Cardinality(Pending(p))
         /\ \A x \in Nat : /\ x <= now => Cardinality(Late(p, x)') <= Cardinality(Late(p, x))
                           /\ x <= now /\ seen[t] < x =>
                                Cardinality(Late(p, x)') + 1 <= Cardinality(Late(p, x))
<1> DEFINE p == Pid(t)
<1>1. t \in Ours(p) /\ \A u \in Ours(p) \ {t} : Calm(u)
  BY CountMoves DEF Ours, Pid
<1>2. Cardinality(Pending(p)') <= Cardinality(Pending(p)) + 1
  <2>1. Pending(p)' \subseteq Pending(p) \cup {t}
    BY <1>1 DEF Pending, Ours, Calm
  <2>2. /\ IsFiniteSet(Pending(p)) /\ Cardinality(Pending(p)) \in Nat /\ Cardinality(Pending(p)') \in Nat
        /\ IsFiniteSet(Pending(p)')
    BY Counts, CountsAfter
  <2>3. CASE t \in Pending(p)'
    <3>1. Pending(p)' \ {t} \subseteq Pending(p)
      BY <2>1
    <3>2. Cardinality(Pending(p)' \ {t}) <= Cardinality(Pending(p))
      BY <2>2, <3>1, FS_Subset
    <3>3. Cardinality(Pending(p)' \ {t}) = Cardinality(Pending(p)') - 1
      BY <2>2, <2>3, FS_RemoveElement
    <3> QED BY <2>2, <3>2, <3>3
  <2>4. CASE t \notin Pending(p)'
    <3>1. Pending(p)' \subseteq Pending(p)
      BY <2>1, <2>4
    <3> QED BY <2>2, <3>1, FS_Subset
  <2> QED BY <2>3, <2>4
<1>3. ASSUME Flagged(Log', p) PROVE Cardinality(Pending(p)') <= Cardinality(Pending(p))
  <2>1. ~IsPending(t)'
    BY <1>3, CountMoves
  <2>2. Pending(p)' \subseteq Pending(p)
    BY <1>1, <2>1 DEF Pending, Ours, Calm
  <2> QED BY <2>2, Counts, FS_Subset
<1>4. ASSUME NEW x \in Nat, x <= now
      PROVE  /\ Cardinality(Late(p, x)') <= Cardinality(Late(p, x))
             /\ seen[t] < x => Cardinality(Late(p, x)') + 1 <= Cardinality(Late(p, x))
  <2>1. ~IsLate(t, x)'
    BY CountMoves
  <2>2. Late(p, x)' \subseteq Late(p, x) \ {t}
    BY <1>1, <1>4, <2>1 DEF Late, Ours, Calm
  <2>3. Late(p, x)' \subseteq Late(p, x)
    BY <2>2
  <2>4. Cardinality(Late(p, x)') <= Cardinality(Late(p, x))
    BY <2>3, Counts, FS_Subset
  <2>5. seen[t] < x => t \in Late(p, x)
    BY <1>1 DEF Late, IsLate, Count
  <2> QED BY <2>2, <2>4, <2>5, Counts, OneShort
<1> QED BY <1>2, <1>3, <1>4

\* What is left of a window after each way of counting.
LEMMA LeftAfter ==
  ASSUME NEW old, SlotOk("deletes", old), NEW new, SlotOk("deletes", new), NEW p, NEW time
  PROVE  /\ CountsFirst(old, new, p, time) \/ CountsAnew(old, new, p, time) =>
              Left(new) = Limit - 2
         /\ CountsMore(old, new, p, time) =>
              IF new.flag THEN Left(new) = Left(old) ELSE Left(old) = Left(new) + 1
<1>1. /\ old.count \in Nat /\ new.count \in Nat /\ (new.flag <=> new.count = Limit) /\ Limit \in Nat
      /\ Limit >= 2 /\ new.count <= Limit
  BY SlotIs, LimitIs
<1>2. new.count = 1 => Left(new) = Limit - 2
  BY <1>1 DEF Left
<1>3. old.count < Limit /\ new.count = old.count + 1 =>
        IF new.flag THEN Left(new) = Left(old) ELSE Left(old) = Left(new) + 1
  BY <1>1 DEF Left
<1> QED BY <1>2, <1>3 DEF CountsFirst, CountsAnew, CountsMore

\* The slot in which a delete is counted stays bounded.
LEMMA CountPhase ==
  ASSUME MonitorInv, RequestsInv, SpanInv, NEW t \in Threads, Count(t), at[t] = "deletes",
         NEW from \in 0..MaxTime, from <= now, now < from + Window, NEW s \in Slots,
         CountsIn(s, Pid(t), seen[t])
  PROVE  Phase(Pid(t), from, Log[s])'
<1> DEFINE p == Pid(t)
           n == Cardinality(Ours(p))
           m == Cardinality(Pending(p))
           m1 == Cardinality(Pending(p)')
           k == InSpan(p, from)
<1>0. /\ p \in Pids /\ now \in Nat /\ now' = now /\ from \in Nat /\ passed' = passed
      /\ seen[t] \in Nat /\ seen[t] <= now
  <2>1. from \in Nat
    OBVIOUS
  <2>2. p \in Pids /\ now' = now /\ passed' = passed
    BY ActorAssumption DEF Pid, Count
  <2>3. seen[t] \in 0..MaxTime /\ ClockOk(t) /\ seen[t] # NoTime
    BY DEF RequestsInv, Types, Count, SpanInv
  <2> QED BY <2>1, <2>2, <2>3, LogIs DEF ClockOk
<1>1. PICK old, new, time : old = Log[s] /\ new = Log'[s] /\ time = seen[t]
  OBVIOUS
<1> DEFINE lf == Cardinality(Late(p, from))
           lf1 == Cardinality(Late(p, from)')
           le == Cardinality(Late(p, old.start + Window))
           le1 == Cardinality(Late(p, new.start + Window)')
           open == k + m
           open1 == k + m1
<1>2. /\ SlotOk("deletes", old) /\ SlotOk("deletes", new) /\ new.pid = p
      /\ \/ CountsFirst(old, new, p, time) \/ CountsAnew(old, new, p, time)
         \/ CountsMore(old, new, p, time)
  BY <1>1, LogIs DEF CountsIn
<1>3. /\ old.start \in Nat /\ Left(old) \in Nat /\ new.start \in Nat /\ Left(new) \in Nat
  BY <1>2, SlotIs
<1>4. /\ n \in Nat /\ m \in Nat /\ m1 \in Nat /\ lf \in Nat /\ lf1 \in Nat /\ le \in Nat
      /\ le1 \in Nat /\ m1 + lf1 <= n /\ m1 + le1 <= n
  BY Counts, CountsAfter
<1>5. k \in Nat /\ PassedOk(p) /\ SpanOk(p, from) /\ InSpan(p, from)' = k
  <2>1. PassedOk(p) /\ SpanOk(p, from)
    BY <1>0 DEF SpanInv
  <2> QED BY <1>0, <2>1, SpanNat, SpanSame DEF PassedOk
<1>6. open \in Nat /\ open1 \in Nat /\ open1 <= open + 1 /\ (new.flag => open1 <= open)
  <2>1. m1 <= m + 1 /\ (Flagged(Log', p) => m1 <= m)
    BY CountNumbers
  <2>2. new.flag => Flagged(Log', p)
    BY <1>1, <1>2 DEF Flagged
  <2> HIDE DEF k, m, m1, p
  <2> QED BY <1>4, <1>5, <2>1, <2>2
<1>7. lf1 <= lf /\ (time < from => lf1 + 1 <= lf)
  BY <1>0, <1>1, CountNumbers
<1>8. le1 <= n - 1 /\ n >= 1
  <2>1. ~IsLate(t, new.start + Window)'
    BY CountMoves
  <2> QED BY <2>1, NeverLate
<1>9. old.pid = p => Bounded(open, Left(old), n, old.start, from, now, lf, le)
  BY <1>1, <1>5 DEF SpanOk, Phase
<1>10. Bounded(open1, Left(new), n, new.start, from, now, lf1, le1)
  <2>1. CASE CountsFirst(old, new, p, time)
    <3>1. new.start = time /\ Left(new) = Limit - 2 /\ ~Held(p)
      BY <1>2, <2>1, LeftAfter DEF CountsFirst
    <3>2. k = 0
      <4>1. \A i \in Span(from) : passed[p][i] = 0
        BY <1>5, <3>1 DEF PassedOk, Span
      <4> QED BY <1>0, <4>1, SpanEmpty
    <3>3. open1 + lf1 <= n /\ open1 + le1 <= n
      BY <1>4, <3>2
    <3> HIDE DEF open1, n, lf1, le1
    <3>4. Bounded(open1, Limit - 2, n, time, from, now, lf1, le1)
      BY <1>0, <1>1, <1>4, <1>6, <1>8, <3>3, BoundedFirst
    <3> QED BY <3>1, <3>4
  <2>2. CASE CountsAnew(old, new, p, time)
    <3>1. new.start = time /\ Left(new) = Limit - 2 /\ old.pid = p /\ time >= old.start + Window
      BY <1>2, <2>2, LeftAfter DEF CountsAnew
    <3> HIDE DEF open, open1, n, lf, lf1, le, le1
    <3>2. Bounded(open1, Limit - 2, n, time, from, now, lf1, le1)
      <4>1. Bounded(open, Left(old), n, old.start, from, now, lf, le) /\ time \in Nat
        BY <1>0, <1>1, <1>9, <3>1
      <4>2. CountedAnew(open, Left(old), n, old.start, from, now, lf, le, open1, lf1, le1, time)
        BY <1>0, <1>1, <1>3, <1>4, <1>6, <1>7, <1>8, <3>1, <4>1 DEF CountedAnew
      <4> QED BY <4>2, BoundedAnew
    <3> QED BY <3>1, <3>2
  <2>3. CASE CountsMore(old, new, p, time)
    <3>1. /\ new.start = old.start /\ old.pid = p /\ time < old.start + Window
          /\ IF new.flag THEN Left(new) = Left(old) ELSE Left(old) = Left(new) + 1
      BY <1>2, <2>3, LeftAfter DEF CountsMore
    <3>2. /\ old.start + Window <= now => le1 <= le /\ le1 + 1 <= le
      <4>1. old.start + Window \in Nat
        BY <1>3, LimitIs
      <4> QED BY <1>1, <3>1, <4>1, CountNumbers
    <3> HIDE DEF open, open1, n, lf, lf1, le, le1
    <3>3. CASE new.flag
      BY <1>0, <1>3, <1>4, <1>6, <1>7, <1>9, <3>1, <3>2, <3>3, BoundedLess
    <3>4. CASE ~new.flag
      <4>1. Bounded(open, Left(old), n, old.start, from, now, lf, le) /\ time \in Nat
        BY <1>0, <1>1, <1>9, <3>1
      <4>2. MoreCounted(open, Left(old), n, old.start, from, now, lf, le, open1, Left(new), lf1, le1,
                        time)
        BY <1>0, <1>1, <1>3, <1>4, <1>6, <1>7, <3>1, <3>2, <3>4, <4>1 DEF MoreCounted
      <4>3. Bounded(open1, Left(new), n, old.start, from, now, lf1, le1)
        BY <4>2, BoundedMore
      <4> QED BY <3>1, <4>3
    <3> QED BY <3>3, <3>4
  <2> QED BY <1>2, <2>1, <2>2, <2>3
<1>11. /\ Cardinality(Ours(p))' = n /\ Cardinality(Pending(p))' = m1
       /\ Cardinality(Late(p, from))' = lf1 /\ Cardinality(Late(p, new.start + Window))' = le1
       /\ Left(new)' = Left(new)
  BY CountsAfter DEF Left, Limit
<1>12. Phase(p, from, new)'
  <2> HIDE DEF n, m1, lf1, le1, k, p
  <2> QED BY <1>0, <1>5, <1>10, <1>11 DEF Phase, Bounded, Room, Limit, open1
<1> QED BY <1>1, <1>12

LEMMA CountSpan ==
  ASSUME MonitorInv, RequestsInv, SpanInv, NEW t \in Threads, Count(t), at[t] = "deletes"
  PROVE  SpanInv'
<1> DEFINE p == Pid(t)
<1>0. /\ p \in Pids /\ Times /\ now \in Nat /\ now' = now /\ NoPid \notin Pids /\ passed' = passed
      /\ seen[t] \in Nat /\ seen[t] <= now
  <2>1. p \in Pids /\ Times /\ now' = now /\ NoPid \notin Pids /\ passed' = passed
    BY MonitorAssumption, ActorAssumption DEF RequestsInv, Types, Times, Pid, Count
  <2>2. seen[t] \in 0..MaxTime /\ ClockOk(t) /\ seen[t] # NoTime
    BY DEF RequestsInv, Types, Count, SpanInv
  <2> QED BY <2>1, <2>2, LogIs DEF ClockOk
<1>1. \A u \in Threads \ {t} : Calm(u) /\ ClockOk(u)'
  BY CountMoves DEF SpanInv
<1>2. ClockOk(t)'
  BY CountMoves
<1>3. CASE Log' = Log /\ (Flagged(Log, p) \/ ~Held(p))
  <2>1. CASE Flagged(Log, p)
    <3>1. Return(t)
      BY <1>0, <1>3, <2>1, CountLog
    <3>2. Calm(t)
      BY <3>1, WritesAway, AwayCalm
    <3> QED BY <1>0, <1>1, <1>2, <1>3, <3>2, QuietKeeps
  <2>2. CASE ~Held(p)
    <3>1. \A s \in Slots : SlotTimes(Log[s])'
      BY <1>0, <1>3 DEF SpanInv, SlotTimes
    <3>2. \A s, r \in Slots : Log'[s].pid = Log'[r].pid /\ Log'[s].pid \in Pids => s = r
      BY <1>3 DEF SpanInv
    <3>3. passed' = [q \in Pids |-> passed'[q]] /\ \A q \in Pids : PassedOk(q)'
      BY <1>0, <1>3 DEF SpanInv, PassedOk, Held
    <3>4. ASSUME NEW q \in Pids, NEW from \in 0..MaxTime PROVE SpanOk(q, from)'
      <4>1. CASE q = p
        <5>1. InSpan(p, from)' = InSpan(p, from) /\ SpanOk(p, from)
          BY <1>0, SpanSame DEF SpanInv
        <5>2. Room(Cardinality(Ours(p)))' = Room(Cardinality(Ours(p)))
          BY CountsAfter DEF Room, Limit
        <5> QED BY <1>0, <1>3, <2>2, <4>1, <5>1, <5>2 DEF SpanOk, Held
      <4>2. CASE q # p
        <5>1. \A u \in Ours(q) : Calm(u)
          BY <1>1, <4>2 DEF Ours, Pid
        <5> QED BY <1>0, <1>3, <5>1, SpanCalm
      <4> QED BY <4>1, <4>2
    <3> QED BY <1>1, <1>2, <3>1, <3>2, <3>3, <3>4 DEF SpanInv
  <2> QED BY <1>3, <2>1, <2>2
<1>4. ASSUME NEW s \in Slots, CountsIn(s, p, seen[t]) PROVE SpanInv'
  <2>1. \A r \in Slots : Log'[r] = Log[r] \/ (r = s /\ Log[r].pid \in {p, NoPid} /\ Log'[r].pid = p)
    BY <1>4 DEF CountsIn, CountsFirst, CountsAnew, CountsMore
  <2>2. ASSUME NEW r \in Slots PROVE SlotTimes(Log[r])'
    <3>1. CASE Log'[r] = Log[r]
      BY <1>0, <3>1 DEF SpanInv, SlotTimes
    <3>2. CASE r = s
      <4>1. PICK old, new : old = Log[s] /\ new = Log'[s]
        OBVIOUS
      <4>2. SlotTimes(old) /\ old.count \in Nat
        BY <4>1, LogIs, SlotIs DEF SpanInv
      <4>3. new.start <= now /\ new.count > 0
        BY <1>0, <1>4, <4>1, <4>2 DEF CountsIn, CountsFirst, CountsAnew, CountsMore, SlotTimes
      <4> QED BY <1>0, <3>2, <4>1, <4>3 DEF SlotTimes
    <3> QED BY <2>1, <3>1, <3>2
  <2>3. ASSUME NEW r \in Slots, Log'[r].pid = p PROVE r = s
    <3>1. CASE Log[s].pid = p
      BY <1>0, <2>1, <2>3, <3>1 DEF SpanInv
    <3>2. CASE Log[s].pid # p
      BY <1>4, <2>1, <2>3, <3>2 DEF CountsIn, CountsFirst, CountsAnew, CountsMore, Held
    <3> QED BY <3>1, <3>2
  <2>4. ASSUME NEW a \in Slots, NEW b \in Slots, Log'[a].pid = Log'[b].pid, Log'[a].pid \in Pids
        PROVE  a = b
    <3>1. CASE Log'[a].pid = p
      BY <2>3, <2>4, <3>1
    <3>2. CASE Log'[a].pid # p
      BY <2>1, <2>4, <3>2 DEF SpanInv
    <3> QED BY <3>1, <3>2
  <2>5. Log'[s].pid = p
    BY <1>4 DEF CountsIn
  <2>6. PassedOk(p)'
    <3>1. PassedOk(p) /\ Held(p)'
      BY <1>0, <2>5 DEF SpanInv, Held
    <3> QED BY <1>0, <3>1 DEF PassedOk
  <2>7. ASSUME NEW q \in Pids, q # p PROVE PassedOk(q)' /\ \A from \in 0..MaxTime : SpanOk(q, from)'
    <3>1. \A u \in Threads : Owner[u] # p => Calm(u)
      BY <1>1 DEF Pid
    <3>2. \A r \in Slots :
            Log'[r] = Log[r] \/ (Log[r].pid \in {p, NoPid} /\ Log'[r].pid \in {p, NoPid})
      BY <2>1
    <3> HIDE DEF p
    <3> QED BY <1>0, <2>7, <3>1, <3>2, OthersSpan
  <2>8. ASSUME NEW from \in 0..MaxTime PROVE SpanOk(p, from)'
    <3>1. InSpan(p, from)' = InSpan(p, from) /\ SpanOk(p, from)
      BY <1>0, SpanSame DEF SpanInv
    <3>2. Room(Cardinality(Ours(p)))' = Room(Cardinality(Ours(p)))
      BY CountsAfter DEF Room, Limit
    <3>3. ASSUME from <= now, now < from + Window, NEW r \in Slots, Log'[r].pid = p
          PROVE  Phase(p, from, Log[r])'
      BY <1>4, <2>3, <3>3, CountPhase
    <3> QED BY <1>0, <3>1, <3>2, <3>3 DEF SpanOk
  <2>9. passed' = [q \in Pids |-> passed'[q]]
    BY <1>0 DEF SpanInv
  <2> QED BY <1>0, <1>1, <1>2, <2>2, <2>4, <2>6, <2>7, <2>8, <2>9 DEF SpanInv
<1> QED BY <1>0, <1>3, <1>4, CountLog

LEMMA SpanStep == MonitorInv /\ BootInv /\ SpanInv /\ [Next]_vars => SpanInv'
<1> SUFFICES ASSUME MonitorInv, BootInv, SpanInv, [Next]_vars PROVE SpanInv'
  OBVIOUS
<1>0. /\ RequestsInv /\ Times /\ now \in 0..MaxTime /\ (\A u \in Threads : ClockOk(u) /\ Guarded(u))
  BY DEF BootInv, RequestsInv, Types, Times, MonitorInv, SpanInv
<1>1. ASSUME NEW t \in Threads, Away(t), Log' = Log, now' = now, passed' = passed PROVE SpanInv'
  <2>1. \A u \in Threads : Calm(u) /\ ClockOk(u)'
    BY <1>0, <1>1, AwayCalm
  <2> QED BY <1>1, <2>1, QuietKeeps
<1>2. CASE UNCHANGED <<tables, now, passed, at, job, seen>>
  <2>1. \A u \in Threads : Calm(u) /\ ClockOk(u)'
    BY <1>0, <1>2 DEF Calm, ClockOk, IsPending, IsLate, CountsDelete, Pid, Path
  <2>2. Log' = Log
    BY <1>2 DEF Log
  <2> QED BY <1>2, <2>1, <2>2, QuietKeeps
<1>3. CASE UNCHANGED vars
  BY <1>2, <1>3 DEF vars, monitorVars, countVars, threadVars
<1>4. ASSUME NEW g \in BootConfigs, Configure(g) PROVE SpanInv'
  BY <1>2, <1>4 DEF Configure, monitorVars, countVars
<1>5. CASE Clock
  BY <1>0, <1>5, ClockSpan
<1>6. ASSUME NEW p \in Pids, Exit(p) PROVE SpanInv'
  BY <1>6, ExitSpan
<1>7. ASSUME NEW t \in Threads, NEW h \in Handles,
             \/ OpenToWrite(t, h) \/ Write(t, h) \/ Cleanup(t, h)
             \/ SetInformation(t, h, "delete", NoPath)
             \/ \E to \in Targets : SetInformation(t, h, "rename", to)
      PROVE  SpanInv'
  <2>1. Log' = Log /\ now' = now /\ passed' = passed /\ tables' = tables
    BY <1>7 DEF OpenToWrite, Write, Cleanup, SetInformation, monitorVars, countVars, Log
  <2>2. CASE UNCHANGED threadVars
    BY <1>2, <2>1, <2>2 DEF threadVars
  <2>3. CASE ~UNCHANGED threadVars
    <3>1. Away(t)
      BY <1>0, <1>7, <2>3, OpenToWriteAway, HandleAway
    <3> QED BY <1>1, <2>1, <3>1
  <2> QED BY <2>2, <2>3
<1>8. ASSUME NEW t \in Threads,
             \/ KeepBootContext(t) \/ CreateSucceeds(t) \/ CreateFails(t) \/ PostCreate(t) \/ Mark(t)
             \/ TargetUnnamed(t) \/ CheckTarget(t) \/ Rename(t) \/ Effect(t) \/ CheckBoot(t)
             \/ Close(t) \/ \E d \in Answers : Answer(t, d)
      PROVE  SpanInv'
  <2>1. Log' = Log /\ now' = now /\ passed' = passed
    BY <1>8 DEF KeepBootContext, CreateSucceeds, CreateFails, PostCreate, Mark, TargetUnnamed,
       CheckTarget, Rename, Effect, CheckBoot, Close, Answer, monitorVars, countVars, Log
  <2>2. Away(t)
    BY <1>0, <1>8, RequestAway
  <2> QED BY <1>1, <2>1, <2>2
<1>9. ASSUME NEW t \in Threads, OpenToRead(t) PROVE SpanInv'
  <2>1. Log' = Log /\ now' = now /\ passed' = passed
    BY <1>9 DEF OpenToRead, monitorVars, countVars, Log
  <2> QED BY <1>0, <1>1, <1>9, <2>1, OpenToReadAway
<1>10. ASSUME NEW t \in Threads, ReadClock(t) PROVE SpanInv'
  <2>1. Log' = Log /\ now' = now /\ passed' = passed
    BY <1>10 DEF ReadClock, monitorVars, countVars, Log
  <2>2. \A u \in Threads : Calm(u) /\ ClockOk(u)'
    BY <1>0, <1>10, <2>1, ReadClockCalm
  <2> QED BY <2>1, <2>2, QuietKeeps
<1>11. ASSUME NEW t \in Threads, Count(t) PROVE SpanInv'
  <2>1. CASE at[t] = "deletes"
    BY <1>0, <1>11, <2>1, CountSpan
  <2>2. CASE at[t] # "deletes"
    <3>1. at[t] = "writes" /\ now' = now /\ passed' = passed /\ Log' = Log
      BY <1>11, <2>2 DEF Count, Tables, Log, MonitorInv
    <3> QED BY <1>0, <1>1, <1>11, <3>1, WritesAway
  <2> QED BY <2>1, <2>2
<1>12. ASSUME NEW t \in Threads, Rate(t) PROVE SpanInv'
  BY <1>0, <1>12, RateSpan
<1> QED BY <1>3, <1>4, <1>5, <1>6, <1>7, <1>8, <1>9, <1>10, <1>11, <1>12 DEF Next

\* The monitor flags a process for deletes of its own, and in no span of one window lets more of
\* them through than two windows and the threads that are late in both account for: a flag of a
\* window that is over is cleared by whoever rates next, a clock may have been read long before
\* its time is used, and the slot goes to another process when its own exits.
THEOREM MonitorInvariant == Spec => []MonitorSound
<1>1. Init => MonitorInv /\ BootInv /\ SpanInv
  BY MonitorStart, BootStart, SpanStart
<1>2. MonitorInv /\ BootInv /\ SpanInv /\ [Next]_vars => (MonitorInv /\ BootInv /\ SpanInv)'
  <2>1. BootInv => Times
    BY DEF BootInv, RequestsInv, Types, Times
  <2>2. MonitorInv => now \in 0..MaxTime
    BY DEF MonitorInv
  <2> QED BY <2>1, <2>2, MonitorStep, BootStep, SpanStep
<1>3. MonitorInv /\ SpanInv => MonitorSound
  BY FlagIsEarned DEF MonitorSound, BurstBounded, SpanInv, SpanOk, Room, Limit
<1> QED BY <1>1, <1>2, <1>3, PTL DEF Spec
=============================================================================
