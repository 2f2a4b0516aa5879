--------------------------- MODULE RansomwareMonitor ---------------------------
(***************************************************************************)
(* The ransomware rate monitor (RansomwareMonitor.c): two tables of slots, *)
(* one for document writes and one for deletes under the Windows           *)
(* directory by script hosts.  Each operation takes the spin lock once;    *)
(* the clock is read before the lock is taken, so a time may be stale.     *)
(***************************************************************************)
EXTENDS Integers, FiniteSets

CONSTANTS
  Pids, NoPid,
  MaxSlots,  \* XDOWS_RANSOM_MAX_TRACKED_PIDS
  Window,    \* XDOWS_RANSOM_WINDOW_MS and XDOWS_RANSOM_SYS_WINDOW_MS, which are equal
  Threshold, \* XDOWS_RANSOM_FILE_THRESHOLD and XDOWS_RANSOM_SYS_FILE_THRESHOLD
  MaxTime    \* bound: the last instant of the clock

Tables == {"writes", "deletes"}
Slots == 1..MaxSlots

ASSUME MonitorAssumption ==
  /\ NoPid \notin Pids /\ MaxSlots \in Nat \ {0} /\ Window \in Nat \ {0} /\ MaxTime \in Nat
  /\ Threshold \in [Tables -> Nat \ {0, 1}]

VARIABLES
  tables, \* g_RansomSlots and g_RansomSysSlots
  now     \* the system time

Slot(d) == [pid : Pids \cup {NoPid}, count : 0..Threshold[d], start : 0..MaxTime, flag : BOOLEAN]
MonitorInit ==
  /\ tables = [d \in Tables |->
                [s \in Slots |-> [pid |-> NoPid, count |-> 0, start |-> 0, flag |-> FALSE]]]
  /\ now = 0
Tick == now < MaxTime /\ now' = now + 1

\* A stale time counts as no time.
Elapsed(slot, t) == IF t >= slot.start THEN t - slot.start ELSE 0
Expired(slot, t) == Elapsed(slot, t) >= Window

----------------------------------------------------------------------------
\* RansomRecordInTable: the slot of the process, or else the first free one.
FirstHeldBy(d, p) ==
  {s \in Slots : tables[d][s].pid = p /\ \A r \in 1..(s - 1) : tables[d][r].pid # p}
Place(d, p) == IF FirstHeldBy(d, p) # {} THEN FirstHeldBy(d, p) ELSE FirstHeldBy(d, NoPid)
Claimed(slot, p, t) ==
  IF slot.pid = p THEN slot ELSE [pid |-> p, count |-> 0, start |-> t, flag |-> FALSE]

CountedMutOffByOne(slot, limit, t) ==
  IF Expired(slot, t) THEN [slot EXCEPT !.count = 1, !.start = t, !.flag = FALSE]
  ELSE IF slot.flag THEN slot
  ELSE [slot EXCEPT !.count = @ + 1, !.flag = slot.count + 1 > limit]
CountedMutFlagIgnored(slot, limit, t) ==
  IF Expired(slot, t) THEN [slot EXCEPT !.count = 1, !.start = t, !.flag = FALSE]
  ELSE [slot EXCEPT !.count = @ + 1, !.flag = slot.count + 1 >= limit]
Counted(slot, limit, t) ==
  IF Expired(slot, t) THEN [slot EXCEPT !.count = 1, !.start = t, !.flag = FALSE]
  ELSE IF slot.flag THEN slot
  ELSE [slot EXCEPT !.count = @ + 1, !.flag = slot.count + 1 >= limit]
Recorded(d, p, t) ==
  [s \in Slots |-> IF s \in Place(d, p) THEN Counted(Claimed(tables[d][s], p, t), Threshold[d], t)
                   ELSE tables[d][s]]
\* What it answers: a process without a slot is not counted and never flagged.
Flagged(table, p) == \E s \in Slots : table[s].pid = p /\ table[s].flag

\* RansomwareMonitorIsFlagged: the second table is looked at only if the first one does not
\* flag the process; an expired flag is cleared.
Live(d, p, t) == \E s \in Slots :
  tables[d][s].pid = p /\ tables[d][s].flag /\ ~Expired(tables[d][s], t)
IsFlagged(p, t) == \E d \in Tables : Live(d, p, t)
Aged(d, p, t) ==
  [s \in Slots |->
     IF tables[d][s].pid = p /\ tables[d][s].flag /\ Expired(tables[d][s], t)
     THEN [tables[d][s] EXCEPT !.flag = FALSE, !.count = 0] ELSE tables[d][s]]
AfterRating(p, t) ==
  IF Live("writes", p, t) THEN tables ELSE [d \in Tables |-> Aged(d, p, t)]

\* RansomwareMonitorResetProcess.
Forgotten(d, p) ==
  [s \in Slots |-> IF tables[d][s].pid = p
                   THEN [tables[d][s] EXCEPT !.pid = NoPid, !.count = 0, !.flag = FALSE]
                   ELSE tables[d][s]]
AfterExitMutWritesOnly(p) == [tables EXCEPT !["writes"] = Forgotten("writes", p)]
AfterExit(p) == [d \in Tables |-> Forgotten(d, p)]
=============================================================================
