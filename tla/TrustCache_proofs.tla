-------------------------- MODULE TrustCache_proofs ---------------------------
(***************************************************************************)
(* Proofs about TrustCache for every set of processes and every number of  *)
(* slots and of queued work items: the shutdown drains the work, and an    *)
(* inductive invariant follows each verdict from the question that was     *)
(* asked about a process to the slot, through exits and reused ids.        *)
(***************************************************************************)
EXTENDS TrustCache, LibraryLemmas, TLAPS

LEMMA DrainedStep == WorkDrained /\ [Next]_vars => WorkDrained'
<1> SUFFICES ASSUME WorkDrained, [Next]_vars, state' = "stopped"
             PROVE  Outstanding' = {} /\ verdicts' = <<>>
  BY DEF WorkDrained
<1> USE DEF Outstanding
<1>1. CASE FinishShutdown
  BY <1>1 DEF FinishShutdown, Drained, workVars
<1>2. ASSUME state = "stopped" PROVE Outstanding' = {} /\ verdicts' = <<>>
  <2>1. verdicts = <<>> /\ \A i \in Items : at[i] = "none"
    BY <1>2 DEF WorkDrained
  <2>2. ASSUME NEW p \in Procs, Query(p) \/ Start(p) \/ Exit(p)
        PROVE  UNCHANGED <<at, verdicts>>
    BY <1>2, <2>2 DEF Query, Available, Start, Accepts, Exit, Notified, workVars
  <2>3. ASSUME NEW i \in Items, Validate(i) \/ Fallback(i) \/ Record(i) PROVE FALSE
    BY <2>1, <2>3 DEF Validate, Fallback, Record
  <2>4. ASSUME SweepStarts \/ SweepEnds \/ \E pid \in Pids : SweepLooksUp(pid) PROVE FALSE
    BY <2>1, <2>4 DEF SweepStarts, SweepEnds, SweepLooksUp, Items
  <2>5. ASSUME Initialize \/ StopAccepting \/ Unregister \/ FinishShutdown PROVE FALSE
    BY <1>2, <2>5 DEF Initialize, StopAccepting, Unregister, FinishShutdown
  <2>6. UNCHANGED <<at, verdicts>>
    BY <2>2, <2>3, <2>4, <2>5 DEF Next, vars, workVars
  <2> QED BY <2>1, <2>6
<1>3. state = "stopped" \/ FinishShutdown
  <2>1. ASSUME NEW p \in Procs, Query(p) \/ Start(p) \/ Exit(p) PROVE state = "stopped"
    BY <2>1 DEF Query, Start, Exit
  <2>2. ASSUME NEW i \in Items, Validate(i) \/ Fallback(i) \/ Record(i) PROVE state = "stopped"
    BY <2>2 DEF Validate, Fallback, Record
  <2>3. ASSUME SweepStarts \/ SweepEnds \/ \E pid \in Pids : SweepLooksUp(pid)
        PROVE  state = "stopped"
    BY <2>3 DEF SweepStarts, SweepEnds, SweepLooksUp
  <2>4. ~Initialize /\ ~StopAccepting /\ ~Unregister
    BY DEF Initialize, StopAccepting, Unregister
  <2> QED BY <2>1, <2>2, <2>3, <2>4 DEF Next, vars
<1> QED BY <1>1, <1>2, <1>3

\* Whatever notifications, sweep and validations are under way when the module shuts down, no
\* work item is left after it, and none comes later.
THEOREM WorkIsDrained == Spec => []WorkDrained
<1>1. Init => WorkDrained
  BY DEF Init, WorkDrained
<1> QED BY <1>1, DrainedStep, PTL DEF Spec

----------------------------------------------------------------------------
(* The slots. *)

Slot == [proc : Procs, trusted : BOOLEAN]
OneEachIn(s) == \A m, n \in DOMAIN s : s[m].proc = s[n].proc => m = n
\* Every slot of r is one of s.
From(r, s) == \A m \in DOMAIN r : \E n \in DOMAIN s : r[m] = s[n]
HasNone(s, p) == \A n \in DOMAIN s : s[n].proc # p

LEMMA RemoveSlot ==
  ASSUME NEW s \in Seq(Slot), OneEachIn(s), NEW i \in 1..Len(s)
  PROVE  /\ RemoveAt(s, i) \in Seq(Slot) /\ Len(RemoveAt(s, i)) = Len(s) - 1
         /\ OneEachIn(RemoveAt(s, i)) /\ From(RemoveAt(s, i), s)
         /\ HasNone(RemoveAt(s, i), s[i].proc)
<1> DEFINE r == RemoveAt(s, i)
<1>1. /\ r \in Seq(Slot) /\ Len(r) = Len(s) - 1 /\ DOMAIN r = 1..(Len(s) - 1)
      /\ \A j \in 1..(Len(s) - 1) : r[j] = IF j < i THEN s[j] ELSE s[j + 1]
  BY RemoveAtIsSeq DEF IsRemoval
<1>2. DOMAIN s = 1..Len(s) /\ Len(s) \in Nat
  OBVIOUS
<1> HIDE DEF r
<1>3. ASSUME NEW j \in DOMAIN r
      PROVE  \E k \in DOMAIN s : r[j] = s[k] /\ k # i /\ k = IF j < i THEN j ELSE j + 1
  BY <1>1, <1>2
<1>4. From(r, s)
  BY <1>3 DEF From
<1>5. HasNone(r, s[i].proc)
  BY <1>2, <1>3 DEF HasNone, OneEachIn
<1>6. ASSUME NEW j \in DOMAIN r, NEW k \in DOMAIN r, r[j].proc = r[k].proc PROVE j = k
  <2>1. PICK a \in DOMAIN s : r[j] = s[a] /\ a = IF j < i THEN j ELSE j + 1
    BY <1>3
  <2>2. PICK b \in DOMAIN s : r[k] = s[b] /\ b = IF k < i THEN k ELSE k + 1
    BY <1>3
  <2>3. a = b
    BY <1>6, <2>1, <2>2 DEF OneEachIn
  <2> QED BY <1>1, <1>2, <2>1, <2>2, <2>3
<1> QED BY <1>1, <1>4, <1>5, <1>6 DEF OneEachIn, r

LEMMA AppendSlot ==
  ASSUME NEW s \in Seq(Slot), OneEachIn(s), NEW e \in Slot, HasNone(s, e.proc)
  PROVE  /\ Append(s, e) \in Seq(Slot) /\ Len(Append(s, e)) = Len(s) + 1
         /\ OneEachIn(Append(s, e))
         /\ \A m \in DOMAIN Append(s, e) :
              Append(s, e)[m] = e \/ \E n \in DOMAIN s : Append(s, e)[m] = s[n]
<1>1. /\ Append(s, e) \in Seq(Slot) /\ Len(Append(s, e)) = Len(s) + 1 /\ Len(s) \in Nat
      /\ Append(s, e)[Len(s) + 1] = e /\ \A i \in 1..Len(s) : Append(s, e)[i] = s[i]
      /\ DOMAIN Append(s, e) = 1..(Len(s) + 1) /\ DOMAIN s = 1..Len(s)
  OBVIOUS
<1>2. \A i \in 1..(Len(s) + 1) : i \in 1..Len(s) \/ i = Len(s) + 1
  BY <1>1
<1> DEFINE a == Append(s, e)
<1> HIDE DEF a
<1>3. OneEachIn(a)
  BY <1>1, <1>2 DEF OneEachIn, HasNone, a
<1>4. \A m \in DOMAIN a : a[m] = e \/ \E n \in DOMAIN s : a[m] = s[n]
  BY <1>1, <1>2 DEF a
<1> QED BY <1>1, <1>3, <1>4 DEF a

LEMMA TailSlots ==
  ASSUME NEW s \in Seq(Slot), OneEachIn(s), s # <<>>
  PROVE  /\ Tail(s) \in Seq(Slot) /\ Len(Tail(s)) = Len(s) - 1
         /\ OneEachIn(Tail(s)) /\ From(Tail(s), s)
<1>1. /\ Tail(s) \in Seq(Slot) /\ Len(Tail(s)) = Len(s) - 1 /\ Len(s) \in Nat
      /\ DOMAIN Tail(s) = 1..(Len(s) - 1) /\ DOMAIN s = 1..Len(s)
      /\ \A j \in 1..(Len(s) - 1) : Tail(s)[j] = s[j + 1]
  OBVIOUS
<1> DEFINE t == Tail(s)
<1> HIDE DEF t
<1>2. \A j \in DOMAIN t : j + 1 \in DOMAIN s /\ t[j] = s[j + 1] /\ j \in Nat
  BY <1>1 DEF t
<1>3. From(t, s)
  BY <1>2 DEF From
<1>4. ASSUME NEW j \in DOMAIN t, NEW k \in DOMAIN t, t[j].proc = t[k].proc PROVE j = k
  <2>1. j + 1 = k + 1
    BY <1>2, <1>4 DEF OneEachIn
  <2> QED BY <1>2, <2>1
<1>5. OneEachIn(t)
  BY <1>4 DEF OneEachIn
<1> QED BY <1>1, <1>3, <1>5 DEF t

LEMMA HasNoneFrom == ASSUME NEW r, NEW s, NEW p, From(r, s), HasNone(s, p) PROVE HasNone(r, p)
  BY DEF From, HasNone

\* CiRemoveVerdict takes out the verdict of a process, if it has one.
LEMMA WithoutIs ==
  ASSUME verdicts \in Seq(Slot), OneEachIn(verdicts), NEW p
  PROVE  /\ Without(p) \in Seq(Slot) /\ OneEachIn(Without(p)) /\ From(Without(p), verdicts)
         /\ HasNone(Without(p), p)
         /\ Len(Without(p)) = IF Of(p) = {} THEN Len(verdicts) ELSE Len(verdicts) - 1
<1> DEFINE I == {i \in 1..Len(verdicts) : verdicts[i].proc = p}
<1>0. I = Of(p)
  BY DEF Of, Matches
<1>1. CASE I = {}
  <2>1. ~\E i \in 1..Len(verdicts) : Matches(verdicts[i], p)
    BY <1>1 DEF Matches
  <2>2. Without(p) = verdicts
    BY <2>1 DEF Without, RemoveFirstMatch
  <2> QED BY <1>0, <1>1, <2>2 DEF From, HasNone
<1>2. CASE I # {}
  <2>1. I \subseteq Nat
    OBVIOUS
  <2>2. \E i \in I : \A j \in I : i <= j
    <3> HIDE DEF I
    <3> QED BY <1>2, <2>1, Least
  <2>3. Min(I) \in I
    <3> HIDE DEF I
    <3> QED BY <2>2 DEF Min
  <2>4. \E i \in 1..Len(verdicts) : Matches(verdicts[i], p)
    BY <1>2 DEF Matches
  <2>5. Without(p) = RemoveAt(verdicts, Min(I))
    BY <1>2, <2>4 DEF Without, RemoveFirstMatch, SelectInSeq, Matches
  <2> HIDE DEF I
  <2>6. Min(I) \in 1..Len(verdicts) /\ verdicts[Min(I)].proc = p
    BY <2>3 DEF I
  <2> QED BY <1>0, <1>2, <2>5, <2>6, RemoveSlot
<1> QED BY <1>1, <1>2

\* CiRecordVerdict leaves a process one verdict, the new one, within the limit.
LEMMA RecordedIs ==
  ASSUME verdicts \in Seq(Slot), OneEachIn(verdicts), Len(verdicts) <= MaxVerdicts,
         NEW p \in Procs, NEW trusted \in BOOLEAN
  PROVE  /\ Recorded(p, trusted) \in Seq(Slot) /\ OneEachIn(Recorded(p, trusted))
         /\ Len(Recorded(p, trusted)) <= MaxVerdicts
         /\ \A m \in DOMAIN Recorded(p, trusted) :
              \/ Recorded(p, trusted)[m] = [proc |-> p, trusted |-> trusted]
              \/ \E n \in DOMAIN verdicts : Recorded(p, trusted)[m] = verdicts[n]
<1> DEFINE e == [proc |-> p, trusted |-> trusted]
           o == Others(p)
<1>0. e \in Slot /\ e.proc = p
  BY DEF Slot
<1>1. o \in Seq(Slot) /\ OneEachIn(o) /\ From(o, verdicts) /\ HasNone(o, p)
      /\ Len(o) <= MaxVerdicts - 1
  <2>0. Len(verdicts) \in Nat /\ MaxVerdicts \in Nat \ {0}
    BY LimitAssumption
  <2>1. CASE Of(p) # {} \/ Len(verdicts) < MaxVerdicts
    <3>1. o = Without(p)
      BY <2>1 DEF Others
    <3>2. Len(Without(p)) <= MaxVerdicts - 1
      BY <2>0, <2>1, WithoutIs
    <3> QED BY <3>1, <3>2, WithoutIs
  <2>2. CASE ~(Of(p) # {} \/ Len(verdicts) < MaxVerdicts)
    <3>1. o = Tail(verdicts)
      BY <2>2 DEF Others
    <3>2. Len(verdicts) = MaxVerdicts /\ verdicts # <<>>
      BY <2>0, <2>2
    <3>3. HasNone(verdicts, p)
      BY <2>2 DEF Of, Matches, HasNone
    <3> QED BY <2>0, <3>1, <3>2, <3>3, TailSlots, HasNoneFrom
  <2> QED BY <2>1, <2>2
<1>2. Recorded(p, trusted) = Append(o, e)
  BY DEF Recorded
<1> HIDE DEF o, e
<1>3. Len(o) \in Nat
  BY <1>1
<1>4. HasNone(o, e.proc)
  BY <1>0, <1>1
<1>5. /\ Append(o, e) \in Seq(Slot) /\ Len(Append(o, e)) = Len(o) + 1 /\ OneEachIn(Append(o, e))
      /\ \A m \in DOMAIN Append(o, e) :
           Append(o, e)[m] = e \/ \E n \in DOMAIN o : Append(o, e)[m] = o[n]
  BY <1>0, <1>1, <1>4, AppendSlot
<1>6. Len(Append(o, e)) <= MaxVerdicts
  BY <1>1, <1>3, <1>5, LimitAssumption
<1>7. \A m \in DOMAIN Append(o, e) :
         Append(o, e)[m] = e \/ \E n \in DOMAIN verdicts : Append(o, e)[m] = verdicts[n]
  BY <1>1, <1>5 DEF From
<1>8. /\ Append(o, e) \in Seq(Slot) /\ OneEachIn(Append(o, e)) /\ Len(Append(o, e)) <= MaxVerdicts
      /\ \A m \in DOMAIN Append(o, e) :
         Append(o, e)[m] = e \/ \E n \in DOMAIN verdicts : Append(o, e)[m] = verdicts[n]
  BY <1>5, <1>6, <1>7
<1> QED BY <1>2, <1>8 DEF e

----------------------------------------------------------------------------
(* Types, and the verdicts. *)

ItemPlaces == {"none", "queued", "sweeping", "validating", "validated", "checked"}
Results == {"failed", "trusted", "untrusted"}
ProcsTyped ==
  /\ running \subseteq started /\ started \subseteq Procs
  /\ \A p, q \in running : PidOf[p] = PidOf[q] => p = q
StateTyped == state \in {"off", "on", "refusing", "draining", "stopped"}
ItemsTyped ==
  /\ at \in [Items -> ItemPlaces] /\ subject \in [Items -> Procs \cup {NoProc}]
  /\ result \in [Items -> Results] /\ todo \subseteq Pids
WorkTyped ==
  /\ IsFiniteSet(Outstanding) /\ Cardinality(Outstanding) <= MaxWork
  /\ state = "off" => Outstanding = {}
SlotsTyped == verdicts \in Seq(Slot) /\ Len(verdicts) <= MaxVerdicts /\ OneEachIn(verdicts)

LEMMA TypeParts ==
  ProcsTyped /\ StateTyped /\ ItemsTyped /\ WorkTyped /\ SlotsTyped => TypeOK
  BY DEF TypeOK, ProcsTyped, StateTyped, ItemsTyped, WorkTyped, SlotsTyped, Slot, ItemPlaces,
     Results

\* A trusted process that still runs is a signed one.
Fair(trusted, p) == trusted /\ p \in running => Image[p] # "unsigned"
\* A work item carries a process that has started, and what it has found is true of it as
\* long as it runs; a verdict likewise.
Carries(i) == at[i] \in {"validating", "validated", "checked"} \/ (i # Sweep /\ at[i] = "queued")
ItemOk(i) ==
  /\ IF Carries(i) THEN subject[i] \in started ELSE result[i] = "failed"
  /\ i # Sweep => at[i] \notin {"sweeping", "validating"} /\ (Carries(i) => i \in started)
  /\ Fair(result[i] = "trusted", subject[i])
SlotOk(v) == v.proc \in started /\ Fair(v.trusted, v.proc)
SlotsOk == \A n \in DOMAIN verdicts : SlotOk(verdicts[n])
TrustInv ==
  /\ ProcsTyped /\ StateTyped /\ ItemsTyped /\ WorkTyped /\ SlotsTyped
  /\ \A i \in Items : ItemOk(i)
  /\ SlotsOk

LEMMA TrustInit == Init => TrustInv
<1> SUFFICES ASSUME Init PROVE TrustInv
  OBVIOUS
<1>1. ProcsTyped /\ StateTyped
  BY ProcsAssumption DEF Init, ProcsTyped, StateTyped
<1>2. ItemsTyped
  BY DEF Init, ItemsTyped, ItemPlaces, Results
<1>3. WorkTyped
  <2>1. Outstanding = {}
    BY DEF Init, Outstanding
  <2> QED BY <2>1, FS_EmptySet, LimitAssumption DEF WorkTyped
<1>4. SlotsTyped /\ SlotsOk
  <2>1. verdicts = <<>> /\ <<>> \in Seq(Slot) /\ Len(<<>>) = 0 /\ DOMAIN <<>> = {}
    BY DEF Init
  <2> QED BY <2>1, LimitAssumption DEF SlotsTyped, OneEachIn, SlotsOk
<1>5. \A i \in Items : ItemOk(i)
  BY DEF Init, ItemOk, Carries, Fair
<1> QED BY <1>1, <1>2, <1>3, <1>4, <1>5 DEF TrustInv

LEMMA TrustParts == TrustInv => TypeOK /\ VerdictsSound
<1>1. TrustInv => TypeOK
  BY TypeParts DEF TrustInv
<1>2. TrustInv => VerdictsSound
  BY DEF TrustInv, SlotsOk, SlotOk, Fair, VerdictsSound, TrustIsOwn, OneVerdictEach, Of, Matches,
     SlotsTyped, OneEachIn
<1> QED BY <1>1, <1>2

\* Nothing that is kept loses its truth when processes exit and new ones start.
LEMMA SlotsKept ==
  ASSUME SlotsOk, From(verdicts', verdicts), started \subseteq started',
         \A q \in running' : q \in running \/ q \notin started
  PROVE  SlotsOk'
  BY DEF SlotsOk, SlotOk, Fair, From
LEMMA ItemKept ==
  ASSUME NEW i \in Items, ItemOk(i), started \subseteq started',
         \A q \in running' : q \in running \/ q \notin started,
         at'[i] = at[i], subject'[i] = subject[i], result'[i] = result[i],
         result[i] \in Results
  PROVE  ItemOk(i)'
<1>1. Carries(i)' <=> Carries(i)
  BY DEF Carries
<1>2. IF Carries(i)' THEN subject'[i] \in started' ELSE result'[i] = "failed"
  BY <1>1 DEF ItemOk
<1>3. Fair(result[i] = "trusted", subject[i])'
  BY DEF ItemOk, Fair
<1>4. i # Sweep => at'[i] \notin {"sweeping", "validating"} /\ (Carries(i)' => i \in started')
  BY <1>1 DEF ItemOk
<1> QED BY <1>2, <1>3, <1>4 DEF ItemOk
LEMMA FromItself == From(verdicts, verdicts)
  BY DEF From

\* A process asks, starts or exits.
LEMMA TrustProcs ==
  ASSUME TrustInv, NEW p \in Procs, Query(p) \/ Start(p) \/ Exit(p)
  PROVE  TrustInv'
<1>0. /\ ProcsTyped /\ StateTyped /\ ItemsTyped /\ WorkTyped /\ SlotsTyped /\ SlotsOk
      /\ \A i \in Items : ItemOk(i)
  BY DEF TrustInv
<1>1. CASE Query(p)
  <2>0. UNCHANGED <<running, started, state, at, subject, result, todo>>
    BY <1>1 DEF Query, workVars
  <2>1. PICK n \in DOMAIN verdicts :
          verdicts[n].proc = p /\ verdicts' = Append(RemoveAt(verdicts, n), verdicts[n])
    BY <1>1 DEF Query, Of, Matches
  <2> DEFINE r == RemoveAt(verdicts, n)
  <2>2. /\ verdicts \in Seq(Slot) /\ OneEachIn(verdicts) /\ Len(verdicts) <= MaxVerdicts
        /\ n \in 1..Len(verdicts) /\ verdicts[n] \in Slot
    BY <1>0 DEF SlotsTyped
  <2>3. /\ r \in Seq(Slot) /\ Len(r) = Len(verdicts) - 1 /\ OneEachIn(r)
        /\ From(r, verdicts) /\ HasNone(r, verdicts[n].proc)
    BY <2>2, RemoveSlot
  <2> HIDE DEF r
  <2>4. /\ Append(r, verdicts[n]) \in Seq(Slot) /\ Len(Append(r, verdicts[n])) = Len(r) + 1
        /\ OneEachIn(Append(r, verdicts[n]))
        /\ \A m \in DOMAIN Append(r, verdicts[n]) : Append(r, verdicts[n])[m] = verdicts[n]
             \/ \E k \in DOMAIN r : Append(r, verdicts[n])[m] = r[k]
    BY <2>2, <2>3, AppendSlot
  <2>5. verdicts' = Append(r, verdicts[n])
    BY <2>1 DEF r
  <2>6. From(Append(r, verdicts[n]), verdicts)
    BY <2>3, <2>4 DEF From
  <2>7. From(verdicts', verdicts)
    BY <2>5, <2>6
  <2>8. SlotsTyped'
    <3>1. Len(Append(r, verdicts[n])) = Len(verdicts) /\ Len(verdicts) \in Nat
      BY <2>2, <2>3, <2>4
    <3> QED BY <2>2, <2>4, <2>5, <3>1 DEF SlotsTyped, OneEachIn
  <2>9. SlotsOk'
    BY <1>0, <2>0, <2>7, SlotsKept
  <2>10. ProcsTyped' /\ StateTyped' /\ ItemsTyped' /\ WorkTyped'
    BY <1>0, <2>0 DEF ProcsTyped, StateTyped, ItemsTyped, WorkTyped, Outstanding
  <2>11. \A i \in Items : ItemOk(i)'
    BY <1>0, <2>0, ItemKept DEF ItemsTyped
  <2> QED BY <2>8, <2>9, <2>10, <2>11 DEF TrustInv
<1>2. CASE Start(p)
  <2>0. /\ p \notin started /\ UNCHANGED <<state, verdicts, result, todo>>
        /\ running' = running \cup {p} /\ started' = started \cup {p}
        /\ \A q \in running : PidOf[q] # PidOf[p]
    BY <1>2 DEF Start
  <2>1. ProcsTyped' /\ StateTyped' /\ SlotsTyped'
    BY <1>0, <2>0 DEF ProcsTyped, StateTyped, SlotsTyped, OneEachIn
  <2>2. SlotsOk'
    BY <1>0, <2>0, SlotsKept, FromItself
  <2>3. p \in Items /\ p # Sweep
    BY ProcsAssumption DEF Items
  <2>4. CASE UNCHANGED <<at, subject>>
    <3>1. ItemsTyped' /\ WorkTyped'
      BY <1>0, <2>0, <2>4 DEF ItemsTyped, WorkTyped, Outstanding
    <3>2. \A i \in Items : ItemOk(i)'
      BY <1>0, <2>0, <2>4, ItemKept DEF ItemsTyped
    <3> QED BY <2>1, <2>2, <3>1, <3>2 DEF TrustInv
  <2>5. CASE Accepts /\ HasQueue /\ at' = [at EXCEPT ![p] = "queued"]
             /\ subject' = [subject EXCEPT ![p] = p]
    <3>1. ItemsTyped'
      BY <1>0, <2>0, <2>3, <2>5 DEF ItemsTyped, ItemPlaces
    <3>2. WorkTyped'
      <4>1. Outstanding' = Outstanding \cup {p}
        <5>1. \A i \in Items : at'[i] = IF i = p THEN "queued" ELSE at[i]
          BY <1>0, <2>5 DEF ItemsTyped
        <5> QED BY <2>3, <5>1 DEF Outstanding
      <4>0. /\ IsFiniteSet(Outstanding \cup {p}) /\ Cardinality(Outstanding) \in Nat
            /\ Cardinality(Outstanding \cup {p}) <= Cardinality(Outstanding) + 1
            /\ Cardinality(Outstanding \cup {p}) \in Nat
        <5>1. IsFiniteSet(Outstanding)
          BY <1>0 DEF WorkTyped
        <5> QED BY <5>1, FS_AddElement, FS_CardinalityType
      <4>2. /\ IsFiniteSet(Outstanding') /\ Cardinality(Outstanding) \in Nat
            /\ Cardinality(Outstanding') <= Cardinality(Outstanding) + 1
            /\ Cardinality(Outstanding') \in Nat
        BY <4>0, <4>1
      <4>3. Cardinality(Outstanding') <= MaxWork
        BY <2>5, <4>2, LimitAssumption DEF HasQueue
      <4>4. state' # "off"
        BY <2>0, <2>5 DEF Accepts
      <4> QED BY <4>2, <4>3, <4>4 DEF WorkTyped
    <3>3. ASSUME NEW i \in Items PROVE ItemOk(i)'
      <4>1. CASE i = p
        <5>1. at'[i] = "queued" /\ subject'[i] = i /\ subject'[i] \in started'
              /\ result'[i] = result[i]
          BY <1>0, <2>0, <2>3, <2>5, <4>1 DEF ItemsTyped
        <5>2. ~Carries(i) /\ result[i] = "failed"
          BY <1>0, <2>0, <2>3, <4>1 DEF ItemOk
        <5> QED BY <2>0, <2>3, <4>1, <5>1, <5>2 DEF ItemOk, Carries, Fair
      <4>2. CASE i # p
        <5>1. at'[i] = at[i] /\ subject'[i] = subject[i] /\ result'[i] = result[i]
              /\ result[i] \in Results
          BY <1>0, <2>0, <2>3, <2>5, <4>2 DEF ItemsTyped
        <5> QED BY <1>0, <2>0, <5>1, ItemKept
      <4> QED BY <4>1, <4>2
    <3> QED BY <2>1, <2>2, <3>1, <3>2, <3>3 DEF TrustInv
  <2> QED BY <1>2, <2>4, <2>5 DEF Start
<1>3. CASE Exit(p)
  <2>0. /\ running' = running \ {p} /\ UNCHANGED <<started, state, at, subject, result, todo>>
        /\ verdicts' \in {Without(p), verdicts}
    BY <1>3 DEF Exit, workVars
  <2>1. ProcsTyped' /\ StateTyped' /\ ItemsTyped' /\ WorkTyped'
    BY <1>0, <2>0 DEF ProcsTyped, StateTyped, ItemsTyped, WorkTyped, Outstanding
  <2>2. \A i \in Items : ItemOk(i)'
    BY <1>0, <2>0, ItemKept DEF ItemsTyped
  <2>3. /\ Without(p) \in Seq(Slot) /\ OneEachIn(Without(p)) /\ From(Without(p), verdicts)
        /\ Len(Without(p)) <= MaxVerdicts
    <3>1. /\ Without(p) \in Seq(Slot) /\ OneEachIn(Without(p)) /\ From(Without(p), verdicts)
          /\ Len(Without(p)) = IF Of(p) = {} THEN Len(verdicts) ELSE Len(verdicts) - 1
      BY <1>0, WithoutIs DEF SlotsTyped
    <3>2. Len(verdicts) \in Nat /\ Len(verdicts) <= MaxVerdicts /\ MaxVerdicts \in Nat
      BY <1>0, LimitAssumption DEF SlotsTyped
    <3> QED BY <3>1, <3>2
  <2>4. SlotsTyped' /\ From(verdicts', verdicts)
    BY <1>0, <2>0, <2>3, FromItself DEF SlotsTyped, OneEachIn
  <2>5. SlotsOk'
    BY <1>0, <2>0, <2>4, SlotsKept
  <2> QED BY <2>1, <2>2, <2>4, <2>5 DEF TrustInv
<1> QED BY <1>1, <1>2, <1>3

\* A work item that moves on, or ends, takes no more room.
LEMMA WorkKept ==
  ASSUME TrustInv, Outstanding' \subseteq Outstanding, state' = state \/ state' # "off"
  PROVE  WorkTyped'
<1>0. IsFiniteSet(Outstanding) /\ Cardinality(Outstanding) <= MaxWork
      /\ (state = "off" => Outstanding = {}) /\ MaxWork \in Nat
  BY LimitAssumption DEF TrustInv, WorkTyped
<1>1. ASSUME NEW T \in SUBSET Outstanding
      PROVE  IsFiniteSet(T) /\ Cardinality(T) <= MaxWork
  <2>1. IsFiniteSet(T) /\ Cardinality(T) <= Cardinality(Outstanding)
    BY <1>0, FS_Subset
  <2>2. Cardinality(T) \in Nat /\ Cardinality(Outstanding) \in Nat
    BY <1>0, <2>1, FS_CardinalityType
  <2> QED BY <1>0, <2>1, <2>2
<1>2. Outstanding' \in SUBSET Outstanding
  OBVIOUS
<1>3. IsFiniteSet(Outstanding') /\ Cardinality(Outstanding') <= MaxWork
  BY <1>1, <1>2
<1> QED BY <1>0, <1>3 DEF WorkTyped

\* A step of one work item leaves the others alone.
LEMMA ItemMoves ==
  ASSUME TrustInv, NEW i \in Items, UNCHANGED <<running, started>>, ItemOk(i)',
         \A j \in Items \ {i} :
           at'[j] = at[j] /\ subject'[j] = subject[j] /\ result'[j] = result[j]
  PROVE  \A j \in Items : ItemOk(j)'
<1>1. ASSUME NEW j \in Items, j # i PROVE ItemOk(j)'
  BY <1>1, ItemKept DEF TrustInv, ItemsTyped
<1> QED BY <1>1

\* A validation.
LEMMA TrustWork ==
  ASSUME TrustInv, NEW i \in Items, Validate(i) \/ Fallback(i) \/ Record(i)
  PROVE  TrustInv'
<1>0. /\ ProcsTyped /\ StateTyped /\ ItemsTyped /\ WorkTyped /\ SlotsTyped /\ SlotsOk
      /\ ItemOk(i)
  BY DEF TrustInv
<1>a. /\ at \in [Items -> ItemPlaces] /\ subject \in [Items -> Procs \cup {NoProc}]
      /\ result \in [Items -> Results]
  BY <1>0 DEF ItemsTyped
<1>1. UNCHANGED <<running, started, state, todo>>
  BY DEF Validate, Fallback, Record
<1>2. ItemsTyped'
  BY <1>0, <1>1 DEF Validate, Fallback, Record, ItemsTyped, ItemPlaces, Results
<1>3. \A j \in Items \ {i} :
        at'[j] = at[j] /\ subject'[j] = subject[j] /\ result'[j] = result[j]
  BY <1>a DEF Validate, Fallback, Record
<1>4. at[i] # "none" /\ Carries(i) /\ subject[i] \in started /\ subject[i] \in Procs
      /\ (i # Sweep => i \in started)
  BY <1>0 DEF Validate, Fallback, Record, ItemOk, Carries, ProcsTyped
<1>5. WorkTyped'
  <2>1. \A j \in Items : at'[j] # "none" => at[j] # "none"
    BY <1>3, <1>4
  <2>2. Outstanding' \subseteq Outstanding
    BY <2>1 DEF Outstanding
  <2> QED BY <1>1, <2>2, WorkKept
<1>6. ProcsTyped' /\ StateTyped'
  BY <1>0, <1>1 DEF ProcsTyped, StateTyped
<1>7. ItemOk(i)'
  <2>1. CASE Validate(i)
    <3>1. /\ at'[i] = "validated" /\ subject'[i] = subject[i]
          /\ result'[i] = "trusted" => Image[subject[i]] # "unsigned"
      BY <1>a, <2>1 DEF Validate
    <3>2. Fair(result[i] = "trusted", subject[i])'
      BY <3>1 DEF Fair
    <3> QED BY <1>1, <1>4, <3>1, <3>2 DEF ItemOk, Carries
  <2>2. CASE Fallback(i)
    <3>1. at'[i] = "checked" /\ subject'[i] = subject[i]
      BY <1>a, <2>2 DEF Fallback
    <3>2. Fair(result[i] = "trusted", subject[i])'
      <4>1. CASE UNCHANGED result
        BY <1>0, <1>1, <3>1, <4>1 DEF Fair, ItemOk
      <4>2. ASSUME NEW p \in LookedUp(i), result' = [result EXCEPT ![i] =
                     IF Image[p] = "catalog" THEN "trusted" ELSE "untrusted"]
            PROVE  Fair(result[i] = "trusted", subject[i])'
        <5>1. subject[i] \in running => p = subject[i]
          BY <1>0, <4>2 DEF LookedUp, ProcsTyped
        <5>2. result'[i] = "trusted" => Image[p] = "catalog"
          BY <1>a, <4>2
        <5> QED BY <1>1, <3>1, <5>1, <5>2 DEF Fair
      <4> QED BY <2>2, <4>1, <4>2 DEF Fallback
    <3> QED BY <1>1, <1>4, <3>1, <3>2 DEF ItemOk, Carries
  <2>3. CASE Record(i)
    <3>1. /\ at'[i] = IF i = Sweep THEN "sweeping" ELSE "none"
          /\ result'[i] = "failed"
      BY <1>a, <2>3 DEF Record
    <3> QED BY <3>1 DEF ItemOk, Carries, Fair
  <2> QED BY <2>1, <2>2, <2>3
<1>8. \A j \in Items : ItemOk(j)'
  BY <1>1, <1>3, <1>7, ItemMoves
<1>9. SlotsTyped' /\ SlotsOk'
  <2>1. CASE UNCHANGED verdicts
    <3>1. From(verdicts', verdicts)
      BY <2>1 DEF From
    <3> QED BY <1>0, <1>1, <2>1, <3>1, SlotsKept DEF SlotsTyped, OneEachIn
  <2>2. CASE verdicts' = Recorded(subject[i], result[i] = "trusted")
    <3> DEFINE trusted == result[i] = "trusted"
               e == [proc |-> subject[i], trusted |-> trusted]
               r == Recorded(subject[i], trusted)
    <3>1. trusted \in BOOLEAN
      OBVIOUS
    <3>2. SlotOk(e)
      BY <1>0, <1>4 DEF SlotOk, ItemOk
    <3> HIDE DEF trusted
    <3>3. /\ r \in Seq(Slot) /\ OneEachIn(r) /\ Len(r) <= MaxVerdicts
          /\ \A m \in DOMAIN r : r[m] = e \/ \E n \in DOMAIN verdicts : r[m] = verdicts[n]
      BY <1>0, <1>4, <3>1, RecordedIs DEF SlotsTyped
    <3>4. verdicts' = r
      BY <2>2 DEF trusted
    <3> HIDE DEF e, r
    <3>5. SlotsTyped'
      BY <3>3, <3>4 DEF SlotsTyped, OneEachIn
    <3>6. \A m \in DOMAIN r : SlotOk(r[m])
      BY <1>0, <3>2, <3>3 DEF SlotsOk
    <3>7. SlotsOk'
      BY <1>1, <3>4, <3>6 DEF SlotsOk, SlotOk, Fair
    <3> QED BY <3>5, <3>7
  <2> QED BY <2>1, <2>2 DEF Validate, Fallback, Record
<1> QED BY <1>2, <1>5, <1>6, <1>8, <1>9 DEF TrustInv

\* The sweep, the start and the shutdown of the module.
LEMMA TrustSweep ==
  ASSUME TrustInv, SweepStarts \/ (\E pid \in Pids : SweepLooksUp(pid)) \/ SweepEnds
  PROVE  TrustInv'
<1>0. /\ ProcsTyped /\ StateTyped /\ ItemsTyped /\ WorkTyped /\ SlotsTyped /\ SlotsOk
      /\ Sweep \in Items /\ ItemOk(Sweep)
  BY DEF TrustInv, Items
<1>a. /\ at \in [Items -> ItemPlaces] /\ subject \in [Items -> Procs \cup {NoProc}]
      /\ result \in [Items -> Results] /\ todo \subseteq Pids
  BY <1>0 DEF ItemsTyped
<1>1. UNCHANGED <<running, started, state, verdicts, result>>
  BY DEF SweepStarts, SweepLooksUp, SweepEnds
<1>2. ~Carries(Sweep) /\ at[Sweep] # "none" /\ result[Sweep] = "failed"
  BY <1>0 DEF SweepStarts, SweepLooksUp, SweepEnds, Carries, ItemOk
<1>3. /\ at' \in [Items -> ItemPlaces] /\ subject' \in [Items -> Procs \cup {NoProc}]
      /\ \A j \in Items \ {Sweep} : at'[j] = at[j] /\ subject'[j] = subject[j]
      /\ at'[Sweep] = "validating" => subject'[Sweep] \in running
      /\ at'[Sweep] \in {"none", "queued", "sweeping", "validating"}
  BY <1>0, <1>a DEF SweepStarts, SweepLooksUp, SweepEnds, ItemPlaces, ProcsTyped
<1>4. todo' \subseteq Pids
  BY <1>0, <1>a DEF SweepStarts, SweepLooksUp, SweepEnds, Pids, ProcsTyped
<1>5. ItemsTyped'
  BY <1>1, <1>a, <1>3, <1>4 DEF ItemsTyped
<1>6. WorkTyped'
  <2>1. Outstanding' \subseteq Outstanding
    BY <1>2, <1>3 DEF Outstanding
  <2> QED BY <1>1, <2>1, WorkKept
<1>7. ItemOk(Sweep)'
  <2>1. Carries(Sweep)' => subject'[Sweep] \in started'
    BY <1>0, <1>1, <1>3 DEF Carries, ProcsTyped
  <2>2. Fair(result[Sweep] = "trusted", subject[Sweep])'
    BY <1>1, <1>2 DEF Fair
  <2> QED BY <1>1, <1>2, <2>1, <2>2 DEF ItemOk
<1>8. \A j \in Items : ItemOk(j)'
  BY <1>0, <1>1, <1>3, <1>7, ItemMoves
<1>9. ProcsTyped' /\ StateTyped' /\ SlotsTyped'
  BY <1>0, <1>1 DEF ProcsTyped, StateTyped, SlotsTyped, OneEachIn
<1>10. SlotsOk'
  <2>1. From(verdicts', verdicts)
    BY <1>1 DEF From
  <2> QED BY <1>0, <1>1, <2>1, SlotsKept
<1> QED BY <1>5, <1>6, <1>8, <1>9, <1>10 DEF TrustInv

LEMMA TrustControl ==
  ASSUME TrustInv,
         Initialize \/ StopAccepting \/ Unregister \/ FinishShutdown \/ UNCHANGED vars
  PROVE  TrustInv'
<1>0. /\ ProcsTyped /\ StateTyped /\ ItemsTyped /\ WorkTyped /\ SlotsTyped /\ SlotsOk
      /\ \A i \in Items : ItemOk(i)
  BY DEF TrustInv
<1>1. UNCHANGED <<running, started, subject, result, todo>>
  BY DEF Initialize, StopAccepting, Unregister, FinishShutdown, vars, workVars
<1>2. ProcsTyped' /\ StateTyped'
  BY <1>0, <1>1 DEF Initialize, StopAccepting, Unregister, FinishShutdown, vars, ProcsTyped,
     StateTyped
<1>3. SlotsTyped' /\ SlotsOk'
  <2>1. CASE UNCHANGED verdicts
    <3>1. From(verdicts', verdicts)
      BY <2>1 DEF From
    <3> QED BY <1>0, <1>1, <2>1, <3>1, SlotsKept DEF SlotsTyped, OneEachIn
  <2>2. CASE verdicts' = <<>>
    <3>1. <<>> \in Seq(Slot) /\ Len(<<>>) = 0 /\ DOMAIN <<>> = {}
      OBVIOUS
    <3>2. SlotsTyped'
      BY <2>2, <3>1, LimitAssumption DEF SlotsTyped, OneEachIn
    <3>3. SlotsOk'
      BY <2>2, <3>1 DEF SlotsOk
    <3> QED BY <3>2, <3>3
  <2> QED BY <2>1, <2>2 DEF Initialize, StopAccepting, Unregister, FinishShutdown, vars
<1>4. CASE UNCHANGED at
  <2>1. state' = state \/ state' # "off"
    BY DEF Initialize, StopAccepting, Unregister, FinishShutdown, vars
  <2>2. Outstanding' \subseteq Outstanding
    BY <1>4 DEF Outstanding
  <2>3. WorkTyped'
    BY <2>1, <2>2, WorkKept
  <2>4. ItemsTyped'
    BY <1>0, <1>1, <1>4 DEF ItemsTyped
  <2>5. \A i \in Items : ItemOk(i)'
    BY <1>0, <1>1, <1>4, ItemKept DEF ItemsTyped
  <2> QED BY <1>2, <1>3, <2>3, <2>4, <2>5 DEF TrustInv
<1>5. CASE Initialize /\ at' = [at EXCEPT ![Sweep] = "queued"]
  <2>0. Sweep \in Items /\ state' # "off" /\ \A i \in Items : at[i] = "none"
    BY <1>0, <1>5 DEF Initialize, WorkTyped, Outstanding, Items
  <2>1. ItemsTyped'
    BY <1>0, <1>1, <1>5 DEF ItemsTyped, ItemPlaces
  <2>2. WorkTyped'
    <3>0. \A i \in Items : at'[i] # "none" <=> i = Sweep
      BY <1>0, <1>5, <2>0 DEF ItemsTyped
    <3>1. Outstanding' = {Sweep}
      BY <2>0, <3>0 DEF Outstanding
    <3>2. IsFiniteSet({Sweep}) /\ Cardinality({Sweep}) <= MaxWork
      BY LimitAssumption, FS_Singleton
    <3> QED BY <2>0, <3>1, <3>2 DEF WorkTyped
  <2>3. ItemOk(Sweep)'
    <3>1. result[Sweep] = "failed" /\ at'[Sweep] = "queued"
      BY <1>0, <1>5, <2>0 DEF ItemOk, Carries, ItemsTyped
    <3> QED BY <1>1, <3>1 DEF ItemOk, Carries, Fair
  <2>4. \A j \in Items \ {Sweep} : at'[j] = at[j]
    BY <1>0, <1>5 DEF ItemsTyped
  <2>5. \A i \in Items : ItemOk(i)'
    BY <1>1, <2>0, <2>3, <2>4, ItemMoves
  <2> QED BY <1>2, <1>3, <2>1, <2>2, <2>5 DEF TrustInv
<1> QED BY <1>4, <1>5 DEF Initialize, StopAccepting, Unregister, FinishShutdown, vars, workVars

LEMMA TrustStep == TrustInv /\ [Next]_vars => TrustInv'
  BY TrustProcs, TrustWork, TrustSweep, TrustControl DEF Next

\* The slots, the queue and the reference count keep their types and limits.
THEOREM TypeCorrect == Spec => []TypeOK
  BY TrustInit, TrustStep, TrustParts, PTL DEF Spec

\* However creations, exits, process-id reuse, the sweep, queued validations, renewals and
\* the shutdown interleave, a running process is taken for trusted only if its own image is
\* signed, and never has two verdicts.
THEOREM VerdictsCorrect == Spec => []VerdictsSound
  BY TrustInit, TrustStep, TrustParts, PTL DEF Spec
=============================================================================
