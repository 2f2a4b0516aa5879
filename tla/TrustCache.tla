------------------------------ MODULE TrustCache ------------------------------
(***************************************************************************)
(* The signature cache (CodeIntegrity.c): which running processes have a   *)
(* trusted image.  Creation notifications queue a validation of the image  *)
(* file; one work item sweeps the processes that were there before; exit   *)
(* notifications drop a process' verdict.  HandleGate skips its            *)
(* consultation for a process with a trusted verdict.                      *)
(*                                                                         *)
(* A validation asks ci.dll about the file, then, unless that trusts it,   *)
(* asks the system's catalogs about the image of the process, which a work *)
(* item that only kept a process id looks up again.  Each question is a    *)
(* step, and processes exit and reuse ids in between.                      *)
(***************************************************************************)
EXTENDS FiniteSets, SequencesExt

CONSTANTS
  Procs,       \* processes, one for each creation time
  PidOf,       \* their process ids, which the system reuses
  Existing,    \* those running when the module starts
  Image,       \* what their image is: "embedded" or "catalog" signed, or "unsigned"
  MaxVerdicts, \* XDOWS_CI_CACHE_SLOTS
  MaxWork,     \* XDOWS_CI_MAX_QUEUED_WORK
  Sweep,       \* the work item of the initial sweep
  NoProc

Items == Procs \cup {Sweep}
Pids == {PidOf[p] : p \in Procs}

ASSUME ProcsAssumption ==
  /\ Existing \subseteq Procs /\ Sweep \notin Procs /\ NoProc \notin Items
  /\ \A p, q \in Existing : PidOf[p] = PidOf[q] => p = q
ASSUME ImageAssumption == Image \in [Procs -> {"embedded", "catalog", "unsigned"}]
ASSUME LimitAssumption == MaxVerdicts \in Nat \ {0} /\ MaxWork \in Nat \ {0}

VARIABLES
  running,  \* processes that have not exited
  started,  \* processes that have started
  state,    \* AcceptingWork, NotifyRegistered, Initialized: "off", "on", "refusing",
            \* "draining", "stopped"
  verdicts, \* the InUse verdict slots, least recently used first
  at,       \* where each work item is, the one a creation queued and the sweep
  subject,  \* the process it validates: the item's own, or the one the sweep looked up
  result,   \* what is known of its image
  todo      \* the process ids the sweep has still to look up

workVars == <<at, subject, result, todo>>
vars == <<running, started, state, verdicts, workVars>>

Init ==
  /\ running = Existing /\ started = Existing
  /\ state = "off" /\ verdicts = <<>>
  /\ at = [i \in Items |-> "none"] /\ subject = [i \in Items |-> NoProc]
  /\ result = [i \in Items |-> "failed"] /\ todo = {}

----------------------------------------------------------------------------
(* The verdict slots *)

Outstanding == {i \in Items : at[i] # "none"}

\* Slots match on the process id and the creation time: on the process.
MatchesMutIdOnly(v, p) == PidOf[v.proc] = PidOf[p]
Matches(v, p) == v.proc = p
Of(p) == {n \in DOMAIN verdicts : Matches(verdicts[n], p)}
Without(p) == RemoveFirstMatch(verdicts, LAMBDA v : Matches(v, p))

\* CiRecordVerdict: reuse the slot of the process, or a free one, or the oldest.
Others(p) == IF Of(p) # {} \/ Len(verdicts) < MaxVerdicts THEN Without(p) ELSE Tail(verdicts)
RecordedMutAnother(p, trusted) ==
  Append(IF Len(verdicts) < MaxVerdicts THEN verdicts ELSE Tail(verdicts),
         [proc |-> p, trusted |-> trusted])
Recorded(p, trusted) == Append(Others(p), [proc |-> p, trusted |-> trusted])

\* CodeIntegrityQueryProcessTrust, by a thread of the process: a hit renews the slot.
Available == state \in {"on", "refusing"}
Query(p) ==
  /\ p \in running /\ Available
  /\ \E n \in Of(p) : verdicts' = Append(RemoveAt(verdicts, n), verdicts[n])
  /\ UNCHANGED <<running, started, state, workVars>>

----------------------------------------------------------------------------
(* Processes *)

\* CiQueueValidation counts the item in, and gives up if there is no room or no memory.  A
\* notification that has seen AcceptingWork set may go on until it is unregistered.
Accepts == state \in {"on", "refusing"}
HasQueueMutOneMore == Cardinality(Outstanding) <= MaxWork
HasQueue == Cardinality(Outstanding) < MaxWork
Start(p) ==
  /\ p \notin started
  /\ \A q \in running : PidOf[q] # PidOf[p]
  /\ running' = running \cup {p} /\ started' = started \cup {p}
  /\ \/ /\ Accepts /\ HasQueue
        /\ at' = [at EXCEPT ![p] = "queued"] /\ subject' = [subject EXCEPT ![p] = p]
     \/ UNCHANGED <<at, subject>>
  /\ UNCHANGED <<state, verdicts, result, todo>>

\* An exit: CiRemoveVerdict, as long as notifications are registered.
Notified == state \in {"on", "refusing"}
Exit(p) ==
  /\ p \in running
  /\ running' = running \ {p}
  /\ verdicts' = IF Notified THEN Without(p) ELSE verdicts
  /\ UNCHANGED <<started, state, workVars>>

----------------------------------------------------------------------------
(* A validation, in a worker thread *)

\* CiValidateFileObject: only a call that succeeds may trust.
Validate(i) ==
  /\ at[i] = IF i = Sweep THEN "validating" ELSE "queued"
  /\ \E r \in {"failed", IF Image[subject[i]] = "embedded" THEN "trusted" ELSE "untrusted"} :
       result' = [result EXCEPT ![i] = r]
  /\ at' = [at EXCEPT ![i] = "validated"]
  /\ UNCHANGED <<running, started, state, verdicts, subject, todo>>

\* CiApplyCatalogFallback: the process by reference, or by its id if only that was kept.
LookedUp(i) ==
  IF i = Sweep THEN {subject[i]} ELSE {p \in running : PidOf[p] = PidOf[subject[i]]}
Fallback(i) ==
  /\ at[i] = "validated"
  /\ \/ UNCHANGED result
     \/ /\ result[i] # "trusted"
        /\ \E p \in LookedUp(i) :
             result' = [result EXCEPT ![i] =
               IF Image[p] = "catalog" THEN "trusted" ELSE "untrusted"]
  /\ at' = [at EXCEPT ![i] = "checked"]
  /\ UNCHANGED <<running, started, state, verdicts, subject, todo>>

\* A result that is no failure is recorded; the item then ends, or the sweep goes on.
Record(i) ==
  /\ at[i] = "checked"
  /\ verdicts' = IF result[i] = "failed" THEN verdicts
                 ELSE Recorded(subject[i], result[i] = "trusted")
  /\ at' = [at EXCEPT ![i] = IF i = Sweep THEN "sweeping" ELSE "none"]
  /\ subject' = [subject EXCEPT ![i] = NoProc]
  /\ result' = [result EXCEPT ![i] = "failed"]
  /\ UNCHANGED <<running, started, state, todo>>

\* CiValidateExistingProcesses: the ids of one moment, each looked up when its turn comes.
SweepStarts ==
  /\ at[Sweep] = "queued"
  /\ at' = [at EXCEPT ![Sweep] = "sweeping"]
  /\ todo' \in {{PidOf[p] : p \in running}, {}}
  /\ UNCHANGED <<running, started, state, verdicts, subject, result>>
SweepLooksUp(pid) ==
  /\ at[Sweep] = "sweeping" /\ pid \in todo
  /\ todo' = todo \ {pid}
  /\ IF \E p \in running : PidOf[p] = pid
     THEN /\ at' = [at EXCEPT ![Sweep] = "validating"]
          /\ \E p \in running : PidOf[p] = pid /\ subject' = [subject EXCEPT ![Sweep] = p]
     ELSE UNCHANGED <<at, subject>>
  /\ UNCHANGED <<running, started, state, verdicts, result>>
SweepEnds ==
  /\ at[Sweep] = "sweeping" /\ todo = {}
  /\ at' = [at EXCEPT ![Sweep] = "none"]
  /\ UNCHANGED <<running, started, state, verdicts, subject, result, todo>>

----------------------------------------------------------------------------
(* CodeIntegrityInitialize and CodeIntegrityShutdown *)

Initialize ==
  /\ state = "off" /\ state' = "on"
  /\ at' \in {at, [at EXCEPT ![Sweep] = "queued"]}
  /\ UNCHANGED <<running, started, verdicts, subject, result, todo>>
StopAccepting ==
  /\ state = "on" /\ state' = "refusing"
  /\ UNCHANGED <<running, started, verdicts, workVars>>
Unregister ==
  /\ state = "refusing" /\ state' = "draining"
  /\ UNCHANGED <<running, started, verdicts, workVars>>
DrainedMutNoWait == TRUE
Drained == Outstanding = {}
FinishShutdown ==
  /\ state = "draining" /\ Drained
  /\ state' = "stopped" /\ verdicts' = <<>>
  /\ UNCHANGED <<running, started, workVars>>

Next ==
  \/ \E p \in Procs : Query(p) \/ Start(p) \/ Exit(p)
  \/ \E i \in Items : Validate(i) \/ Fallback(i) \/ Record(i)
  \/ SweepStarts \/ (\E pid \in Pids : SweepLooksUp(pid)) \/ SweepEnds
  \/ Initialize \/ StopAccepting \/ Unregister \/ FinishShutdown

Spec == Init /\ [][Next]_vars

----------------------------------------------------------------------------
(* Properties *)

\* Every variable has the type of the structure it stands for; the slots and the queued work
\* stay within their limits.
TypeOK ==
  /\ running \subseteq started /\ started \subseteq Procs
  /\ state \in {"off", "on", "refusing", "draining", "stopped"}
  /\ verdicts \in Seq([proc : Procs, trusted : BOOLEAN]) /\ Len(verdicts) <= MaxVerdicts
  /\ at \in [Items -> {"none", "queued", "sweeping", "validating", "validated", "checked"}]
  /\ Cardinality(Outstanding) <= MaxWork
  /\ subject \in [Items -> Procs \cup {NoProc}]
  /\ result \in [Items -> {"failed", "trusted", "untrusted"}] /\ todo \subseteq Pids

\* A running process is taken for trusted only if its own image is signed, although images
\* are looked up by process id after their process may have exited, and verdicts are
\* recorded after its exit notification.
TrustIsOwn ==
  \A p \in running : \A n \in Of(p) : verdicts[n].trusted => Image[p] # "unsigned"

\* The sweep, the notifications and the renewals never leave a process two verdicts.
OneVerdictEach ==
  \A m, n \in DOMAIN verdicts : verdicts[m].proc = verdicts[n].proc => m = n

\* What the table says of a running process is one thing, and true.
VerdictsSound == TrustIsOwn /\ OneVerdictEach

\* After the shutdown no work item is left to call the resolved exports or to write a slot.
WorkDrained == state = "stopped" => Outstanding = {} /\ verdicts = <<>>
=============================================================================
