------------------------------ MODULE MCFileGate ------------------------------
(* The file minifilter on small instances. *)
EXTENDS FileGate, TLC

CONSTANTS p1, p2, t1, t2, h1, h2, bcd, sys, inf, dll, doc

\* Both threads belong to one script host: one installs and deletes, the other one deletes.
OneHost == t1 :> p1 @@ t2 :> p1
Inputs == t1 :> {<<bcd, "write">>, <<inf, "write">>, <<sys, "delete">>, <<sys, "read">>}
          @@ t2 :> {<<sys, "delete">>}
DocumentInputs == t1 :> {<<doc, "write">>} @@ t2 :> {<<sys, "delete">>}
Thresholds == [d \in Tables |-> 2]
Configs == {{}, {bcd}}
SelfRefusals == {<<p1, dll>>}

\* Bounds: either the clock stops after two instants and one file object is used, or nothing
\* is protected and the system file is opened over and over, in vain.
OneFile == now <= 1 /\ name[h2] = NoPath /\ Users(h2) = {}
OnlyDeletes == /\ guarded = {} /\ \A h \in Handles : name[h] = NoPath
               /\ \A t \in Threads : Path(t) \in {NoPath, sys}
Scope == OneFile \/ OnlyDeletes
=============================================================================
