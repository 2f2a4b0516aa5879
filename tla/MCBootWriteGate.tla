--------------------------- MODULE MCBootWriteGate ---------------------------
(* The boot write filter on small instances. *)
EXTENDS BootWriteGate

CONSTANTS w1, w2, t1, t2, p1, p2

\* One thread for each client.
OneEach == t1 :> p1 @@ t2 :> p2
\* Two threads of one client.
BothOfOne == t1 :> p1 @@ t2 :> p1

\* w1 touches the last byte of the range, w2 starts before it and fills it; a third
\* place, just behind the range, is never protected.
Offset == [w \in Writes |-> IF w = w1 THEN 4 ELSE 2]
Length == [w \in Writes |-> IF w = w1 THEN 1 ELSE 3]
OneRange == {[offset |-> 3, length |-> 2]}
BehindIt == {[offset |-> 5, length |-> 1]}
OneConfiguration == {OneRange}
Configurations == {OneRange, BehindIt}
=============================================================================
