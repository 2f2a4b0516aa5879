---------------------------- MODULE MCHandleGate ----------------------------
(* The handle gate on small instances. *)
EXTENDS HandleGate, TLC

CONSTANTS s1, e1, g1, g2, c1, c2

\* g1 and g2 have one process id, one after the other.
PidsOf == s1 :> 10 @@ e1 :> 11 @@ g1 :> 20 @@ g2 :> 20
\* Two threads of s1, which open g1 or g2, one of e1 and one of g1.
TwoActors == c1 :> {<<s1, g1>>} @@ c2 :> {<<s1, g1>>, <<s1, g2>>, <<e1, g2>>, <<g1, s1>>}
OneActor == c1 :> {<<s1, g1>>}
TwoRequests == {[kind |-> "process", rights |-> {3, 5}],
                [kind |-> "thread", rights |-> {1, 4}]}
WithTerminate == {[kind |-> "process", rights |-> {0}],
                  [kind |-> "process", rights |-> {0, 5}]}
=============================================================================
