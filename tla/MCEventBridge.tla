---------------------------- MODULE MCEventBridge ----------------------------
(* Instances of EventBridge for TLC. *)
EXTENDS EventBridge

CONSTANTS c1, c2, c3, p1, p2, t1, t2, u1

One == t1 :> p1
Three == (t1 :> p1) @@ (t2 :> p1) @@ (u1 :> p2)
=============================================================================
