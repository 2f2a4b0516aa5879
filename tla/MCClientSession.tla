---------------------------- MODULE MCClientSession ----------------------------
(* Client sessions on small instances. *)
EXTENDS ClientSession, TLC

CONSTANTS t1, t2, t3, p1, p2, i1, i2

TwoOfOne == t1 :> p1 @@ t2 :> p1 @@ t3 :> p2
TwoPaths == p1 :> i1 @@ p2 :> i2
Alike == Permutations({t1, t2})
=============================================================================
