---------------------------- MODULE MCTrustCache ----------------------------
(* The signature cache on small instances. *)
EXTENDS TrustCache

CONSTANTS a1, a2, b1, b2

\* a1 and a2 have one process id, one after the other, and so have b1 and b2.
PidsOf == a1 :> 1 @@ a2 :> 1 @@ b1 :> 2 @@ b2 :> 2
Images == a1 :> "catalog" @@ a2 :> "unsigned" @@ b1 :> "embedded" @@ b2 :> "catalog"
=============================================================================
