------------------------------ MODULE EventReview ------------------------------
(***************************************************************************)
(* What the event bridge promises the protection callbacks: each call of   *)
(* QueueEventAndWait is reviewed at most once, by at most one final vote   *)
(* of the client.  An event nobody votes on in time fails open ("timeout", *)
(* which callers allow); one the client has put on hold for the user fails *)
(* closed.                                                                 *)
(***************************************************************************)
CONSTANT Calls

Votes == {"unknown", "allow", "block", "timeout"}
Phases == {"unasked", "asked", "held", "over"}

VARIABLES phase, vote, outcome
reviewVars == <<phase, vote, outcome>>

Init ==
  /\ phase = [c \in Calls |-> "unasked"]
  /\ vote = [c \in Calls |-> "none"]
  /\ outcome = [c \in Calls |-> "none"]

\* The event is put before the client.
Ask(c) ==
  /\ phase[c] = "unasked"
  /\ phase' = [phase EXCEPT ![c] = "asked"]
  /\ UNCHANGED <<vote, outcome>>

\* The event is not reviewed: dropped, or queued for review after the fact.
Skip(c) ==
  /\ phase[c] = "unasked"
  /\ phase' = [phase EXCEPT ![c] = "over"]
  /\ outcome' = [outcome EXCEPT ![c] = "unreviewed"]
  /\ UNCHANGED vote

\* The client casts its one final vote.
Vote(c, d) ==
  /\ phase[c] \in {"asked", "held"} /\ vote[c] = "none"
  /\ vote' = [vote EXCEPT ![c] = d]
  /\ UNCHANGED <<phase, outcome>>

\* The call learns that the client waits for the user.
Hold(c) ==
  /\ phase[c] = "asked"
  /\ phase' = [phase EXCEPT ![c] = "held"]
  /\ UNCHANGED <<vote, outcome>>

Default(c) == IF phase[c] = "held" THEN "block" ELSE "timeout"
Counts(c) == vote[c] # "none" /\ ~(phase[c] = "held" /\ vote[c] = "timeout")

\* The call returns: with the vote, or with the default of its phase.
Conclude(c, d) ==
  /\ phase[c] \in {"asked", "held"}
  /\ d = Default(c) \/ (Counts(c) /\ d = vote[c])
  /\ phase' = [phase EXCEPT ![c] = "over"]
  /\ outcome' = [outcome EXCEPT ![c] = d]
  /\ UNCHANGED vote

Next ==
  \E c \in Calls :
    \/ Ask(c) \/ Skip(c) \/ Hold(c)
    \/ \E d \in Votes : Vote(c, d) \/ Conclude(c, d)

Spec == Init /\ [][Next]_reviewVars
=============================================================================
