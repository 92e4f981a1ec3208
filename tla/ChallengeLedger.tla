-------------------------- MODULE ChallengeLedger --------------------------
(***************************************************************************)
(* What the protocol promises of challenges, whatever the storage and      *)
(* however many handlers run at once: a challenge is issued once, to one   *)
(* session; at most one proof over it is ever accepted, for that session;  *)
(* once accepted or dead (burned by a failed refresh, expired, lost) it is *)
(* never open again.                                                       *)
(***************************************************************************)
EXTENDS Naturals

CONSTANTS SessionIds, Jtis, Null

VARIABLES
  phase,     \* "fresh" -> "open" -> "accepted" or "dead"
  owner,     \* the session the challenge was issued to, Null when fresh
  accepts    \* proofs accepted over the challenge so far

ledgerVars == <<phase, owner, accepts>>

Init ==
  /\ phase = [j \in Jtis |-> "fresh"]
  /\ owner = [j \in Jtis |-> Null]
  /\ accepts = [j \in Jtis |-> 0]

Issue(j, s) ==
  /\ phase[j] = "fresh"
  /\ phase' = [phase EXCEPT ![j] = "open"]
  /\ owner' = [owner EXCEPT ![j] = s]
  /\ UNCHANGED accepts

\* The proof of a handler that works for session s is accepted.
Accept(j, s) ==
  /\ phase[j] = "open"
  /\ owner[j] = s
  /\ phase' = [phase EXCEPT ![j] = "accepted"]
  /\ accepts' = [accepts EXCEPT ![j] = 1]
  /\ UNCHANGED owner

\* A set of challenges dies: one at a time, or all of them when the store is
\* lost.
Die(J) ==
  /\ \A j \in J : phase[j] = "open"
  /\ phase' = [j \in Jtis |-> IF j \in J THEN "dead" ELSE phase[j]]
  /\ UNCHANGED <<owner, accepts>>

Next ==
  \/ \E j \in Jtis, s \in SessionIds : Issue(j, s) \/ Accept(j, s)
  \/ \E J \in SUBSET Jtis : Die(J)

Spec == Init /\ [][Next]_ledgerVars
=============================================================================
