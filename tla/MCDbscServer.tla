---------------------------- MODULE MCDbscServer ----------------------------
(***************************************************************************)
(* Small instances of DbscServer for TLC.                                  *)
(***************************************************************************)
EXTENDS DbscServer, TLC

OneUser(u) == [s \in SessionIds |-> u]

MCUserOf == OneUser(CHOOSE u \in Users : TRUE)

Busy == {r \in Requests : req[r] # Idle}

Untouched(s) ==
  /\ sessions[s] = Null
  /\ registered[s] = [k \in Kinds |-> {}]
  /\ \A j \in Jtis : issuedTo[j] # s
  /\ \A r \in Requests : req[r].sid # s

\* BOUND: a behaviour has either two requests at a time, over one session, and
\* a clock that moves; or two sessions, one request at a time, and a clock that
\* stands still.
Instance ==
  \/ \A s, t \in SessionIds : s = t \/ Untouched(s) \/ Untouched(t)
  \/ now = 0 /\ Cardinality(Busy) <= 1

\* Keys, challenges and requests are only ever compared; so are the sessions,
\* which all have one user.
Symmetry ==
  Permutations(SessionIds) \cup Permutations(Keys) \cup Permutations(Jtis)
    \cup Permutations(Requests)
=============================================================================
