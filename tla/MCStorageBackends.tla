------------------------- MODULE MCStorageBackends -------------------------
(***************************************************************************)
(* A small instance of StorageBackends for TLC.                            *)
(***************************************************************************)
EXTENDS StorageBackends, FiniteSets, TLC

MCUserOf == [s \in Sessions |-> CHOOSE u \in Users : TRUE]

KeyLess == \A s \in Sessions : ~HasKey(s, Kinds)

KeyCalls == {"setBoundKey", "getBoundKey", "deleteBoundKey"}

RowCalls == {"setSession", "revokeSession", "revokeAllForUser"}

Calling(ops) == {c \in InFlight : call[c].op \in ops}

NoChallenges == \A j \in Jtis : Unissued(j)

OneSession ==
  \E s \in Sessions :
    /\ s \notin rows /\ ~HasKey(s, Kinds)
    /\ \A u \in Users : s \notin index[u]
    /\ s \notin strays
    /\ \A m \in rivals \cup UNION {overlaps[c] : c \in Calls} : m[2] # s \/ m[1] = "gone"
    /\ \A c \in InFlight : "sid" \in DOMAIN call[c] => call[c].sid # s

KeysInUse ==
  {k \in Keys : \E s \in Sessions :
     k = legacy[s] \/ \E kind \in Kinds : k \in keys[s][kind]}
  \cup {call[c].key : c \in Calling({"setBoundKey"})}

\* BOUND: a behaviour keeps to one of three families of calls: those on
\* sessions, over two of them; those on the keys of one session, two keys or
\* one key and at most one call on the session itself; those on challenges,
\* with the rows of one session where they depend on it.  The variants of a
\* backend differ in the last.
Family ==
  \/ /\ KeyLess /\ Calling(KeyCalls) = {} /\ NoChallenges
     /\ \A m \in rivals \cup UNION {overlaps[c] : c \in Calls} : m[1] # "key"
     /\ backend \in {"redis", "postgres", "betterAuth"}
  \/ /\ OneSession /\ NoChallenges
     /\ \A c, d \in Calling(RowCalls) : c = d
     /\ Calling(RowCalls) # {} => \A k1, k2 \in KeysInUse : k1 = k2
     /\ backend \in {"redis", "postgres", "betterAuth"}
  \/ /\ KeyLess /\ Calling(KeyCalls) = {}
     /\ IF backend \in Postgres THEN OneSession
        ELSE rows = {} /\ Calling(RowCalls) = {}

\* BOUND: a revokeAllForUser has at most one of its DELs fail, and two of them are
\* in flight together over one session only.
RevokesApart ==
  LET revokes == Calling({"revokeAllForUser"}) IN
  /\ \A c \in revokes : Cardinality(call[c].refused) < 2
  /\ OneSession \/ \A c, d \in revokes : c = d

\* BOUND: handlers call once every instance is up.
AllUp == backend = "postgres" /\ InFlight # {} => \A b \in Boots : boot[b].at = "up"

\* Sessions, keys and calls are only ever compared.
Symmetry ==
  Permutations(Sessions) \cup Permutations(Keys) \cup Permutations(Calls)
=============================================================================
