--------------------------- MODULE MemoryStorage ---------------------------
(***************************************************************************)
(* The storage a single-process deployment uses                            *)
(* (src/storage/memory/index.ts): three maps.  No method of it awaits, so  *)
(* each is one atomic step; every operator below is one method, seen by    *)
(* its caller.  The `revoked` set is written by revocation and read        *)
(* nowhere, so it is no state here.                                        *)
(***************************************************************************)
EXTENDS DbscTypes

VARIABLES
  now,          \* Date.now()
  sessions,     \* sessions.get(id), Null when the map has no such entry
  keys,         \* keys.get(`${id}:${kind}`)
  challenges    \* challenges.get(jti)

storageVars == <<sessions, keys, challenges>>

StorageTypeOK ==
  /\ now \in Time
  /\ sessions \in [SessionIds -> Optional(Session)]
  /\ keys \in [SessionIds -> [Kinds -> Optional(Keys)]]
  /\ challenges \in [Jtis -> Optional(Challenge)]

StorageInit ==
  /\ sessions = [s \in SessionIds |-> Null]
  /\ keys = [s \in SessionIds |-> [k \in Kinds |-> Null]]
  /\ challenges = [j \in Jtis |-> Null]

\* The maps die with the process.
StorageLost ==
  /\ sessions' = [s \in SessionIds |-> Null]
  /\ keys' = [s \in SessionIds |-> [k \in Kinds |-> Null]]
  /\ challenges' = [j \in Jtis |-> Null]

-----------------------------------------------------------------------------
\* getSession: what it answers, and the expired row it drops on the way.  The
\* keys of that session stay.
StoredSession(s) ==
  IF sessions[s] # Null /\ now <= sessions[s].expiresAt
  THEN sessions[s] ELSE Null

GetSession(s) == sessions' = [sessions EXCEPT ![s] = StoredSession(s)]

SetSession(s, row) == sessions' = [sessions EXCEPT ![s] = row]

SetBoundKey(s, kind, key) == keys' = [keys EXCEPT ![s][kind] = key]

\* deleteBoundKey, of one kind or of both.
DeleteBoundKey(s, kinds) ==
  keys' = [keys EXCEPT ![s] = [k \in Kinds |-> IF k \in kinds THEN Null ELSE @[k]]]

\* getChallenge: an expired challenge is dropped when it is read.
StoredChallenge(j) ==
  IF challenges[j] # Null /\ now <= challenges[j].expiresAt
  THEN challenges[j] ELSE Null

GetChallenge(j) ==
  challenges' = [challenges EXCEPT ![j] = StoredChallenge(j)]

SetChallenge(j, challenge) ==
  challenges' = [challenges EXCEPT ![j] = challenge]

\* Bug: consumeChallenge looks for the challenge only, not for its flag.
ConsumableIfStored(j) == challenges[j] # Null

\* consumeChallenge answers true to one caller only; it does not look at the
\* expiry.  ConsumeChallenge leaves a missing challenge missing.
Consumable(j) == challenges[j] # Null /\ ~challenges[j].consumed

\* Bug: the flag is set on a copy.
ConsumeCopy(j) == UNCHANGED challenges

ConsumeChallenge(j) ==
  challenges' = IF Consumable(j)
                THEN [challenges EXCEPT ![j].consumed = TRUE]
                ELSE challenges

\* The keys of a session are dropped with it, its open challenges are not.
DropSessions(S) ==
  /\ sessions' = [s \in SessionIds |-> IF s \in S THEN Null ELSE sessions[s]]
  /\ keys' = [s \in SessionIds |->
                IF s \in S THEN [k \in Kinds |-> Null] ELSE keys[s]]
  /\ UNCHANGED challenges

\* revokeSession, and deleteSession.
RevokeSession(s) == DropSessions({s})

\* Only sessions whose row is still in the map are found.
RevokeAllForUser(u) ==
  DropSessions({s \in SessionIds : sessions[s] # Null /\ UserOf[s] = u})

\* gc: what getSession and getChallenge would not answer.
Gc ==
  /\ sessions' = [s \in SessionIds |-> StoredSession(s)]
  /\ challenges' = [j \in Jtis |-> StoredChallenge(j)]
=============================================================================
