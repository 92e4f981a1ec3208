-------------------------- MODULE PostgresStorage --------------------------
(***************************************************************************)
(* PostgresStorage (src/storage/postgres/index.ts) over the tables of      *)
(* migrations/.  A method is one statement, its own transaction, except    *)
(* revokeAllForUser.  The rows its three DELETEs remove stay visible until *)
(* COMMIT and are locked meanwhile: a statement that writes or references  *)
(* one of them waits.  Expired rows stay in their tables.                  *)
(***************************************************************************)
EXTENDS StorageCalls

OnPostgres == Serves(Postgres)

\* The rows that revokeAllForUser transactions hold, other than c's own.
HeldBy(d) ==
  IF call[d] # Null /\ call[d].op = "revokeAllForUser" THEN call[d].found ELSE {}

Held == UNION {HeldBy(d) : d \in Calls}
HeldBeside(c) == UNION {HeldBy(d) : d \in Calls \ {c}}

SessionRows(S) == {"session"} \X S

KeyRows(S) == {r \in {"key"} \X S \X Kinds : keys[r[2]][r[3]] # {}}

ChallengeRows(S) ==
  {r \in {"challenge"} \X Jtis :
     /\ challenges[r[2]].sid \in S
     /\ challenges[r[2]].state \in {"open", "consumed", "expired"}}

\* ON DELETE CASCADE: from bound keys since 001, from challenges since 003.
Cascade(S) ==
  SessionRows(S) \cup KeyRows(S)
    \cup (IF backend = "postgres" THEN ChallengeRows(S) ELSE {})

DropRows(R) ==
  /\ rows' = {s \in rows : <<"session", s>> \notin R}
  /\ keys' = [s \in Sessions |-> [kind \in Kinds |->
                IF <<"key", s, kind>> \in R THEN {} ELSE keys[s][kind]]]
  /\ challenges' = [j \in Jtis |->
                      IF <<"challenge", j>> \in R THEN [challenges[j] EXCEPT !.state = "gone"]
                      ELSE challenges[j]]
  /\ UNCHANGED <<legacy, index>>

-----------------------------------------------------------------------------
\* setSession: INSERT ... ON CONFLICT DO UPDATE.
UpsertSession(s) ==
  /\ OnPostgres
  /\ <<"session", s>> \notin Held
  /\ rows' = rows \cup {s}
  /\ Passes([op |-> "setSession", sid |-> s])
  /\ UNCHANGED <<keys, legacy, index, challenges, history>>

\* deleteSession, which is all that revokeSession does: DELETE, and the
\* foreign keys.
DeleteSession(s) ==
  /\ OnPostgres
  /\ Cascade({s}) \cap Held = {}
  /\ DropRows(Cascade({s}))
  /\ Passes([op |-> "revokeSession", sid |-> s])
  /\ UNCHANGED <<history>>

\* setBoundKey: an upsert on (session_id, kind), which throws when the session
\* has no row.
UpsertKey(s, kind, key) ==
  /\ OnPostgres
  /\ {<<"session", s>>, <<"key", s, kind>>} \cap Held = {}
  /\ s \in rows
  /\ keys' = [keys EXCEPT ![s][kind] = {key}]
  /\ Passes([op |-> "setBoundKey", sid |-> s, kind |-> kind])
  /\ UNCHANGED <<rows, legacy, index, challenges, history>>

DeleteKeys(s, kinds) ==
  /\ OnPostgres
  /\ ({"key"} \X {s} \X kinds) \cap Held = {}
  /\ DropRows({"key"} \X {s} \X kinds)
  /\ Passes([op |-> "deleteBoundKey", sid |-> s])
  /\ UNCHANGED <<history>>

\* setChallenge: throws without a session row, once 003 is applied.
InsertChallenge(j, s) ==
  /\ OnPostgres
  /\ Unissued(j)
  /\ backend = "postgres" => <<"session", s>> \notin Held /\ s \in rows
  /\ StoreChallenge(j, s)
  /\ Passes([op |-> "setChallenge", sid |-> s])
  /\ UNCHANGED <<rows, keys, legacy, index, history>>

\* Bug: the WHERE clause forgets the flag.
UpdateWithoutFlag(j) ==
  /\ OnPostgres
  /\ <<"challenge", j>> \notin Held
  /\ challenges[j].state \in {"open", "consumed"}
  /\ challenges' = [challenges EXCEPT ![j].state = "consumed"]
  /\ Tell(j)
  /\ UNCHANGED <<rows, keys, legacy, index, callVars, rivals, strays>>

\* consumeChallenge: UPDATE ... WHERE consumed = FALSE AND expires_at > now.
UpdateChallenge(j) ==
  /\ OnPostgres
  /\ <<"challenge", j>> \notin Held
  /\ challenges[j].state = "open"
  /\ challenges' = [challenges EXCEPT ![j].state = "consumed"]
  /\ Tell(j)
  /\ UNCHANGED <<rows, keys, legacy, index, callVars, rivals, strays>>

\* revokeAllForUser: BEGIN and three DELETEs, each over the user's sessions as
\* it finds them, then COMMIT.
StoredSessionsOf(u) == rows \cap SessionsOf(u)

DeleteUserChallenges(c, u) ==
  LET R == ChallengeRows(StoredSessionsOf(u)) IN
  /\ OnPostgres
  /\ R \cap Held = {}
  /\ Enters(c, [op |-> "revokeAllForUser", user |-> u, sid |-> Null, found |-> R,
                had |-> StoredSessionsOf(u), refused |-> {}, at |-> "keys"])
  /\ UNCHANGED <<tables, history>>

AlsoDeletes(c, step, next, R) ==
  /\ OnPostgres
  /\ At(c, {"revokeAllForUser"}, step)
  /\ R \cap HeldBeside(c) = {}
  /\ call' = [call EXCEPT ![c].at = next, ![c].found = @ \cup R]
  /\ UNCHANGED <<tables, history, overlaps>>

DeleteUserKeys(c) ==
  AlsoDeletes(c, "keys", "sessions", KeyRows(StoredSessionsOf(call[c].user)))

DeleteUserSessions(c) ==
  AlsoDeletes(c, "sessions", "commit", Cascade(StoredSessionsOf(call[c].user)))

Commit(c) ==
  /\ OnPostgres
  /\ At(c, {"revokeAllForUser"}, "commit")
  /\ DropRows(call[c].found)
  /\ Answers(c)
  /\ UNCHANGED <<history>>

\* A statement fails, or the deadlock detector picks it: ROLLBACK.
RollsBack(c) ==
  /\ OnPostgres
  /\ Fails(c)
  /\ UNCHANGED <<tables, history>>

PostgresCommand(c) ==
  \/ \E u \in Users : DeleteUserChallenges(c, u)
  \/ DeleteUserKeys(c) \/ DeleteUserSessions(c) \/ Commit(c) \/ RollsBack(c)

PostgresNext ==
  \/ \E c \in Calls : PostgresCommand(c)
  \/ \E s \in Sessions :
       \/ UpsertSession(s) \/ DeleteSession(s)
       \/ \E kind \in Kinds, key \in Keys : UpsertKey(s, kind, key)
       \/ \E kinds \in KindSets : DeleteKeys(s, kinds)
       \/ \E j \in Jtis : InsertChallenge(j, s)
  \/ \E j \in Jtis : UpdateChallenge(j)
=============================================================================
