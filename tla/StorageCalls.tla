---------------------------- MODULE StorageCalls ----------------------------
(***************************************************************************)
(* The storage contract (src/core/types.ts, StorageAdapter) as the durable *)
(* backends meet it: a call is a sequence of database commands, commands   *)
(* of concurrent calls interleave, and a call may fail between two of its  *)
(* commands.  This module holds what the backends share: the tables, the   *)
(* calls in flight and the record of which calls ran at the same time.     *)
(* RedisStorage, PostgresStorage and BetterAuthStorage add one action per  *)
(* command; StorageBackends puts them together.                            *)
(***************************************************************************)
EXTENDS Migrations

CONSTANTS
  Sessions,     \* session ids
  Users,        \* application users
  UserOf,       \* the user of each session
  Keys,         \* public keys
  Jtis,         \* challenge ids
  Calls,        \* BOUND: calls in flight at the same time
  Null

ASSUME UserOfAssumption == UserOf \in [Sessions -> Users]

Kinds == {"native", "bound"}

\* Better Auth's internal adapter offers consumeVerificationValue, or only a
\* find with a delete, or only a find (both methods are optional).
BetterAuth == {"betterAuth", "betterAuthDelete", "betterAuthFind"}

\* "postgres002": the third migration, which adds the foreign key from
\* challenges to sessions, is not applied.
Postgres == {"postgres", "postgres002"}

Backends == {"redis"} \cup Postgres \cup BetterAuth

VARIABLES
  backend,      \* the StorageAdapter of the deployment, chosen once
  rows,         \* sessions that have a row
  keys,         \* key rows of each session and kind, as the set of their keys
  legacy,       \* Redis: the unsuffixed key row of v2.6
  index,        \* Redis: the set of session ids of each user
  challenges,   \* challenge rows and, once removed or not yet stored, their state
  call,         \* the calls in flight
  told,         \* consumeChallenge calls answered true, per challenge (0..2)
  overlaps,     \* what ran at the same time as each call in flight
  rivals,       \* Better Auth: marks of calls that ran beside their like
  strays        \* Redis: sessions cut from the index while they may have a row

deployment == <<backend, schemaVars>>
tables == <<rows, keys, legacy, index, challenges>>
history == <<told, rivals, strays>>
callVars == <<call, overlaps>>

ChallengeStates == {"unissued", "open", "consumed", "expired", "gone"}

\* The command a call has still to send.
Steps ==
  {"sadd", "srem", "del", "legacy", "legacyDel",                   \* Redis
   "row", "native", "bound", "unsuffixed", "index",
   "keys", "sessions", "commit",                                   \* Postgres
   "update", "create", "delete", "session"}                        \* Better Auth

\* What a revokeAllForUser has found so far: sessions; in PostgreSQL all rows it
\* is to delete, with key rows and challenges.
TableRows ==
  ({"session"} \X Sessions) \cup ({"key"} \X Sessions \X Kinds)
    \cup ({"challenge"} \X Jtis)

Findable == IF backend \in Postgres THEN TableRows ELSE Sessions

KindSets == {{"native"}, {"bound"}, Kinds}

\* A call that has thrown; its caller has not seen it yet.
Failed == [op |-> "failed", at |-> "failed"]

SessionCalls ==
  [op : {"setSession", "deleteSession", "revokeSession"}, sid : Sessions, at : Steps]

\* A call in flight: its arguments, its next command and what it keeps meanwhile.
\* `had` and `refused` are history: what there was to find when the call
\* started, and the sessions whose row or keys a DEL of it failed to remove.
OperationsOn(finds) ==
       SessionCalls
  \cup [op : {"setBoundKey"}, sid : Sessions, kind : Kinds, key : Keys, at : Steps]
  \cup [op : {"getBoundKey"}, sid : Sessions, kinds : KindSets,
        had : BOOLEAN, at : Steps]
  \cup [op : {"deleteBoundKey"}, sid : Sessions, at : Steps]
  \cup [op : {"consumeChallenge"}, jti : Jtis, at : Steps]
  \cup [op : {"revokeAllForUser"}, user : Users, sid : Sessions \cup {Null},
        found : SUBSET finds, had : SUBSET Sessions,
        refused : SUBSET ({"row", "key"} \X (Sessions \cup {Null})), at : Steps]
  \cup {Failed}

Operations == OperationsOn(Findable)

ASSUME NullAssumption == Null \notin OperationsOn(Sessions \cup TableRows)

SessionsOf(u) == {s \in Sessions : UserOf[s] = u}

\* Some key of these kinds is stored, under either layout.
HasKey(s, kinds) ==
  \/ \E kind \in kinds : keys[s][kind] # {}
  \/ "native" \in kinds /\ legacy[s] # Null

NoKeys(s, kinds) ==
  [keys EXCEPT ![s] = [kind \in Kinds |-> IF kind \in kinds THEN {} ELSE @[kind]]]

\* What a call does to whom, for the calls that run at the same time.
Marks(o) ==
  CASE o.op = "setSession"       -> {<<"session", o.sid>>}
    [] o.op = "setBoundKey"      -> {<<"key", o.sid, o.kind>>}
    [] o.op = "setChallenge"     -> {<<"challenge", o.sid>>}
    [] o.op = "consumeChallenge" -> {<<"consume", o.jti>>}
    [] o.op \in {"deleteSession", "revokeSession", "deleteBoundKey"} ->
         {<<"gone", o.sid>>}
    [] o.op = "revokeAllForUser" -> {<<"gone", s>> : s \in SessionsOf(o.user)}
    [] OTHER                     -> {}

\* The marks that the properties ask about for a call.
Heeds(o) ==
  CASE o.op = "revokeSession"    ->
         {<<"session", o.sid>>, <<"challenge", o.sid>>}
           \cup ({"key"} \X {o.sid} \X Kinds)
    [] o.op = "revokeAllForUser" ->
         ({"session", "challenge", "gone"} \X SessionsOf(o.user))
           \cup ({"key"} \X SessionsOf(o.user) \X Kinds)
    [] o.op = "getBoundKey"      ->
         {<<"gone", o.sid>>} \cup ({"key"} \X {o.sid} \X Kinds)
    [] o.op = "setBoundKey"      -> {<<"gone", o.sid>>, <<"key", o.sid, o.kind>>}
    [] OTHER                     -> {}

\* A handler calls the storage once runMigrations has returned in some instance;
\* the other backends need none, and "postgres002" was brought up by hand.
Serves(which) ==
  /\ backend \in which
  /\ backend = "postgres" => \E b \in Boots : boot[b].at = "up"
  /\ UNCHANGED deployment

InFlight == {c \in Calls : call[c] # Null}

MarksInFlight == UNION {Marks(call[c]) : c \in InFlight}

-----------------------------------------------------------------------------
Beside(o) ==
  [d \in Calls |-> IF call[d] = Null THEN {}
                   ELSE overlaps[d] \cup (Marks(o) \cap Heeds(call[d]))]

\* The first of several commands: from now on call c runs beside others.
Enters(c, o) ==
  /\ call[c] = Null
  /\ call' = [call EXCEPT ![c] = o]
  /\ overlaps' = [Beside(o) EXCEPT ![c] = MarksInFlight \cap Heeds(o)]

\* A call that is one command: it happens beside those in flight.
Passes(o) ==
  /\ overlaps' = Beside(o)
  /\ UNCHANGED call

\* Shapes of a further command of call c.
At(c, ops, step) ==
  call[c] # Null /\ call[c].op \in ops /\ call[c].at = step

GoesTo(c, step) ==
  /\ call' = [call EXCEPT ![c].at = step]
  /\ UNCHANGED overlaps

\* The call answers its caller.
Answers(c) ==
  /\ call' = [call EXCEPT ![c] = Null]
  /\ overlaps' = [overlaps EXCEPT ![c] = {}]

Throws(c) ==
  /\ call' = [call EXCEPT ![c] = Failed]
  /\ overlaps' = [overlaps EXCEPT ![c] = {}]

\* The database is not reached before the next command of the call.
Fails(c) ==
  /\ call[c] \notin {Null, Failed}
  /\ Throws(c)

\* The caller has seen the error and gives up; no method retries.
GivesUp(c) ==
  /\ call[c] = Failed
  /\ Answers(c)
  /\ UNCHANGED <<deployment, tables, history>>

\* A challenge id is drawn at random, so it is stored once.
Unissued(j) == challenges[j].state = "unissued"

StoreChallenge(j, s) ==
  challenges' = [challenges EXCEPT ![j] = [sid |-> s, state |-> "open"]]

Tell(j) == told' = [told EXCEPT ![j] = IF @ = 2 THEN 2 ELSE @ + 1]

\* Date.now() passes the expiresAt of a challenge.  That of a session row
\* matters to Redis only (Evicts): no other write looks at it.
Expires ==
  /\ \E j \in Jtis :
       /\ challenges[j].state = "open"
       /\ challenges' = [challenges EXCEPT ![j].state = "expired"]
  /\ UNCHANGED <<deployment, rows, keys, legacy, index, history, callVars>>

CallsInit ==
  /\ rows = {}
  /\ keys = [s \in Sessions |-> [kind \in Kinds |-> {}]]
  /\ index = [u \in Users |-> {}]
  /\ challenges = [j \in Jtis |-> [sid |-> Null, state |-> "unissued"]]
  /\ call = [c \in Calls |-> Null]
  /\ told = [j \in Jtis |-> 0]
  /\ overlaps = [c \in Calls |-> {}]
  /\ rivals = {}
  /\ strays = {}

MarkTypes ==
       ({"session", "challenge", "gone"} \X Sessions)
  \cup ({"consume"} \X Jtis)
  \cup ({"key"} \X Sessions \X Kinds)

CallsTypeOK ==
  /\ backend \in Backends
  /\ rows \subseteq Sessions
  /\ keys \in [Sessions -> [Kinds -> SUBSET Keys]]
  /\ legacy \in [Sessions -> Keys \cup {Null}]
  /\ index \in [Users -> SUBSET Sessions]
  /\ challenges \in [Jtis -> [sid : Sessions \cup {Null}, state : ChallengeStates]]
  /\ call \in [Calls -> Operations \cup {Null}]
  /\ told \in [Jtis -> 0..2]
  /\ overlaps \in [Calls -> SUBSET MarkTypes]
  /\ rivals \subseteq MarkTypes
  /\ strays \subseteq Sessions
=============================================================================
