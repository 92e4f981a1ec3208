---------------------------- MODULE StorageProofs ----------------------------
(***************************************************************************)
(* Proofs about StorageBackends, for every set of sessions, users, keys,   *)
(* challenges, concurrent calls and application instances.                 *)
(***************************************************************************)
EXTENDS StorageBackends, TLAPS

-----------------------------------------------------------------------------
(***************************************************************************)
(* The schema.                                                             *)
(***************************************************************************)

\* The loop of runMigrations stops at the first script it has not seen, or has
\* seen the rest.
LEMMA GoesIsLeast ==
  ASSUME NEW saw \in SUBSET Scripts, NEW from \in 1..4
  PROVE  \/ /\ Goes(saw, from) = [at |-> "up", saw |-> {}, next |-> 1]
            /\ from..3 \subseteq saw
         \/ \E i \in Scripts :
              /\ Goes(saw, from) = [at |-> "script", saw |-> saw, next |-> i]
              /\ i >= from /\ i \notin saw /\ from..(i - 1) \subseteq saw
<1> DEFINE left == {i \in Scripts : i >= from /\ i \notin saw}
<1>1. CASE left = {}
  <2>1. Goes(saw, from) = [at |-> "up", saw |-> {}, next |-> 1]
    BY <1>1 DEF Goes
  <2>2. from..3 \subseteq saw
    BY <1>1 DEF Scripts
  <2> QED
    BY <2>1, <2>2
<1>2. CASE left # {}
  <2>1. \E i \in left : \A j \in left : i <= j
    BY <1>2 DEF Scripts
  <2> DEFINE i == CHOOSE i \in left : \A j \in left : i <= j
  <2>2. i \in left /\ \A j \in left : i <= j
    BY <2>1
  <2>3. Goes(saw, from) = [at |-> "script", saw |-> saw, next |-> i]
    BY <1>2 DEF Goes
  <2> HIDE DEF i
  <2>4. i \in Scripts /\ i >= from /\ i \notin saw
    BY <2>2
  <2>5. from..(i - 1) \subseteq saw
    BY <2>2, <2>4 DEF Scripts
  <2> QED
    BY <2>3, <2>4, <2>5
<1> QED
  BY <1>1, <1>2

\* An instance knows no script that is not recorded, and has recorded those
\* before the one it is at; a script that commits itself has run before its
\* name is written.
BootsKnow ==
  \A b \in Boots :
    /\ boot[b].saw \subseteq recorded
    /\ boot[b].at \in {"script", "record"} => 1..(boot[b].next - 1) \subseteq recorded
    /\ boot[b].at = "record" => boot[b].next \in applied \cup (Scripts \ SelfCommitting)

SchemaInv == SchemaTypeOK /\ SchemaSound /\ BootsKnow

LEMMA SchemaStep ==
  ASSUME SchemaInv, NEW b \in Boots, BootStep(b)
  PROVE  SchemaInv'
<1> USE DEF SchemaInv, SchemaTypeOK, SchemaSound, BootsKnow
<1>1. CASE ReadApplied(b)
  <2>1. boot' = [boot EXCEPT ![b] = Goes(recorded, 1)] /\ UNCHANGED <<applied, recorded>>
    BY <1>1 DEF ReadApplied
  <2>2. \/ /\ boot'[b] = [at |-> "up", saw |-> {}, next |-> 1]
           /\ 1..3 \subseteq recorded
        \/ \E i \in Scripts :
             /\ boot'[b] = [at |-> "script", saw |-> recorded, next |-> i]
             /\ 1..(i - 1) \subseteq recorded
    BY <2>1, GoesIsLeast
  <2> QED
    BY <2>1, <2>2 DEF Scripts, Boot, SelfCommitting
<1>2. CASE RunScript(b)
  BY <1>2 DEF RunScript, Scripts, Boot, SelfCommitting
<1>3. CASE Record(b)
  <2> DEFINE i == boot[b].next
  <2>1. CASE i \in recorded
    BY <1>3, <2>1 DEF Record, Boot, Scripts, SelfCommitting
  <2>2. CASE i \notin recorded
    <3>1. /\ boot[b].at = "record" /\ i \in Scripts /\ boot[b].saw \in SUBSET Scripts
          /\ recorded' = recorded \cup {i}
          /\ applied' = IF i \in SelfCommitting THEN applied ELSE applied \cup {i}
          /\ boot' = [boot EXCEPT ![b] = Goes(boot[b].saw, i + 1)]
      BY <1>3, <2>2 DEF Record, Boot
    <3>2. \/ /\ boot'[b] = [at |-> "up", saw |-> {}, next |-> 1]
             /\ (i + 1)..3 \subseteq boot[b].saw
          \/ \E k \in Scripts :
               /\ boot'[b] = [at |-> "script", saw |-> boot[b].saw, next |-> k]
               /\ k >= i + 1 /\ (i + 1)..(k - 1) \subseteq boot[b].saw
      <4>1. i + 1 \in 1..4
        BY <3>1 DEF Scripts
      <4> QED
        BY ZenonT(60), <3>1, <4>1, GoesIsLeast
    <3>3. applied' = applied \cup {i} /\ 1..i \subseteq applied'
      BY <3>1 DEF Scripts, SelfCommitting
    <3>4. 1..i \subseteq recorded'
      BY <3>1 DEF Scripts
    <3>5. SchemaTypeOK'
      BY <3>1, <3>2, <3>3 DEF Boot, Scripts
    <3>6. SchemaSound'
      BY <3>1, <3>2, <3>3, <3>4 DEF Scripts
    <3>7. BootsKnow'
      BY <3>1, <3>2, <3>3, <3>4 DEF Scripts, Boot
    <3> QED
      BY <3>5, <3>6, <3>7
  <2> QED
    BY <2>1, <2>2
<1>4. CASE BootFails(b)
  BY <1>4 DEF BootFails, Boot
<1>5. CASE Reboots(b)
  BY <1>5 DEF Reboots, Boot, Down, Scripts
<1> QED
  BY <1>1, <1>2, <1>3, <1>4, <1>5 DEF BootStep

\* Every action of a backend is taken by that backend and leaves the schema.
LEMMA RedisServes == RedisNext => OnRedis
<1> SUFFICES ASSUME RedisNext PROVE OnRedis
  OBVIOUS
<1>1. CASE \E c \in Calls : RedisCall(c)
  BY <1>1 DEF RedisCall, SetRow, GetRow, DelNativeKey, GetKey, SetNativeKey, SetKey,
              SMembers
<1>2. CASE \E c \in Calls : RedisCommand(c)
  BY <1>2 DEF RedisCommand, AddToIndex, RemoveFromIndex, DelSession, GetLegacyKey,
              DelLegacyKey, PipelineDelRow, PipelineDelKey, PipelineDelLegacy,
              PipelineDelIndex, PipelineKeepsRow, PipelineKeepsKey,
              PipelineKeepsLegacy, PipelineKeepsIndex, RedisFails
<1> QED
  BY <1>1, <1>2 DEF RedisNext, SetPolyfillKey, SetKey, DelKeys, SetChallengeRow,
                    EvalConsume, Evicts

LEMMA PostgresServes == PostgresNext => OnPostgres
<1> SUFFICES ASSUME PostgresNext PROVE OnPostgres
  OBVIOUS
<1>1. CASE \E c \in Calls : PostgresCommand(c)
  BY <1>1 DEF PostgresCommand, DeleteUserChallenges, DeleteUserKeys,
              DeleteUserSessions, AlsoDeletes, Commit, RollsBack
<1> QED
  BY <1>1 DEF PostgresNext, UpsertSession, DeleteSession, UpsertKey, DeleteKeys,
              InsertChallenge, UpdateChallenge

LEMMA BetterAuthServes == BetterAuthNext => OnBetterAuth
<1> SUFFICES ASSUME BetterAuthNext PROVE OnBetterAuth
  OBVIOUS
<1>1. CASE \E c \in Calls : BetterAuthCall(c)
  BY <1>1 DEF BetterAuthCall, FindSession, RevokeKeys, FindNativeKey, FindKeyToSet,
              FindVerification, FindUserSessions
<1>2. CASE \E c \in Calls : BetterAuthCommand(c)
  BY <1>2 DEF BetterAuthCommand, UpdateSession, CreateSession, RevokeRow, DropRow,
              FindBoundKey, UpdateKey, CreateKey, DeleteVerification, RevokeUserKeys,
              RevokeUserSessions, DatabaseFails
<1> QED
  BY <1>1, <1>2 DEF BetterAuthNext, DeleteSessionRow, DropRow, DeleteKeyRows,
                    CreateVerification, ConsumeVerification

LEMMA NextDeployment ==
  ASSUME [Next]_vars
  PROVE  /\ backend' = backend
         /\ \/ UNCHANGED schemaVars
            \/ \E b \in Boots : Starts(b)
<1>1. CASE RedisNext \/ PostgresNext \/ BetterAuthNext
  BY <1>1, RedisServes, PostgresServes, BetterAuthServes
     DEF OnRedis, OnPostgres, OnBetterAuth, Serves, deployment
<1>2. CASE Expires \/ (\E c \in Calls : GivesUp(c))
  BY <1>2 DEF Expires, GivesUp, deployment
<1>3. CASE \E b \in Boots : Starts(b)
  BY <1>3 DEF Starts
<1>4. CASE UNCHANGED vars
  BY <1>4 DEF vars, deployment
<1> QED
  BY <1>1, <1>2, <1>3, <1>4 DEF Next

LEMMA SchemaInit == Init => SchemaInv
BY DEF Init, SchemaInv, SchemaTypeOK, SchemaSound, BootsKnow, Down, Boot, Scripts

LEMMA SchemaInvStep ==
  ASSUME SchemaInv, [Next]_vars
  PROVE  SchemaInv'
<1>1. CASE UNCHANGED schemaVars
  BY <1>1 DEF schemaVars, SchemaInv, SchemaTypeOK, SchemaSound, BootsKnow
<1>2. CASE \E b \in Boots : Starts(b)
  BY <1>2, SchemaStep DEF Starts
<1> QED
  BY <1>1, <1>2, NextDeployment

\* However many instances start at once and wherever one fails, no script is
\* recorded that has not run and an instance serves over the whole schema
\* (PostgresStorage.runMigrations).
THEOREM SchemaHolds == Spec => []SchemaSound
<1>1. SchemaInv /\ [Next]_vars => SchemaInv'
  BY SchemaInvStep
<1>2. SchemaInv => SchemaSound
  BY DEF SchemaInv
<1> QED
  BY <1>1, <1>2, SchemaInit, PTL DEF Spec

-----------------------------------------------------------------------------
(***************************************************************************)
(* Types: what a call keeps, and what is kept about it.                    *)
(***************************************************************************)

SessionOperations ==
  {"setSession", "deleteSession", "revokeSession", "setBoundKey", "getBoundKey",
   "deleteBoundKey"}

LEMMA Fields ==
  ASSUME NEW o \in Operations
  PROVE  /\ o.op \in SessionOperations => o.sid \in Sessions
         /\ o.op = "setBoundKey" => o.kind \in Kinds /\ o.key \in Keys
         /\ o.op = "consumeChallenge" => o.jti \in Jtis
         /\ o.op = "revokeAllForUser" =>
              /\ o.user \in Users /\ o.sid \in Sessions \cup {Null}
              /\ o.found \subseteq Findable /\ o.had \subseteq Sessions
              /\ o.refused \subseteq {"row", "key"} \X (Sessions \cup {Null})
BY DEF SessionCalls, Operations, OperationsOn, SessionOperations, Failed

LEMMA OtherStep ==
  ASSUME NEW o \in Operations, o # Failed, NEW step \in Steps
  PROVE  [o EXCEPT !.at = step] \in Operations
BY DEF SessionCalls, Operations, OperationsOn

LEMMA SameOperations ==
  ASSUME UNCHANGED backend
  PROVE  Operations' = Operations
BY DEF Operations, OperationsOn, Findable

\* A slot that holds a call is not free.
LEMMA NullIsNoCall == Null \notin Operations
<1>1. Findable \subseteq Sessions \cup TableRows
  BY DEF Findable
<1>2. Operations \subseteq OperationsOn(Sessions \cup TableRows)
  BY <1>1 DEF Operations, OperationsOn
<1> QED
  BY <1>2, NullAssumption

LEMMA HeedsTyped ==
  ASSUME NEW o \in Operations
  PROVE  Heeds(o) \subseteq MarkTypes
<1>1. CASE o.op = "revokeSession"
  BY <1>1, Fields DEF Heeds, MarkTypes, SessionOperations
<1>2. CASE o.op = "revokeAllForUser"
  BY <1>2 DEF Heeds, MarkTypes, SessionsOf
<1>3. CASE o.op = "getBoundKey"
  BY <1>3, Fields DEF Heeds, MarkTypes, SessionOperations
<1>4. CASE o.op = "setBoundKey"
  BY <1>4, Fields DEF Heeds, MarkTypes, SessionOperations
<1> QED
  BY <1>1, <1>2, <1>3, <1>4 DEF Heeds

CallTypes ==
  /\ call \in [Calls -> Operations \cup {Null}]
  /\ overlaps \in [Calls -> SUBSET MarkTypes]

LEMMA BesideTyped ==
  ASSUME CallTypes, NEW o
  PROVE  Beside(o) \in [Calls -> SUBSET MarkTypes]
<1> SUFFICES ASSUME NEW d \in Calls, call[d] # Null
             PROVE  overlaps[d] \cup (Marks(o) \cap Heeds(call[d])) \in SUBSET MarkTypes
  BY DEF Beside
<1>1. call[d] \in Operations /\ overlaps[d] \subseteq MarkTypes
  BY DEF CallTypes
<1> QED
  BY <1>1, HeedsTyped

LEMMA EntersTyped ==
  ASSUME CallTypes, NEW c \in Calls, NEW o \in Operations, Enters(c, o), UNCHANGED backend
  PROVE  CallTypes'
<1>1. MarksInFlight \cap Heeds(o) \in SUBSET MarkTypes
  BY HeedsTyped
<1> QED
  BY <1>1, BesideTyped, SameOperations DEF Enters, CallTypes

LEMMA PassesTyped ==
  ASSUME CallTypes, NEW o, Passes(o), UNCHANGED backend
  PROVE  CallTypes'
BY BesideTyped, SameOperations DEF Passes, CallTypes

LEMMA AnswersTyped ==
  ASSUME CallTypes, NEW c \in Calls, Answers(c), UNCHANGED backend
  PROVE  CallTypes'
BY SameOperations DEF Answers, CallTypes

LEMMA ThrowsTyped ==
  ASSUME CallTypes, NEW c \in Calls, Throws(c), UNCHANGED backend
  PROVE  CallTypes'
<1>1. Failed \in Operations
  BY DEF SessionCalls, Operations, OperationsOn
<1> QED
  BY <1>1, SameOperations DEF Throws, CallTypes

LEMMA GoesToTyped ==
  ASSUME CallTypes, NEW c \in Calls, call[c] \notin {Null, Failed},
         NEW step \in Steps, GoesTo(c, step), UNCHANGED backend
  PROVE  CallTypes'
<1>1. call[c] \in Operations /\ [call[c] EXCEPT !.at = step] \in Operations
  BY OtherStep DEF CallTypes
<1> QED
  BY <1>1, SameOperations DEF GoesTo, CallTypes

\* A call found at one of its steps is a call in flight.
LEMMA AtIsInFlight ==
  ASSUME CallTypes, NEW c \in Calls, NEW ops, "failed" \notin ops, NEW step,
         At(c, ops, step)
  PROVE  call[c] \in Operations /\ call[c] \notin {Null, Failed} /\ call[c].op \in ops
BY DEF At, CallTypes, Failed

DataTypes ==
  /\ rows \subseteq Sessions
  /\ keys \in [Sessions -> [Kinds -> SUBSET Keys]]
  /\ legacy \in [Sessions -> Keys \cup {Null}]
  /\ index \in [Users -> SUBSET Sessions]
  /\ challenges \in [Jtis -> [sid : Sessions \cup {Null}, state : ChallengeStates]]
  /\ told \in [Jtis -> 0..2]
  /\ rivals \subseteq MarkTypes
  /\ strays \subseteq Sessions

LEMMA NoKeysTyped ==
  ASSUME DataTypes, NEW s, NEW kinds
  PROVE  NoKeys(s, kinds) \in [Sessions -> [Kinds -> SUBSET Keys]]
BY DEF DataTypes, NoKeys

LEMMA FailsTyped ==
  ASSUME CallTypes, NEW c \in Calls, Fails(c), UNCHANGED backend
  PROVE  CallTypes'
BY ThrowsTyped DEF Fails

\* Only a revokeAllForUser of PostgreSQL finds other rows than sessions.
LEMMA FindsSessions ==
  ASSUME OnRedis \/ OnBetterAuth
  PROVE  Findable = Sessions
BY DEF Findable, OnRedis, OnBetterAuth, Serves, Postgres, BetterAuth

LEMMA RedisCallTyped ==
  ASSUME CallTypes, DataTypes, NEW c \in Calls, RedisCall(c), UNCHANGED backend
  PROVE  CallTypes' /\ DataTypes'
<1> USE DEF RedisCall, history
<1>1. ASSUME NEW s \in Sessions, SetRow(c, s) PROVE CallTypes' /\ DataTypes'
  <2>1. [op |-> "setSession", sid |-> s, at |-> "sadd"] \in Operations
    BY DEF SessionCalls, Operations, OperationsOn, Steps
  <2> QED
    BY <1>1, <2>1, EntersTyped DEF SetRow, DataTypes
<1>2. ASSUME NEW s \in Sessions, GetRow(c, s) PROVE CallTypes' /\ DataTypes'
  <2>1. [op |-> "revokeSession", sid |-> s,
         at |-> IF s \in rows THEN "srem" ELSE "del"] \in Operations
    BY DEF SessionCalls, Operations, OperationsOn, Steps
  <2> QED
    BY <1>2, <2>1, EntersTyped DEF GetRow, DataTypes, tables
<1>3. ASSUME NEW s \in Sessions, DelNativeKey(c, s) PROVE CallTypes' /\ DataTypes'
  <2>1. [op |-> "deleteBoundKey", sid |-> s, at |-> "legacyDel"] \in Operations
    BY DEF SessionCalls, Operations, OperationsOn, Steps
  <2> QED
    BY <1>3, <2>1, EntersTyped, NoKeysTyped DEF DelNativeKey, DataTypes
<1>4. ASSUME NEW s \in Sessions, NEW kinds \in KindSets, GetKey(c, s, kinds)
      PROVE  CallTypes' /\ DataTypes'
  <2>1. [op |-> "getBoundKey", sid |-> s, kinds |-> kinds,
         had |-> HasKey(s, kinds), at |-> "legacy"] \in Operations
    <3>1. HasKey(s, kinds) \in BOOLEAN
      BY DEF HasKey
    <3> QED
      BY <3>1 DEF SessionCalls, Operations, OperationsOn, Steps
  <2> QED
    BY <1>4, <2>1, EntersTyped DEF GetKey, DataTypes, tables
<1>5. ASSUME NEW s \in Sessions, NEW key \in Keys, SetNativeKey(c, s, key)
      PROVE  CallTypes' /\ DataTypes'
  <2>1. [op |-> "setBoundKey", sid |-> s, kind |-> "native", key |-> key,
         at |-> "legacyDel"] \in Operations
    BY DEF SessionCalls, Operations, OperationsOn, Steps, Kinds
  <2> QED
    BY <1>5, <2>1, EntersTyped DEF SetNativeKey, SetKey, DataTypes
<1>6. ASSUME NEW u \in Users, SMembers(c, u) PROVE CallTypes' /\ DataTypes'
  <2>1. [op |-> "revokeAllForUser", user |-> u, sid |-> Null, found |-> index[u],
         had |-> (rows \cap SessionsOf(u)) \ strays, refused |-> {},
         at |-> "row"] \in Operations
    <3>1. Findable = Sessions
      BY <1>6, FindsSessions DEF SMembers
    <3> QED
      BY <3>1 DEF SessionCalls, Operations, OperationsOn, Steps, DataTypes
  <2> QED
    BY <1>6, <2>1, EntersTyped DEF SMembers, DataTypes, tables
<1> QED
  BY <1>1, <1>2, <1>3, <1>4, <1>5, <1>6

\* What a revokeAllForUser of Redis is once a DEL of its pipeline has failed.
LEMMA RefusedTyped ==
  ASSUME NEW o \in Operations, o.op = "revokeAllForUser"
  PROVE  /\ \A s \in Sessions :
              [o EXCEPT !.at = "native", !.sid = s, !.found = @ \ {s},
                        !.refused = @ \cup {<<"row", s>>}] \in Operations
         /\ \A step \in Steps :
              [o EXCEPT !.at = step, !.refused = @ \cup {<<"key", o.sid>>}] \in Operations
<1>1. o \in [op : {"revokeAllForUser"}, user : Users, sid : Sessions \cup {Null},
            found : SUBSET Findable, had : SUBSET Sessions,
            refused : SUBSET ({"row", "key"} \X (Sessions \cup {Null})), at : Steps]
  BY DEF SessionCalls, Operations, OperationsOn, Failed
<1>4. /\ o.found \subseteq Findable /\ o.sid \in Sessions \cup {Null}
      /\ o.refused \subseteq {"row", "key"} \X (Sessions \cup {Null})
  BY <1>1
<1>2. ASSUME NEW s \in Sessions
      PROVE  [o EXCEPT !.at = "native", !.sid = s, !.found = @ \ {s},
                       !.refused = @ \cup {<<"row", s>>}] \in Operations
  <2> DEFINE R == o.refused \cup {<<"row", s>>}
  <2>1. R \subseteq {"row", "key"} \X (Sessions \cup {Null})
    BY <1>4
  <2> HIDE DEF R
  <2>2. "native" \in Steps
    BY DEF Steps
  <2>3. [o EXCEPT !.at = "native", !.sid = s, !.found = @ \ {s}, !.refused = R]
          \in Operations
    BY <1>1, <2>1, <2>2 DEF Operations, OperationsOn
  <2> QED
    BY <2>3 DEF R
<1>3. ASSUME NEW step \in Steps
      PROVE  [o EXCEPT !.at = step, !.refused = @ \cup {<<"key", o.sid>>}] \in Operations
  <2> DEFINE R == o.refused \cup {<<"key", o.sid>>}
  <2>1. R \subseteq {"row", "key"} \X (Sessions \cup {Null})
    BY <1>4
  <2> HIDE DEF R
  <2>2. [o EXCEPT !.at = step, !.refused = R] \in Operations
    BY <1>1, <2>1 DEF Operations, OperationsOn
  <2> QED
    BY <2>2 DEF R
<1> QED
  BY <1>2, <1>3

LEMMA KeepsKeyTyped ==
  ASSUME CallTypes, DataTypes, UNCHANGED backend, NEW c \in Calls, NEW next \in Steps,
         call[c] \in Operations, call[c].op = "revokeAllForUser", KeepsKey(c, next)
  PROVE  CallTypes' /\ DataTypes'
<1>1. CallTypes'
  BY RefusedTyped, SameOperations DEF KeepsKey, CallTypes
<1> QED
  BY <1>1 DEF KeepsKey, DataTypes, tables, history

LEMMA RedisCommandTyped ==
  ASSUME CallTypes, DataTypes, NEW c \in Calls, RedisCommand(c), UNCHANGED backend
  PROVE  CallTypes' /\ DataTypes'
<1> USE DEF history
<1>1. CASE AddToIndex(c)
  <2>1. call[c].sid \in Sessions
    BY <1>1, AtIsInFlight, Fields DEF AddToIndex, SessionOperations
  <2>2. CallTypes'
    BY <1>1, AnswersTyped DEF AddToIndex
  <2> QED
    BY <1>1, <2>1, <2>2 DEF AddToIndex, DataTypes
<1>2. CASE RemoveFromIndex(c)
  BY <1>2, AtIsInFlight, GoesToTyped DEF RemoveFromIndex, DataTypes, Steps
<1>3. CASE DelSession(c)
  BY <1>3, AnswersTyped DEF DelSession, DataTypes
<1>4. CASE GetLegacyKey(c)
  BY <1>4, AnswersTyped DEF GetLegacyKey, DataTypes, tables
<1>5. CASE DelLegacyKey(c)
  BY <1>5, AnswersTyped DEF DelLegacyKey, DataTypes
<1>6. CASE PipelineDelRow(c)
  <2>1. PICK s \in call[c].found :
          /\ rows' = rows \ {s}
          /\ call' = [call EXCEPT ![c].at = "native", ![c].sid = s,
                                  ![c].found = @ \ {s}]
          /\ strays' = strays \ {s}
    BY <1>6 DEF PipelineDelRow
  <2>2. call[c] \in Operations /\ call[c] # Failed /\ call[c].op = "revokeAllForUser"
    BY <1>6, AtIsInFlight DEF PipelineDelRow
  <2>3. s \in Sessions
    BY <1>6, <2>1, <2>2, Fields, FindsSessions DEF PipelineDelRow
  <2>4. [call[c] EXCEPT !.at = "native", !.sid = s, !.found = @ \ {s}] \in Operations
    BY <2>2, <2>3 DEF SessionCalls, Operations, OperationsOn, Steps
  <2>5. CallTypes'
    BY <1>6, <2>1, <2>4, SameOperations DEF PipelineDelRow, CallTypes
  <2> QED
    BY <1>6, <2>1, <2>5 DEF PipelineDelRow, DataTypes
<1>7. CASE PipelineDelKey(c, "native", "bound")
  BY <1>7, AtIsInFlight, GoesToTyped, NoKeysTyped DEF PipelineDelKey, DataTypes, Steps
<1>8. CASE PipelineDelKey(c, "bound", "unsuffixed")
  BY <1>8, AtIsInFlight, GoesToTyped, NoKeysTyped DEF PipelineDelKey, DataTypes, Steps
<1>9. CASE PipelineDelLegacy(c)
  <2>1. GoesTo(c, "index") \/ GoesTo(c, "row")
    BY <1>9 DEF PipelineDelLegacy, NextMember
  <2>2. CallTypes'
    BY <1>9, <2>1, AtIsInFlight, GoesToTyped DEF PipelineDelLegacy, Steps
  <2> QED
    BY <1>9, <2>2 DEF PipelineDelLegacy, DataTypes
<1>10. CASE PipelineDelIndex(c)
  <2>1. index[call[c].user] \subseteq Sessions
    <3>1. call[c] \in Operations /\ call[c].op = "revokeAllForUser"
      BY <1>10, AtIsInFlight DEF PipelineDelIndex
    <3> QED
      BY <3>1, Fields DEF DataTypes
  <2>2. CallTypes'
    BY <1>10, AnswersTyped DEF PipelineDelIndex
  <2> QED
    BY <1>10, <2>1, <2>2 DEF PipelineDelIndex, DataTypes
<1>11. CASE RedisFails(c)
  <2>1. strays' \subseteq Sessions
    <3>1. CASE HalfDone(c)
      <4>1. call[c] \in Operations /\ call[c].op \in {"setSession", "revokeSession"}
        BY <3>1, AtIsInFlight DEF HalfDone
      <4>2. call[c].sid \in Sessions
        BY <4>1, Fields DEF SessionOperations
      <4> QED
        BY <1>11, <3>1, <4>2 DEF RedisFails, DataTypes
    <3> QED
      BY <1>11, <3>1 DEF RedisFails, DataTypes
  <2>2. CallTypes'
    BY <1>11, FailsTyped DEF RedisFails
  <2> QED
    BY <1>11, <2>1, <2>2 DEF RedisFails, DataTypes, tables
<1>12. CASE PipelineKeepsRow(c)
  <2>1. PICK s \in call[c].found \cap rows :
          call' = [call EXCEPT ![c].at = "native", ![c].sid = s, ![c].found = @ \ {s},
                               ![c].refused = @ \cup {<<"row", s>>}]
    BY <1>12 DEF PipelineKeepsRow
  <2>2. call[c] \in Operations /\ call[c].op = "revokeAllForUser" /\ s \in Sessions
    <3>1. At(c, {"revokeAllForUser"}, "row")
      BY <1>12 DEF PipelineKeepsRow
    <3>2. call[c] \in Operations /\ call[c].op \in {"revokeAllForUser"}
      BY <3>1, AtIsInFlight
    <3> QED
      BY <2>1, <3>2 DEF DataTypes
  <2>3. CallTypes'
    BY <1>12, <2>1, <2>2, RefusedTyped, SameOperations DEF PipelineKeepsRow, CallTypes
  <2> QED
    BY <1>12, <2>3 DEF PipelineKeepsRow, DataTypes, tables
<1>13. ASSUME NEW kind, NEW next \in Steps, PipelineKeepsKey(c, kind, next)
       PROVE  CallTypes' /\ DataTypes'
  <2>1. call[c] \in Operations /\ call[c].op \in {"revokeAllForUser"} /\ KeepsKey(c, next)
    BY <1>13, AtIsInFlight DEF PipelineKeepsKey
  <2> QED
    BY <2>1, KeepsKeyTyped
<1>14. CASE PipelineKeepsLegacy(c)
  <2>1. call[c] \in Operations /\ call[c].op \in {"revokeAllForUser"}
    BY <1>14, AtIsInFlight DEF PipelineKeepsLegacy
  <2>2. KeepsKey(c, NextMember(c)) /\ NextMember(c) \in Steps
    BY <1>14 DEF PipelineKeepsLegacy, NextMember, Steps
  <2> QED
    BY <2>1, <2>2, KeepsKeyTyped
<1>15. CASE PipelineKeepsIndex(c)
  BY <1>15, AnswersTyped DEF PipelineKeepsIndex, DataTypes, tables
<1>16. "bound" \in Steps /\ "unsuffixed" \in Steps
  BY DEF Steps
<1> QED
  BY <1>1, <1>2, <1>3, <1>4, <1>5, <1>6, <1>7, <1>8, <1>9, <1>10, <1>11, <1>12, <1>13,
     <1>14, <1>15, <1>16
     DEF RedisCommand

LEMMA RedisTyped ==
  ASSUME CallTypes, DataTypes, RedisNext, UNCHANGED backend
  PROVE  CallTypes' /\ DataTypes'
<1> USE DEF history
<1>1. CASE \E c \in Calls : RedisCall(c) \/ RedisCommand(c)
  BY <1>1, RedisCallTyped, RedisCommandTyped
<1>2. CASE \E s \in Sessions, key \in Keys : SetPolyfillKey(s, key)
  <2> PICK s \in Sessions, key \in Keys : SetPolyfillKey(s, key)
    BY <1>2
  <2>1. CallTypes'
    BY PassesTyped DEF SetPolyfillKey
  <2>2. keys' = [keys EXCEPT ![s]["bound"] = {key}]
    BY DEF SetPolyfillKey, SetKey
  <2>3. keys' \in [Sessions -> [Kinds -> SUBSET Keys]]
    BY <2>2 DEF DataTypes
  <2> QED
    BY <2>1, <2>3 DEF SetPolyfillKey, SetKey, DataTypes
<1>3. CASE \E s \in Sessions : \E kinds \in KindSets : DelKeys(s, kinds)
  BY <1>3, PassesTyped, NoKeysTyped DEF DelKeys, DataTypes
<1>4. CASE \E s \in Sessions : \E j \in Jtis : SetChallengeRow(j, s)
  BY <1>4, PassesTyped
     DEF SetChallengeRow, StoreChallenge, ChallengeStates, DataTypes
<1>5. CASE \E j \in Jtis : EvalConsume(j)
  BY <1>5, SameOperations DEF EvalConsume, Tell, ChallengeStates, DataTypes, CallTypes, callVars
<1>6. CASE Evicts
  BY <1>6, SameOperations DEF Evicts, ChallengeStates, DataTypes, CallTypes, callVars
<1> QED
  BY <1>1, <1>2, <1>3, <1>4, <1>5, <1>6 DEF RedisNext

LEMMA DropRowsTyped ==
  ASSUME DataTypes, NEW R, DropRows(R), UNCHANGED history
  PROVE  DataTypes'
BY DEF DropRows, DataTypes, ChallengeStates, history

\* Key rows and challenges are found by a revokeAllForUser of PostgreSQL only.
LEMMA FoundTyped ==
  ASSUME OnPostgres, NEW S \in SUBSET Sessions
  PROVE  KeyRows(S) \subseteq Findable /\ Cascade(S) \subseteq Findable
         /\ ChallengeRows(S) \subseteq Findable
<1>1. Findable = TableRows
  BY DEF Findable, OnPostgres, Serves
<1>2. KeyRows(S) \subseteq Findable
  BY <1>1 DEF KeyRows, TableRows
<1>3. ChallengeRows(S) \subseteq Findable
  BY <1>1 DEF ChallengeRows, TableRows
<1> QED
  BY <1>1, <1>2, <1>3 DEF Cascade, SessionRows, TableRows

LEMMA AlsoDeletesTyped ==
  ASSUME CallTypes, DataTypes, UNCHANGED backend, NEW c \in Calls,
         NEW step, NEW next \in Steps, NEW R \in SUBSET Findable,
         AlsoDeletes(c, step, next, R)
  PROVE  CallTypes' /\ DataTypes'
<1>1. /\ call[c] \in Operations /\ call[c] # Failed
      /\ call[c].op = "revokeAllForUser"
  BY AtIsInFlight DEF AlsoDeletes
<1>2. [call[c] EXCEPT !.at = next, !.found = @ \cup R] \in Operations
  BY <1>1 DEF SessionCalls, Operations, OperationsOn
<1>3. call' = [call EXCEPT ![c] = [call[c] EXCEPT !.at = next, !.found = @ \cup R]]
  BY DEF AlsoDeletes
<1>4. CallTypes'
  BY <1>2, <1>3, SameOperations DEF AlsoDeletes, CallTypes
<1> QED
  BY <1>4 DEF AlsoDeletes, DataTypes, tables, history

LEMMA PostgresCommandTyped ==
  ASSUME CallTypes, DataTypes, UNCHANGED backend, OnPostgres,
         NEW c \in Calls, PostgresCommand(c)
  PROVE  CallTypes' /\ DataTypes'
<1>1. ASSUME NEW u \in Users, DeleteUserChallenges(c, u)
      PROVE  CallTypes' /\ DataTypes'
  <2> DEFINE R == ChallengeRows(StoredSessionsOf(u))
             o == [op |-> "revokeAllForUser", user |-> u, sid |-> Null, found |-> R,
                   had |-> StoredSessionsOf(u), refused |-> {}, at |-> "keys"]
  <2>1. StoredSessionsOf(u) \subseteq Sessions
    BY DEF StoredSessionsOf, SessionsOf
  <2>2. R \subseteq Findable
    BY <2>1, FoundTyped
  <2> HIDE DEF R
  <2>3. o \in Operations
    BY <2>1, <2>2 DEF SessionCalls, Operations, OperationsOn, Steps
  <2>4. Enters(c, o)
    BY <1>1 DEF DeleteUserChallenges, R
  <2> QED
    BY <1>1, <2>3, <2>4, EntersTyped DEF DeleteUserChallenges, DataTypes, tables, history
<1>2. CASE DeleteUserKeys(c) \/ DeleteUserSessions(c)
  <2> DEFINE S == StoredSessionsOf(call[c].user)
  <2>1. S \in SUBSET Sessions
    BY DEF StoredSessionsOf, SessionsOf
  <2>2. KeyRows(S) \subseteq Findable /\ Cascade(S) \subseteq Findable
    BY <2>1, FoundTyped
  <2>3. "sessions" \in Steps /\ "commit" \in Steps
    BY DEF Steps
  <2> QED
    BY <1>2, <2>2, <2>3, AlsoDeletesTyped DEF DeleteUserKeys, DeleteUserSessions
<1>3. CASE Commit(c)
  BY <1>3, AnswersTyped, DropRowsTyped DEF Commit
<1>4. CASE RollsBack(c)
  BY <1>4, FailsTyped DEF RollsBack, DataTypes, tables, history
<1> QED
  BY <1>1, <1>2, <1>3, <1>4 DEF PostgresCommand

LEMMA PostgresTyped ==
  ASSUME CallTypes, DataTypes, PostgresNext, UNCHANGED backend
  PROVE  CallTypes' /\ DataTypes'
<1>1. CASE \E c \in Calls : PostgresCommand(c)
  BY <1>1, PostgresCommandTyped, PostgresServes
<1>2. CASE \E s \in Sessions : UpsertSession(s)
  BY <1>2, PassesTyped DEF UpsertSession, DataTypes, history
<1>3. CASE \E s \in Sessions : DeleteSession(s)
  BY <1>3, PassesTyped, DropRowsTyped DEF DeleteSession, history
<1>4. CASE \E s \in Sessions : \E kind \in Kinds, key \in Keys : UpsertKey(s, kind, key)
  <2> PICK s \in Sessions, kind \in Kinds, key \in Keys : UpsertKey(s, kind, key)
    BY <1>4
  <2>1. CallTypes'
    BY PassesTyped DEF UpsertKey
  <2>2. keys' = [keys EXCEPT ![s][kind] = {key}]
    BY DEF UpsertKey
  <2>3. keys' \in [Sessions -> [Kinds -> SUBSET Keys]]
    BY <2>2 DEF DataTypes
  <2> QED
    BY <2>1, <2>3 DEF UpsertKey, DataTypes, history
<1>5. CASE \E s \in Sessions : \E kinds \in KindSets : DeleteKeys(s, kinds)
  BY <1>5, PassesTyped, DropRowsTyped DEF DeleteKeys, history
<1>6. CASE \E s \in Sessions : \E j \in Jtis : InsertChallenge(j, s)
  BY <1>6, PassesTyped
     DEF InsertChallenge, StoreChallenge, ChallengeStates, DataTypes, history
<1>7. CASE \E j \in Jtis : UpdateChallenge(j)
  BY SMTT(30), <1>7, SameOperations
     DEF UpdateChallenge, Tell, ChallengeStates, DataTypes, CallTypes, callVars
<1> QED
  BY <1>1, <1>2, <1>3, <1>4, <1>5, <1>6, <1>7 DEF PostgresNext

-----------------------------------------------------------------------------
LEMMA DropRowTyped ==
  ASSUME DataTypes, NEW s, DropRow(s)
  PROVE  DataTypes'
BY NoKeysTyped DEF DropRow, DataTypes, history

LEMMA MarksTyped ==
  ASSUME NEW o, o.op \in {"setBoundKey", "consumeChallenge"},
         o.op = "setBoundKey" => o.sid \in Sessions /\ o.kind \in Kinds,
         o.op = "consumeChallenge" => o.jti \in Jtis
  PROVE  Marks(o) \subseteq MarkTypes
BY DEF Marks, MarkTypes

LEMMA BetterAuthCallTyped ==
  ASSUME CallTypes, DataTypes, UNCHANGED backend, OnBetterAuth,
         NEW c \in Calls, BetterAuthCall(c)
  PROVE  CallTypes' /\ DataTypes'
<1> USE DEF history
<1>1. ASSUME NEW s \in Sessions, FindSession(c, s) PROVE CallTypes' /\ DataTypes'
  <2>1. [op |-> "setSession", sid |-> s,
         at |-> IF s \in rows THEN "update" ELSE "create"] \in Operations
    BY DEF SessionCalls, Operations, OperationsOn, Steps
  <2> QED
    BY <1>1, <2>1, EntersTyped DEF FindSession, DataTypes, tables
<1>2. ASSUME NEW s \in Sessions, RevokeKeys(c, s) PROVE CallTypes' /\ DataTypes'
  <2>1. [op |-> "revokeSession", sid |-> s, at |-> "session"] \in Operations
    BY DEF SessionCalls, Operations, OperationsOn, Steps
  <2> QED
    BY <1>2, <2>1, EntersTyped, NoKeysTyped DEF RevokeKeys, DataTypes
<1>3. ASSUME NEW s \in Sessions, FindNativeKey(c, s) PROVE CallTypes' /\ DataTypes'
  <2>1. [op |-> "getBoundKey", sid |-> s, kinds |-> Kinds,
         had |-> HasKey(s, Kinds), at |-> "bound"] \in Operations
    <3>1. HasKey(s, Kinds) \in BOOLEAN
      BY DEF HasKey
    <3> QED
      BY <3>1 DEF SessionCalls, Operations, OperationsOn, Steps, KindSets
  <2> QED
    BY <1>3, <2>1, EntersTyped DEF FindNativeKey, DataTypes, tables
<1>4. ASSUME NEW s \in Sessions, NEW kind \in Kinds, NEW key \in Keys,
             FindKeyToSet(c, s, kind, key)
      PROVE  CallTypes' /\ DataTypes'
  <2> DEFINE o == [op |-> "setBoundKey", sid |-> s, kind |-> kind, key |-> key,
                   at |-> IF keys[s][kind] = {} THEN "create" ELSE "update"]
  <2>1. o \in Operations
    BY DEF SessionCalls, Operations, OperationsOn, Steps
  <2>2. Marks(o) \subseteq MarkTypes
    BY MarksTyped
  <2> QED
    BY <1>4, <2>1, <2>2, EntersTyped DEF FindKeyToSet, EntersBeside, DataTypes, tables
<1>5. ASSUME NEW j \in Jtis, FindVerification(c, j) PROVE CallTypes' /\ DataTypes'
  <2> DEFINE o == [op |-> "consumeChallenge", jti |-> j, at |-> "delete"]
  <2>1. o \in Operations
    BY DEF SessionCalls, Operations, OperationsOn, Steps
  <2>2. Marks(o) \subseteq MarkTypes
    BY MarksTyped
  <2>3. CASE EntersBeside(c, o) /\ UNCHANGED told
    BY <1>5, <2>1, <2>2, <2>3, EntersTyped
       DEF FindVerification, EntersBeside, DataTypes, tables
  <2>4. CASE Tell(j) /\ UNCHANGED <<callVars, rivals>>
    BY <1>5, <2>4, SameOperations
       DEF FindVerification, Tell, DataTypes, CallTypes, tables, callVars
  <2> QED
    BY <1>5, <2>3, <2>4 DEF FindVerification
<1>6. ASSUME NEW u \in Users, FindUserSessions(c, u) PROVE CallTypes' /\ DataTypes'
  <2> DEFINE stored == rows \cap SessionsOf(u)
             o == [op |-> "revokeAllForUser", user |-> u, sid |-> Null,
                   found |-> stored, had |-> stored, refused |-> {},
                   at |-> IF stored = {} THEN "sessions" ELSE "keys"]
  <2>1. stored \subseteq Sessions /\ stored \subseteq Findable
    BY FindsSessions DEF DataTypes
  <2> HIDE DEF stored
  <2>2. o \in Operations
    BY <2>1 DEF SessionCalls, Operations, OperationsOn, Steps
  <2>3. Enters(c, o)
    BY <1>6 DEF FindUserSessions, stored
  <2> QED
    BY <1>6, <2>2, <2>3, EntersTyped DEF FindUserSessions, DataTypes, tables
<1> QED
  BY <1>1, <1>2, <1>3, <1>4, <1>5, <1>6 DEF BetterAuthCall

LEMMA BetterAuthCommandTyped ==
  ASSUME CallTypes, DataTypes, UNCHANGED backend, OnBetterAuth,
         NEW c \in Calls, BetterAuthCommand(c)
  PROVE  CallTypes' /\ DataTypes'
<1> USE DEF history
<1>1. CASE UpdateSession(c)
  BY <1>1, AnswersTyped DEF UpdateSession, DataTypes, tables
<1>2. CASE CreateSession(c)
  <2>1. call[c].sid \in Sessions
    BY <1>2, AtIsInFlight, Fields DEF CreateSession, SessionOperations
  <2>2. CallTypes'
    BY <1>2, AnswersTyped, ThrowsTyped DEF CreateSession
  <2> QED
    BY <1>2, <2>1, <2>2 DEF CreateSession, DataTypes
<1>3. CASE RevokeRow(c)
  BY <1>3, AnswersTyped, DropRowTyped DEF RevokeRow
<1>4. CASE FindBoundKey(c)
  BY <1>4, AnswersTyped DEF FindBoundKey, DataTypes, tables
<1>5. CASE UpdateKey(c) \/ CreateKey(c)
  <2>1. /\ call[c].sid \in Sessions /\ call[c].kind \in Kinds
        /\ call[c].key \in Keys
    <3>1. call[c] \in Operations /\ call[c].op = "setBoundKey"
      BY <1>5, AtIsInFlight DEF UpdateKey, CreateKey
    <3> QED
      BY <3>1, Fields DEF SessionOperations
  <2>2. CallTypes'
    BY <1>5, AnswersTyped DEF UpdateKey, CreateKey
  <2>3. PICK K \in SUBSET Keys :
          keys' = [keys EXCEPT ![call[c].sid][call[c].kind] = K]
    <3> DEFINE old == keys[call[c].sid][call[c].kind]
    <3>1. old \in SUBSET Keys
      BY <2>1 DEF DataTypes
    <3>2. CASE UpdateKey(c)
      <4>1. (IF old = {} THEN {} ELSE {call[c].key}) \in SUBSET Keys
        BY <2>1
      <4>2. keys' = [keys EXCEPT ![call[c].sid][call[c].kind] =
                       IF old = {} THEN {} ELSE {call[c].key}]
        BY <3>2, <2>1 DEF UpdateKey, DataTypes
      <4> QED
        BY <4>1, <4>2
    <3>3. CASE CreateKey(c)
      <4>1. old \cup {call[c].key} \in SUBSET Keys
        BY <2>1, <3>1
      <4>2. keys' = [keys EXCEPT ![call[c].sid][call[c].kind] = old \cup {call[c].key}]
        BY <3>3, <2>1 DEF CreateKey, DataTypes
      <4> QED
        BY <4>1, <4>2
    <3> QED
      BY <1>5, <3>2, <3>3
  <2>4. keys' \in [Sessions -> [Kinds -> SUBSET Keys]]
    BY <2>3 DEF DataTypes
  <2> QED
    BY <1>5, <2>2, <2>4 DEF UpdateKey, CreateKey, DataTypes
<1>6. CASE DeleteVerification(c)
  <2>1. CallTypes'
    BY <1>6, AnswersTyped DEF DeleteVerification
  <2>2. challenges' \in [Jtis -> [sid : Sessions \cup {Null}, state : ChallengeStates]]
    <3> DEFINE j == call[c].jti
    <3>1. \/ challenges' = challenges
          \/ challenges' = [challenges EXCEPT ![j].state = "gone"]
      BY <1>6 DEF DeleteVerification, RemoveVerification
    <3> HIDE DEF j
    <3> QED
      BY ZenonT(60), <3>1 DEF ChallengeStates, DataTypes
  <2>3. told' \in [Jtis -> 0..2]
    <3> DEFINE j == call[c].jti
    <3>1. told' = [told EXCEPT ![j] = IF @ = 2 THEN 2 ELSE @ + 1]
      BY <1>6 DEF DeleteVerification, Tell
    <3>2. j \in Jtis
      BY <1>6, AtIsInFlight, Fields DEF DeleteVerification
    <3> HIDE DEF j
    <3> QED
      BY <3>1, <3>2 DEF DataTypes
  <2> QED
    BY <1>6, <2>1, <2>2, <2>3 DEF DeleteVerification, DataTypes
<1>7. CASE RevokeUserKeys(c)
  <2>1. PICK s \in call[c].found :
          /\ keys' = NoKeys(s, Kinds)
          /\ call' = [call EXCEPT
                        ![c].at = IF call[c].found = {s} THEN "sessions" ELSE "keys",
                        ![c].found = @ \ {s}]
    BY <1>7 DEF RevokeUserKeys
  <2>2. call[c] \in Operations /\ call[c] # Failed /\ call[c].op = "revokeAllForUser"
    BY <1>7, AtIsInFlight DEF RevokeUserKeys
  <2>3. \A step \in Steps :
          [call[c] EXCEPT !.at = step, !.found = @ \ {s}] \in Operations
    BY <2>2 DEF SessionCalls, Operations, OperationsOn
  <2>4. CallTypes'
    BY <1>7, <2>1, <2>3, SameOperations DEF RevokeUserKeys, CallTypes, Steps
  <2> QED
    BY <1>7, <2>1, <2>4, NoKeysTyped DEF RevokeUserKeys, DataTypes
<1>8. CASE RevokeUserSessions(c)
  <2>1. CallTypes'
    BY <1>8, AnswersTyped DEF RevokeUserSessions
  <2>2. keys' \in [Sessions -> [Kinds -> SUBSET Keys]]
    BY <1>8 DEF RevokeUserSessions, DataTypes
  <2> QED
    BY <1>8, <2>1, <2>2 DEF RevokeUserSessions, DataTypes
<1>9. CASE DatabaseFails(c)
  BY <1>9, FailsTyped DEF DatabaseFails, DataTypes, tables
<1> QED
  BY <1>1, <1>2, <1>3, <1>4, <1>5, <1>6, <1>7, <1>8, <1>9 DEF BetterAuthCommand

LEMMA BetterAuthTyped ==
  ASSUME CallTypes, DataTypes, BetterAuthNext, UNCHANGED backend
  PROVE  CallTypes' /\ DataTypes'
<1> USE DEF history
<1>1. CASE \E c \in Calls : BetterAuthCall(c) \/ BetterAuthCommand(c)
  BY <1>1, BetterAuthCallTyped, BetterAuthCommandTyped, BetterAuthServes
<1>2. CASE \E s \in Sessions : DeleteSessionRow(s)
  BY <1>2, PassesTyped, DropRowTyped DEF DeleteSessionRow
<1>3. CASE \E s \in Sessions : \E kinds \in KindSets : DeleteKeyRows(s, kinds)
  BY <1>3, PassesTyped, NoKeysTyped DEF DeleteKeyRows, DataTypes
<1>4. CASE \E s \in Sessions : \E j \in Jtis : CreateVerification(j, s)
  BY <1>4, PassesTyped
     DEF CreateVerification, StoreChallenge, ChallengeStates, DataTypes
<1>5. CASE \E j \in Jtis : ConsumeVerification(j)
  BY <1>5, SameOperations
     DEF ConsumeVerification, RemoveVerification, Tell, ChallengeStates, DataTypes,
         CallTypes, callVars
<1> QED
  BY <1>1, <1>2, <1>3, <1>4, <1>5 DEF BetterAuthNext

-----------------------------------------------------------------------------
LEMMA GivesUpTyped ==
  ASSUME CallTypes, DataTypes, UNCHANGED backend, NEW c \in Calls, GivesUp(c)
  PROVE  CallTypes' /\ DataTypes'
BY AnswersTyped DEF GivesUp, DataTypes, tables, history

LEMMA TypesStep ==
  ASSUME CallTypes, DataTypes, [Next]_vars
  PROVE  CallTypes' /\ DataTypes'
<1>1. UNCHANGED backend
  BY NextDeployment
<1>2. CASE RedisNext \/ PostgresNext \/ BetterAuthNext
  BY <1>1, <1>2, RedisTyped, PostgresTyped, BetterAuthTyped
<1>3. CASE Expires
  BY <1>1, <1>3, SameOperations
     DEF Expires, ChallengeStates, DataTypes, CallTypes, callVars, history
<1>4. CASE \E c \in Calls : GivesUp(c)
  BY <1>1, <1>4, GivesUpTyped
<1>5. CASE (\E b \in Boots : Starts(b)) \/ UNCHANGED vars
  BY <1>1, <1>5, SameOperations
     DEF Starts, vars, DataTypes, CallTypes, callVars, tables, history
<1> QED
  BY <1>2, <1>3, <1>4, <1>5 DEF Next

LEMMA TypesInit == Init => CallTypes /\ DataTypes
BY DEF Init, CallsInit, CallTypes, DataTypes, ChallengeStates

\* Every variable has its type, in each backend and through each call.
THEOREM TypeCorrect == Spec => []TypeOK
<1> DEFINE Inv == backend \in Backends /\ CallTypes /\ DataTypes /\ SchemaInv
<1>1. Init => Inv
  BY SchemaInit, TypesInit DEF Init
<1>2. Inv /\ [Next]_vars => Inv'
  <2> SUFFICES ASSUME Inv, [Next]_vars PROVE Inv'
    OBVIOUS
  <2>1. backend' = backend
    BY NextDeployment
  <2>2. SchemaInv'
    BY SchemaInvStep
  <2> QED
    BY <2>1, <2>2, TypesStep DEF Backends, Postgres, BetterAuth
<1>3. Inv => TypeOK
  BY DEF TypeOK, CallsTypeOK, CallTypes, DataTypes, SchemaInv
<1> QED
  BY <1>1, <1>2, <1>3, PTL DEF Spec

-----------------------------------------------------------------------------
(***************************************************************************)
(* Calls that only end: after a step, the calls of these kinds are calls   *)
(* that were in flight before it, at the same command.                     *)
(***************************************************************************)

Calls1(ops) == {c \in Calls : call[c] # Null /\ call[c].op \in ops}

Keeps(ops) == \A c \in Calls1(ops)' : call'[c] = call[c]

LEMMA EntersKeeps ==
  ASSUME CallTypes, NEW c \in Calls, NEW o, Enters(c, o), NEW ops, o.op \notin ops
  PROVE  Keeps(ops)
BY DEF Enters, Keeps, Calls1, CallTypes

LEMMA AnswersKeeps ==
  ASSUME CallTypes, NEW c \in Calls, Answers(c), NEW ops
  PROVE  Keeps(ops)
BY DEF Answers, Keeps, Calls1, CallTypes

LEMMA ThrowsKeeps ==
  ASSUME CallTypes, NEW c \in Calls, Throws(c), NEW ops, "failed" \notin ops
  PROVE  Keeps(ops)
BY DEF Throws, Failed, Keeps, Calls1, CallTypes

LEMMA GoesToKeeps ==
  ASSUME CallTypes, NEW c \in Calls, NEW step, GoesTo(c, step), NEW ops,
         call[c] \in Operations, call[c].op \notin ops
  PROVE  Keeps(ops)
<1>1. [call[c] EXCEPT !.at = step].op = call[c].op
  BY DEF SessionCalls, Operations, OperationsOn, Failed
<1> QED
  BY <1>1 DEF GoesTo, Keeps, Calls1, CallTypes

LEMMA SameKeeps ==
  ASSUME UNCHANGED call, NEW ops
  PROVE  Keeps(ops)
BY DEF Keeps, Calls1

Consumes == {"consumeChallenge"}

\* A challenge that is used up stays so, and an issued one stays issued.
SpentStay ==
  \A j \in Jtis :
    /\ challenges[j].state \in {"consumed", "gone"} =>
         challenges'[j].state \in {"consumed", "gone"}
    /\ challenges[j].state # "unissued" => challenges'[j].state # "unissued"

\* A step that answers no consumeChallenge.
TellsNone ==
  /\ UNCHANGED told /\ rivals \subseteq rivals'
  /\ Keeps(Consumes) /\ SpentStay

LEMMA SameSpentStay ==
  ASSUME UNCHANGED challenges
  PROVE  SpentStay
BY DEF SpentStay

LEMMA StoreSpentStay ==
  ASSUME DataTypes, NEW j \in Jtis, NEW s, Unissued(j), StoreChallenge(j, s)
  PROVE  SpentStay
BY DEF SpentStay, Unissued, StoreChallenge, DataTypes

LEMMA RedisCallTellsNone ==
  ASSUME CallTypes, NEW c \in Calls, RedisCall(c)
  PROVE  TellsNone
<1>1. UNCHANGED <<told, rivals, challenges>>
  BY DEF RedisCall, SetRow, GetRow, DelNativeKey, GetKey, SetNativeKey, SetKey,
         SMembers, tables, history
<1>2. Keeps(Consumes)
  <2> USE EntersKeeps DEF Consumes
  <2>1. ASSUME NEW s, SetRow(c, s) PROVE Keeps(Consumes)
    BY <2>1 DEF SetRow
  <2>2. ASSUME NEW s, GetRow(c, s) PROVE Keeps(Consumes)
    BY <2>2 DEF GetRow
  <2>3. ASSUME NEW s, DelNativeKey(c, s) PROVE Keeps(Consumes)
    BY <2>3 DEF DelNativeKey
  <2>4. ASSUME NEW s, NEW kinds, GetKey(c, s, kinds) PROVE Keeps(Consumes)
    BY <2>4 DEF GetKey
  <2>5. ASSUME NEW s, NEW key, SetNativeKey(c, s, key) PROVE Keeps(Consumes)
    BY <2>5 DEF SetNativeKey
  <2>6. ASSUME NEW u, SMembers(c, u) PROVE Keeps(Consumes)
    BY <2>6 DEF SMembers
  <2> QED
    BY <2>1, <2>2, <2>3, <2>4, <2>5, <2>6 DEF RedisCall
<1> QED
  BY <1>1, <1>2, SameSpentStay DEF TellsNone

LEMMA RedisCommandTellsNone ==
  ASSUME CallTypes, NEW c \in Calls, RedisCommand(c)
  PROVE  TellsNone
<1>1. UNCHANGED <<told, rivals, challenges>>
  BY DEF RedisCommand, AddToIndex, RemoveFromIndex, DelSession, GetLegacyKey,
         DelLegacyKey, PipelineDelRow, PipelineDelKey, PipelineDelLegacy,
         PipelineDelIndex, PipelineKeepsRow, PipelineKeepsKey, PipelineKeepsLegacy,
         PipelineKeepsIndex, KeepsKey, RedisFails, tables, history
<1>2. CASE AddToIndex(c) \/ DelSession(c) \/ GetLegacyKey(c) \/ DelLegacyKey(c)
           \/ PipelineDelIndex(c) \/ PipelineKeepsIndex(c)
  BY <1>1, <1>2, AnswersKeeps, SameSpentStay
     DEF AddToIndex, DelSession, GetLegacyKey, DelLegacyKey, PipelineDelIndex,
         PipelineKeepsIndex, TellsNone
<1>3. CASE RemoveFromIndex(c) \/ PipelineDelKey(c, "native", "bound")
           \/ PipelineDelKey(c, "bound", "unsuffixed") \/ PipelineDelLegacy(c)
  <2>1. call[c] \in Operations /\ call[c].op \in {"revokeSession", "revokeAllForUser"}
    BY <1>3, AtIsInFlight
       DEF RemoveFromIndex, PipelineDelKey, PipelineDelLegacy
  <2>2. PICK step : GoesTo(c, step)
    BY <1>3 DEF RemoveFromIndex, PipelineDelKey, PipelineDelLegacy
  <2> QED
    BY <1>1, <2>1, <2>2, GoesToKeeps, SameSpentStay DEF TellsNone, Consumes
<1>4. CASE \/ PipelineDelRow(c) \/ PipelineKeepsRow(c) \/ PipelineKeepsLegacy(c)
           \/ \E kind, next : PipelineKeepsKey(c, kind, next)
  <2>1. call[c] \in Operations /\ call[c] # Failed /\ call[c].op = "revokeAllForUser"
    <3>1. PICK step : At(c, {"revokeAllForUser"}, step)
      BY <1>4 DEF PipelineDelRow, PipelineKeepsRow, PipelineKeepsKey, PipelineKeepsLegacy
    <3> QED
      BY <3>1, AtIsInFlight
  <2>2. call'[c].op = "revokeAllForUser" /\ \A d \in Calls \ {c} : call'[d] = call[d]
    <3>1. call[c] \in [op : {"revokeAllForUser"}, user : Users, sid : Sessions \cup {Null},
                       found : SUBSET Findable, had : SUBSET Sessions,
                       refused : SUBSET ({"row", "key"} \X (Sessions \cup {Null})),
                       at : Steps]
      BY <2>1 DEF SessionCalls, Operations, OperationsOn
    <3>2. CASE PipelineDelRow(c)
      BY <3>1, <3>2 DEF PipelineDelRow, CallTypes
    <3>3. CASE PipelineKeepsRow(c)
      BY <3>1, <3>3 DEF PipelineKeepsRow, CallTypes
    <3>4. ASSUME NEW next, KeepsKey(c, next)
          PROVE  call'[c].op = "revokeAllForUser" /\ \A d \in Calls \ {c} : call'[d] = call[d]
      BY <3>1, <3>4 DEF KeepsKey, CallTypes
    <3> QED
      BY <1>4, <3>2, <3>3, <3>4 DEF PipelineKeepsKey, PipelineKeepsLegacy
  <2> QED
    BY <1>1, <2>2, SameSpentStay DEF TellsNone, Keeps, Calls1, Consumes
<1>5. CASE RedisFails(c)
  BY <1>1, <1>5, ThrowsKeeps, SameSpentStay DEF RedisFails, Fails, TellsNone, Consumes
<1> QED
  BY <1>2, <1>3, <1>4, <1>5 DEF RedisCommand

LEMMA RedisTellsNone ==
  ASSUME CallTypes, DataTypes, RedisNext
  PROVE  TellsNone \/ \E j \in Jtis : EvalConsume(j)
<1> USE SameKeeps, SameSpentStay DEF TellsNone
<1>1. CASE \E c \in Calls : RedisCall(c) \/ RedisCommand(c)
  BY <1>1, RedisCallTellsNone, RedisCommandTellsNone
<1>2. CASE \E s \in Sessions, key \in Keys : SetPolyfillKey(s, key)
  BY <1>2 DEF SetPolyfillKey, SetKey, Passes, history
<1>3. CASE \E s \in Sessions : \E kinds \in KindSets : DelKeys(s, kinds)
  BY <1>3 DEF DelKeys, Passes, history
<1>4. CASE \E s \in Sessions : \E j \in Jtis : SetChallengeRow(j, s)
  BY <1>4, StoreSpentStay DEF SetChallengeRow, Passes, history
<1>5. CASE Evicts
  <2>1. SpentStay
    BY <1>5 DEF Evicts, SpentStay, DataTypes
  <2> QED
    BY <1>5, <2>1 DEF Evicts, callVars
<1> QED
  BY <1>1, <1>2, <1>3, <1>4, <1>5 DEF RedisNext

LEMMA PostgresTellsNone ==
  ASSUME CallTypes, DataTypes, PostgresNext
  PROVE  TellsNone \/ \E j \in Jtis : UpdateChallenge(j)
<1> USE SameKeeps, SameSpentStay DEF TellsNone, history
<1>1. ASSUME NEW R, DropRows(R) PROVE SpentStay
  BY <1>1 DEF DropRows, SpentStay, DataTypes
<1>2. ASSUME NEW c \in Calls, PostgresCommand(c) PROVE TellsNone
  <2>1. ASSUME NEW u \in Users, DeleteUserChallenges(c, u) PROVE TellsNone
    BY <2>1, EntersKeeps DEF DeleteUserChallenges, tables, Consumes
  <2>2. CASE DeleteUserKeys(c) \/ DeleteUserSessions(c)
    <3>1. PICK step, next, R : AlsoDeletes(c, step, next, R)
      BY <2>2 DEF DeleteUserKeys, DeleteUserSessions
    <3>2. call[c] \in Operations /\ call[c].op = "revokeAllForUser"
      BY <3>1, AtIsInFlight DEF AlsoDeletes
    <3>3. call'[c].op = "revokeAllForUser" /\ \A d \in Calls \ {c} : call'[d] = call[d]
      BY <3>1, <3>2 DEF AlsoDeletes, CallTypes, Operations, OperationsOn
    <3> QED
      BY <3>1, <3>3 DEF AlsoDeletes, tables, Keeps, Calls1, Consumes
  <2>3. CASE Commit(c)
    BY <1>1, <2>3, AnswersKeeps DEF Commit
  <2>4. CASE RollsBack(c)
    BY <2>4, ThrowsKeeps DEF RollsBack, Fails, tables, Consumes
  <2> QED
    BY <1>2, <2>1, <2>2, <2>3, <2>4 DEF PostgresCommand
<1>3. CASE \E s \in Sessions :
             \/ UpsertSession(s)
             \/ \E kind \in Kinds, key \in Keys : UpsertKey(s, kind, key)
  BY <1>3 DEF UpsertSession, UpsertKey, Passes
<1>4. CASE \E s \in Sessions :
             DeleteSession(s) \/ \E kinds \in KindSets : DeleteKeys(s, kinds)
  BY <1>1, <1>4 DEF DeleteSession, DeleteKeys, Passes
<1>5. CASE \E s \in Sessions : \E j \in Jtis : InsertChallenge(j, s)
  BY <1>5, StoreSpentStay DEF InsertChallenge, Passes
<1> QED
  BY <1>2, <1>3, <1>4, <1>5 DEF PostgresNext

LEMMA BetterAuthCallTellsNone ==
  ASSUME CallTypes, NEW c \in Calls, BetterAuthCall(c)
  PROVE  TellsNone \/ \E j \in Jtis : FindVerification(c, j)
<1> SUFFICES ASSUME ~\E j \in Jtis : FindVerification(c, j) PROVE TellsNone
  OBVIOUS
<1>1. UNCHANGED <<told, challenges>> /\ rivals \subseteq rivals'
  BY DEF BetterAuthCall, FindSession, RevokeKeys, FindNativeKey, FindKeyToSet,
         EntersBeside, FindUserSessions, tables, history
<1>2. Keeps(Consumes)
  <2> USE EntersKeeps DEF Consumes
  <2>1. ASSUME NEW s, FindSession(c, s) PROVE Keeps(Consumes)
    BY <2>1 DEF FindSession
  <2>2. ASSUME NEW s, RevokeKeys(c, s) PROVE Keeps(Consumes)
    BY <2>2 DEF RevokeKeys
  <2>3. ASSUME NEW s, FindNativeKey(c, s) PROVE Keeps(Consumes)
    BY <2>3 DEF FindNativeKey
  <2>4. ASSUME NEW s, NEW kind, NEW key, FindKeyToSet(c, s, kind, key)
        PROVE  Keeps(Consumes)
    BY <2>4 DEF FindKeyToSet, EntersBeside
  <2>5. ASSUME NEW u, FindUserSessions(c, u) PROVE Keeps(Consumes)
    BY <2>5 DEF FindUserSessions
  <2> QED
    BY <2>1, <2>2, <2>3, <2>4, <2>5 DEF BetterAuthCall
<1> QED
  BY <1>1, <1>2, SameSpentStay DEF TellsNone

LEMMA BetterAuthCommandTellsNone ==
  ASSUME CallTypes, NEW c \in Calls, BetterAuthCommand(c)
  PROVE  TellsNone \/ DeleteVerification(c)
<1> SUFFICES ASSUME ~DeleteVerification(c) PROVE TellsNone
  OBVIOUS
<1>1. UNCHANGED <<told, challenges, rivals>>
  BY DEF BetterAuthCommand, UpdateSession, CreateSession, RevokeRow, DropRow,
         FindBoundKey, UpdateKey, CreateKey, RevokeUserKeys, RevokeUserSessions,
         DatabaseFails, tables, history
<1>2. CASE RevokeUserKeys(c)
  <2>1. call[c] \in Operations /\ call[c] # Failed /\ call[c].op = "revokeAllForUser"
    <3>1. At(c, {"revokeAllForUser"}, "keys")
      BY <1>2 DEF RevokeUserKeys
    <3> QED
      BY <3>1, AtIsInFlight
  <2>2. call'[c].op = "revokeAllForUser" /\ \A d \in Calls \ {c} : call'[d] = call[d]
    BY <1>2, <2>1 DEF RevokeUserKeys, CallTypes, Operations, OperationsOn
  <2> QED
    BY <1>1, <2>2, SameSpentStay DEF TellsNone, Keeps, Calls1, Consumes
<1>3. CASE ~RevokeUserKeys(c)
  <2>1. Answers(c) \/ Throws(c)
    BY <1>3 DEF BetterAuthCommand, UpdateSession, CreateSession, RevokeRow,
                FindBoundKey, UpdateKey, CreateKey, RevokeUserSessions,
                DatabaseFails, Fails
  <2> QED
    BY <1>1, <2>1, AnswersKeeps, ThrowsKeeps, SameSpentStay DEF TellsNone, Consumes
<1> QED
  BY <1>2, <1>3

LEMMA BetterAuthTellsNone ==
  ASSUME CallTypes, DataTypes, BetterAuthNext
  PROVE  \/ TellsNone
         \/ \E c \in Calls, j \in Jtis : FindVerification(c, j)
         \/ \E c \in Calls : DeleteVerification(c)
         \/ \E j \in Jtis : ConsumeVerification(j)
<1> USE SameKeeps, SameSpentStay DEF TellsNone, history
<1>1. CASE \E c \in Calls : BetterAuthCall(c) \/ BetterAuthCommand(c)
  BY <1>1, BetterAuthCallTellsNone, BetterAuthCommandTellsNone
<1>2. CASE \E s \in Sessions :
             DeleteSessionRow(s) \/ \E kinds \in KindSets : DeleteKeyRows(s, kinds)
  BY <1>2 DEF DeleteSessionRow, DropRow, DeleteKeyRows, Passes
<1>3. CASE \E s \in Sessions : \E j \in Jtis : CreateVerification(j, s)
  BY <1>3, StoreSpentStay DEF CreateVerification, Passes
<1> QED
  BY <1>1, <1>2, <1>3 DEF BetterAuthNext

\* A challenge that was answered true is used up, where the database keeps
\* that; a consume in two commands that overlaps another one, or that is still
\* in flight once another was answered, is remembered as such.
ConsumeInv ==
  \A j \in Jtis :
    /\ told[j] >= 1 /\ backend # "betterAuthFind" =>
         challenges[j].state \in {"consumed", "gone"}
    /\ \A c \in Calls1(Consumes) :
         call[c].jti = j =>
           /\ backend = "betterAuthDelete"
           /\ challenges[j].state # "unissued"
           /\ told[j] >= 1 => <<"consume", j>> \in rivals
           /\ \A d \in Calls1(Consumes) \ {c} :
                call[d].jti = j => <<"consume", j>> \in rivals

LEMMA TellsNoneStep ==
  ASSUME ConsumeInv, ConsumedOnce, TellsNone, UNCHANGED backend
  PROVE  ConsumeInv' /\ ConsumedOnce'
<1>1. ConsumedOnce'
  BY DEF ConsumedOnce, TellsNone
<1>2. \A c \in Calls1(Consumes)' : c \in Calls1(Consumes) /\ call'[c] = call[c]
  <2> SUFFICES ASSUME NEW c \in Calls1(Consumes)'
               PROVE  c \in Calls1(Consumes) /\ call'[c] = call[c]
    OBVIOUS
  <2>1. call'[c] = call[c]
    BY DEF TellsNone, Keeps
  <2> QED
    BY <2>1 DEF Calls1
<1>3. ConsumeInv'
  BY <1>2 DEF ConsumeInv, TellsNone, SpentStay
<1> QED
  BY <1>1, <1>3

\* The one command that tells `true` of a challenge that was not used up.
LEMMA AtomicConsumeStep ==
  ASSUME CallTypes, DataTypes, ConsumeInv, ConsumedOnce, UNCHANGED backend,
         NEW j \in Jtis, EvalConsume(j) \/ UpdateChallenge(j) \/ ConsumeVerification(j)
  PROVE  ConsumeInv' /\ ConsumedOnce'
<1>1. /\ challenges[j].state \in {"open", "expired"}
      /\ challenges'[j].state \in {"consumed", "gone"}
      /\ \A i \in Jtis \ {j} : challenges'[i] = challenges[i]
      /\ Tell(j) /\ UNCHANGED <<call, rivals>>
      /\ backend \notin {"betterAuthFind", "betterAuthDelete"}
  BY DEF EvalConsume, UpdateChallenge, ConsumeVerification, RemoveVerification,
         Present, DataTypes, callVars, OnRedis, OnPostgres, Serves, Postgres
<1>2. told[j] = 0 /\ told'[j] = 1 /\ \A i \in Jtis \ {j} : told'[i] = told[i]
  <2>1. told[j] \in 0..2 /\ ~(told[j] >= 1)
    BY <1>1 DEF ConsumeInv, DataTypes
  <2>2. told[j] = 0
    BY <2>1
  <2> QED
    BY <1>1, <2>2 DEF Tell, DataTypes
<1>3. Calls1(Consumes)' = Calls1(Consumes)
  BY <1>1 DEF Calls1
<1>4. ConsumeInv'
  BY <1>1, <1>2, <1>3 DEF ConsumeInv
<1>5. ConsumedOnce'
  BY <1>1, <1>2 DEF ConsumedOnce
<1> QED
  BY <1>4, <1>5

LEMMA FindVerificationStep ==
  ASSUME CallTypes, DataTypes, ConsumeInv, ConsumedOnce, UNCHANGED backend,
         NEW c \in Calls, NEW j \in Jtis, FindVerification(c, j)
  PROVE  ConsumeInv' /\ ConsumedOnce'
<1> DEFINE o == [op |-> "consumeChallenge", jti |-> j, at |-> "delete"]
<1>1. CASE backend = "betterAuthFind"
  <2>1. Tell(j) /\ UNCHANGED <<call, rivals, challenges>>
    BY <1>1 DEF FindVerification, callVars, tables
  <2>2. Calls1(Consumes)' = Calls1(Consumes)
    BY <2>1 DEF Calls1
  <2>3. \A i \in Jtis : \A d \in Calls1(Consumes) : call[d].jti # i
    BY <1>1 DEF ConsumeInv
  <2> QED
    BY <1>1, <2>1, <2>2, <2>3 DEF ConsumeInv, ConsumedOnce
<1>2. CASE backend # "betterAuthFind"
  <2>1. /\ backend = "betterAuthDelete" /\ EntersBeside(c, o)
        /\ UNCHANGED <<told, challenges>>
        /\ challenges[j].state \in {"open", "expired"}
    BY <1>2 DEF FindVerification, Present, tables
  <2>2. /\ call[c] = Null /\ call' = [call EXCEPT ![c] = o]
        /\ rivals' = rivals \cup (Marks(o) \cap MarksInFlight)
    BY <2>1 DEF EntersBeside, Enters
  <2>3. told[j] = 0
    <3>1. told[j] \in 0..2 /\ ~(told[j] >= 1)
      BY <2>1 DEF ConsumeInv, DataTypes
    <3> QED
      BY <3>1
  <2>4. Calls1(Consumes)' \subseteq Calls1(Consumes) \cup {c}
        /\ c \notin Calls1(Consumes)
        /\ call'[c] = o /\ \A d \in Calls \ {c} : call'[d] = call[d]
    BY <2>2 DEF Calls1, CallTypes
  <2>5. ASSUME NEW d \in Calls1(Consumes), call[d].jti = j
        PROVE  <<"consume", j>> \in rivals'
    <3>1. <<"consume", j>> \in Marks(o) /\ <<"consume", j>> \in Marks(call[d])
      BY <2>5 DEF Marks, Calls1, Consumes
    <3>2. d \in InFlight
      BY <2>5 DEF Calls1, InFlight
    <3> QED
      BY <2>2, <3>1, <3>2 DEF MarksInFlight
  <2>6. rivals \subseteq rivals'
    BY <2>2
  <2>7. \A d \in Calls1(Consumes) : d \in Calls
    BY DEF Calls1
  <2>8. ConsumeInv'
    BY <2>1, <2>3, <2>4, <2>5, <2>6, <2>7 DEF ConsumeInv
  <2>9. ConsumedOnce'
    BY <2>1, <2>6 DEF ConsumedOnce
  <2> QED
    BY <2>8, <2>9
<1> QED
  BY <1>1, <1>2

LEMMA DeleteVerificationStep ==
  ASSUME CallTypes, DataTypes, ConsumeInv, ConsumedOnce, UNCHANGED backend,
         NEW c \in Calls, DeleteVerification(c)
  PROVE  ConsumeInv' /\ ConsumedOnce'
<1> DEFINE j == call[c].jti
<1>1. j \in Jtis /\ c \in Calls1(Consumes)
  <2>1. At(c, {"consumeChallenge"}, "delete")
    BY DEF DeleteVerification
  <2>2. call[c] \in Operations /\ call[c] # Null /\ call[c].op \in {"consumeChallenge"}
    BY <2>1, AtIsInFlight
  <2> QED
    BY <2>2, Fields DEF Calls1, Consumes
<1>2. /\ backend = "betterAuthDelete" /\ challenges[j].state # "unissued"
      /\ told[j] >= 1 => <<"consume", j>> \in rivals
      /\ \A d \in Calls1(Consumes) \ {c} : call[d].jti = j => <<"consume", j>> \in rivals
  BY <1>1 DEF ConsumeInv
<1>3. /\ RemoveVerification(j) /\ Tell(j) /\ Answers(c) /\ UNCHANGED rivals
  BY DEF DeleteVerification
<1> HIDE DEF j
<1>4. /\ challenges'[j].state \in {"consumed", "gone"}
      /\ \A i \in Jtis \ {j} : challenges'[i] = challenges[i]
  BY <1>1, <1>2, <1>3 DEF RemoveVerification, Present, DataTypes, ChallengeStates
<1>5. \A d \in Calls1(Consumes)' :
        d \in Calls1(Consumes) \ {c} /\ call'[d] = call[d]
  BY <1>3 DEF Answers, Calls1, CallTypes
<1>6. /\ told[j] = 0 => told'[j] = 1
      /\ \A i \in Jtis \ {j} : told'[i] = told[i]
      /\ told[j] \in 0..2
  BY <1>1, <1>3 DEF Tell, DataTypes
<1>7. ConsumeInv'
  BY <1>1, <1>2, <1>3, <1>4, <1>5, <1>6 DEF ConsumeInv
<1>8. ConsumedOnce'
  BY <1>1, <1>2, <1>3, <1>6 DEF ConsumedOnce
<1> QED
  BY <1>7, <1>8

LEMMA ConsumeInit == Init => ConsumeInv /\ ConsumedOnce
BY DEF Init, CallsInit, ConsumeInv, ConsumedOnce, Calls1

LEMMA ConsumeStep ==
  ASSUME CallTypes, DataTypes, ConsumeInv, ConsumedOnce, [Next]_vars
  PROVE  ConsumeInv' /\ ConsumedOnce'
<1>1. UNCHANGED backend
  BY NextDeployment
<1>2. CASE TellsNone
  BY <1>1, <1>2, TellsNoneStep
<1>3. CASE RedisNext
  BY <1>1, <1>2, <1>3, RedisTellsNone, AtomicConsumeStep
<1>4. CASE PostgresNext
  BY <1>1, <1>2, <1>4, PostgresTellsNone, AtomicConsumeStep
<1>5. CASE BetterAuthNext
  BY <1>1, <1>2, <1>5, BetterAuthTellsNone, AtomicConsumeStep,
     FindVerificationStep, DeleteVerificationStep
<1>6. CASE Expires
  <2>1. SpentStay
    BY <1>6 DEF Expires, SpentStay, DataTypes
  <2> QED
    BY <1>2, <1>6, <2>1, SameKeeps DEF Expires, TellsNone, history, callVars
<1>7. CASE \E c \in Calls : GivesUp(c)
  BY <1>2, <1>7, AnswersKeeps, SameSpentStay DEF GivesUp, TellsNone, tables, history
<1>8. CASE (\E b \in Boots : Starts(b)) \/ UNCHANGED vars
  BY <1>2, <1>8, SameKeeps, SameSpentStay
     DEF Starts, vars, TellsNone, tables, history, callVars
<1> QED
  BY <1>3, <1>4, <1>5, <1>6, <1>7, <1>8 DEF Next

\* Of two concurrent consumeChallenge calls one is answered true, in every
\* backend that has an atomic consume (spec/06-storage-contract.md, "The
\* atomicity requirement"); over a Better Auth that only finds and deletes, two
\* are only when they overlap.
THEOREM ChallengeConsumedOnce == Spec => []ConsumedOnce
<1> DEFINE Inv == CallTypes /\ DataTypes /\ ConsumeInv /\ ConsumedOnce
<1>1. Init => Inv
  BY TypesInit, ConsumeInit
<1>2. Inv /\ [Next]_vars => Inv'
  BY TypesStep, ConsumeStep
<1>3. Inv => ConsumedOnce
  OBVIOUS
<1> QED
  BY <1>1, <1>2, <1>3, PTL DEF Spec

-----------------------------------------------------------------------------
(***************************************************************************)
(* Keys.                                                                   *)
(***************************************************************************)

\* Nothing is added to the keys of a session and kind.
KeysShrink ==
  \A s \in Sessions, kind \in Kinds : keys'[s][kind] \subseteq keys[s][kind]

\* Or one key replaces them.
KeysReplaced ==
  \A s \in Sessions, kind \in Kinds :
    keys'[s][kind] \subseteq keys[s][kind] \/ \E k \in Keys : keys'[s][kind] = {k}

LEMMA SameKeysShrink ==
  ASSUME UNCHANGED keys
  PROVE  KeysShrink
BY DEF KeysShrink

LEMMA NoKeysShrink ==
  ASSUME DataTypes, NEW s, NEW kinds, keys' = NoKeys(s, kinds)
  PROVE  KeysShrink
BY DEF DataTypes, NoKeys, KeysShrink

LEMMA SetKeyReplaces ==
  ASSUME DataTypes, NEW s \in Sessions, NEW kind \in Kinds, NEW k \in Keys,
         keys' = [keys EXCEPT ![s][kind] = {k}]
  PROVE  KeysReplaced
BY DEF DataTypes, KeysReplaced

LEMMA RedisKeys ==
  ASSUME DataTypes, RedisNext
  PROVE  KeysReplaced
<1> SUFFICES ASSUME ~KeysShrink PROVE KeysReplaced
  BY DEF KeysShrink, KeysReplaced
<1> USE SameKeysShrink, NoKeysShrink
<1>1. ASSUME NEW c \in Calls, RedisCall(c) PROVE KeysReplaced
  <2>1. ASSUME NEW s \in Sessions, NEW key \in Keys, SetNativeKey(c, s, key)
        PROVE  KeysReplaced
    BY <2>1, SetKeyReplaces DEF SetNativeKey, SetKey, Kinds
  <2> QED
    BY <1>1, <2>1 DEF RedisCall, SetRow, GetRow, DelNativeKey, GetKey, SMembers, tables
<1>2. ASSUME NEW c \in Calls, DelSession(c) PROVE KeysShrink
  BY <1>2 DEF DelSession, DataTypes, KeysShrink
<1>3. ASSUME NEW c \in Calls, RedisCommand(c) PROVE KeysShrink
  BY <1>2, <1>3
     DEF RedisCommand, AddToIndex, RemoveFromIndex, GetLegacyKey, DelLegacyKey,
         PipelineDelRow, PipelineDelKey, PipelineDelLegacy, PipelineDelIndex,
         PipelineKeepsRow, PipelineKeepsKey, PipelineKeepsLegacy, PipelineKeepsIndex,
         KeepsKey, RedisFails, tables
<1>4. ASSUME NEW s \in Sessions, NEW key \in Keys, SetPolyfillKey(s, key)
      PROVE  KeysReplaced
  BY <1>4, SetKeyReplaces DEF SetPolyfillKey, SetKey, Kinds
<1> QED
  BY <1>1, <1>3, <1>4
     DEF RedisNext, DelKeys, SetChallengeRow, EvalConsume, Evicts

LEMMA PostgresKeys ==
  ASSUME DataTypes, PostgresNext
  PROVE  KeysReplaced
<1> SUFFICES ASSUME ~KeysShrink PROVE KeysReplaced
  BY DEF KeysShrink, KeysReplaced
<1> USE SameKeysShrink
<1>1. ASSUME NEW R, DropRows(R) PROVE KeysShrink
  BY <1>1 DEF DropRows, KeysShrink, DataTypes
<1>2. ASSUME NEW c \in Calls, PostgresCommand(c) PROVE KeysShrink
  BY <1>1, <1>2
     DEF PostgresCommand, DeleteUserChallenges, DeleteUserKeys, DeleteUserSessions,
         AlsoDeletes, Commit, RollsBack, tables
<1>3. ASSUME NEW s \in Sessions, NEW kind \in Kinds, NEW key \in Keys,
             UpsertKey(s, kind, key)
      PROVE  KeysReplaced
  BY <1>3, SetKeyReplaces DEF UpsertKey
<1> QED
  BY <1>1, <1>2, <1>3
     DEF PostgresNext, UpsertSession, DeleteSession, DeleteKeys, InsertChallenge,
         UpdateChallenge

Sets == {"setBoundKey"}

\* A setBoundKey of Better Auth that is to create a row has found none, and
\* two of one session and kind that overlap are remembered.
KeyInv ==
  /\ OneKeyPerKind
  /\ backend \in BetterAuth =>
       \A c \in Calls1(Sets) :
         LET s == call[c].sid
             kind == call[c].kind
         IN  <<"key", s, kind>> \notin rivals =>
               /\ call[c].at = "create" => keys[s][kind] = {}
               /\ \A d \in Calls1(Sets) \ {c} : <<call[d].sid, call[d].kind>> # <<s, kind>>

LEMMA OneKeyKept ==
  ASSUME OneKeyPerKind, KeysReplaced, rivals \subseteq rivals', UNCHANGED backend
  PROVE  OneKeyPerKind'
<1> SUFFICES ASSUME NEW s \in Sessions, NEW kind \in Kinds,
                    NEW k1 \in Keys, NEW k2 \in Keys,
                    {k1, k2} \subseteq keys'[s][kind], k1 # k2
             PROVE  backend \in BetterAuth /\ <<"key", s, kind>> \in rivals
  BY DEF OneKeyPerKind
<1> QED
  BY DEF OneKeyPerKind, KeysReplaced

\* A step that neither starts a setBoundKey nor adds a key.
SetsNone == KeysShrink /\ Keeps(Sets) /\ rivals \subseteq rivals'

LEMMA SetsNoneStep ==
  ASSUME CallTypes, DataTypes, KeyInv, SetsNone, UNCHANGED backend
  PROVE  KeyInv'
<1>1. OneKeyPerKind'
  BY OneKeyKept DEF KeyInv, SetsNone, KeysShrink, KeysReplaced
<1>2. \A c \in Calls1(Sets)' : c \in Calls1(Sets) /\ call'[c] = call[c]
  <2> SUFFICES ASSUME NEW c \in Calls1(Sets)'
               PROVE  c \in Calls1(Sets) /\ call'[c] = call[c]
    OBVIOUS
  <2>1. call'[c] = call[c]
    BY DEF SetsNone, Keeps
  <2> QED
    BY <2>1 DEF Calls1
<1>3. \A c \in Calls1(Sets) : call[c].sid \in Sessions /\ call[c].kind \in Kinds
  BY Fields DEF Calls1, Sets, CallTypes, SessionOperations
<1> QED
  BY <1>1, <1>2, <1>3 DEF KeyInv, SetsNone, KeysShrink

LEMMA BetterAuthCallKeys ==
  ASSUME CallTypes, DataTypes, NEW c \in Calls, BetterAuthCall(c)
  PROVE  \/ SetsNone
         \/ \E s \in Sessions, kind \in Kinds, key \in Keys : FindKeyToSet(c, s, kind, key)
<1> USE EntersKeeps, SameKeysShrink, NoKeysShrink DEF SetsNone, Sets, history, tables
<1>1. ASSUME NEW s, FindSession(c, s) PROVE SetsNone
  BY <1>1 DEF FindSession
<1>2. ASSUME NEW s, RevokeKeys(c, s) PROVE SetsNone
  BY <1>2 DEF RevokeKeys
<1>3. ASSUME NEW s, FindNativeKey(c, s) PROVE SetsNone
  BY <1>3 DEF FindNativeKey
<1>4. ASSUME NEW u, FindUserSessions(c, u) PROVE SetsNone
  BY <1>4 DEF FindUserSessions
<1>5. ASSUME NEW j, FindVerification(c, j) PROVE SetsNone
  <2>1. UNCHANGED keys /\ rivals \subseteq rivals'
    BY <1>5 DEF FindVerification, EntersBeside
  <2>2. Keeps(Sets)
    BY <1>5, SameKeeps DEF FindVerification, EntersBeside, callVars
  <2> QED
    BY <2>1, <2>2
<1> QED
  BY <1>1, <1>2, <1>3, <1>4, <1>5 DEF BetterAuthCall

LEMMA BetterAuthCommandKeys ==
  ASSUME CallTypes, DataTypes, NEW c \in Calls, BetterAuthCommand(c)
  PROVE  SetsNone \/ UpdateKey(c) \/ CreateKey(c)
<1> SUFFICES ASSUME ~UpdateKey(c), ~CreateKey(c) PROVE SetsNone
  OBVIOUS
<1>1. UNCHANGED rivals
  BY DEF BetterAuthCommand, UpdateSession, CreateSession, RevokeRow, DropRow,
         FindBoundKey, DeleteVerification, RevokeUserKeys, RevokeUserSessions,
         DatabaseFails, tables, history
<1>2. KeysShrink
  <2>1. CASE RevokeUserSessions(c)
    BY <2>1 DEF RevokeUserSessions, DataTypes, KeysShrink
  <2> QED
    BY <2>1, SameKeysShrink, NoKeysShrink
       DEF BetterAuthCommand, UpdateSession, CreateSession, RevokeRow, DropRow,
           FindBoundKey, DeleteVerification, RevokeUserKeys, DatabaseFails, tables
<1>3. CASE RevokeUserKeys(c)
  <2>1. call[c] \in Operations /\ call[c] # Failed /\ call[c].op = "revokeAllForUser"
    <3>1. At(c, {"revokeAllForUser"}, "keys")
      BY <1>3 DEF RevokeUserKeys
    <3> QED
      BY <3>1, AtIsInFlight
  <2>2. call'[c].op = "revokeAllForUser" /\ \A d \in Calls \ {c} : call'[d] = call[d]
    BY <1>3, <2>1 DEF RevokeUserKeys, CallTypes, Operations, OperationsOn
  <2> QED
    BY <1>1, <1>2, <2>2 DEF SetsNone, Keeps, Calls1, Sets
<1>4. CASE ~RevokeUserKeys(c)
  <2>1. Answers(c) \/ Throws(c)
    BY <1>4 DEF BetterAuthCommand, UpdateSession, CreateSession, RevokeRow,
                FindBoundKey, DeleteVerification, RevokeUserSessions,
                DatabaseFails, Fails
  <2> QED
    BY <1>1, <1>2, <2>1, AnswersKeeps, ThrowsKeeps DEF SetsNone, Sets
<1> QED
  BY <1>3, <1>4

LEMMA BetterAuthKeys ==
  ASSUME CallTypes, DataTypes, BetterAuthNext
  PROVE  \/ SetsNone
         \/ \E c \in Calls, s \in Sessions, kind \in Kinds, key \in Keys :
              FindKeyToSet(c, s, kind, key)
         \/ \E c \in Calls : UpdateKey(c) \/ CreateKey(c)
<1> USE SameKeeps, SameKeysShrink, NoKeysShrink DEF SetsNone, history
<1>1. CASE \E c \in Calls : BetterAuthCall(c) \/ BetterAuthCommand(c)
  BY <1>1, BetterAuthCallKeys, BetterAuthCommandKeys
<1>2. CASE \E s \in Sessions :
             DeleteSessionRow(s) \/ \E kinds \in KindSets : DeleteKeyRows(s, kinds)
  BY <1>2 DEF DeleteSessionRow, DropRow, DeleteKeyRows, Passes
<1>3. CASE \E s \in Sessions : \E j \in Jtis : CreateVerification(j, s)
  BY <1>3 DEF CreateVerification, Passes
<1>4. CASE \E j \in Jtis : ConsumeVerification(j)
  BY <1>4 DEF ConsumeVerification, callVars
<1> QED
  BY <1>1, <1>2, <1>3, <1>4 DEF BetterAuthNext

LEMMA FindKeyToSetStep ==
  ASSUME CallTypes, DataTypes, KeyInv, UNCHANGED backend, NEW c \in Calls,
         NEW s \in Sessions, NEW kind \in Kinds, NEW key \in Keys,
         FindKeyToSet(c, s, kind, key)
  PROVE  KeyInv'
<1> DEFINE o == [op |-> "setBoundKey", sid |-> s, kind |-> kind, key |-> key,
                 at |-> IF keys[s][kind] = {} THEN "create" ELSE "update"]
<1>1. /\ call[c] = Null /\ call' = [call EXCEPT ![c] = o]
      /\ rivals' = rivals \cup (Marks(o) \cap MarksInFlight)
      /\ UNCHANGED keys
  BY DEF FindKeyToSet, EntersBeside, Enters, tables
<1>2. /\ Calls1(Sets)' \subseteq Calls1(Sets) \cup {c} /\ c \notin Calls1(Sets)
      /\ call'[c] = o /\ \A d \in Calls \ {c} : call'[d] = call[d]
  BY <1>1 DEF Calls1, CallTypes, Sets
<1>3. ASSUME NEW d \in Calls1(Sets), <<call[d].sid, call[d].kind>> = <<s, kind>>
      PROVE  <<"key", s, kind>> \in rivals'
  <2>1. <<"key", s, kind>> \in Marks(o) /\ <<"key", s, kind>> \in Marks(call[d])
    BY <1>3 DEF Marks, Calls1, Sets
  <2>2. d \in InFlight
    BY <1>3 DEF Calls1, InFlight
  <2> QED
    BY <1>1, <2>1, <2>2 DEF MarksInFlight
<1>4. rivals \subseteq rivals'
  BY <1>1
<1>5. OneKeyPerKind'
  BY <1>1, <1>4 DEF KeyInv, OneKeyPerKind
<1>6. ASSUME backend \in BetterAuth, NEW d \in Calls1(Sets)',
             <<"key", call'[d].sid, call'[d].kind>> \notin rivals'
      PROVE  /\ call'[d].at = "create" => keys'[call'[d].sid][call'[d].kind] = {}
             /\ \A e \in Calls1(Sets)' \ {d} :
                  <<call'[e].sid, call'[e].kind>> # <<call'[d].sid, call'[d].kind>>
  <2>1. CASE d = c
    <3>1. o.at = "create" => keys[s][kind] = {}
      OBVIOUS
    <3>2. \A e \in Calls1(Sets) : <<call[e].sid, call[e].kind>> # <<s, kind>>
      BY <1>2, <1>3, <1>6, <2>1
    <3>3. \A e \in Calls1(Sets) : e \in Calls
      BY DEF Calls1
    <3> QED
      BY <1>1, <1>2, <2>1, <3>1, <3>2, <3>3
  <2>2. CASE d # c
    <3>1. d \in Calls1(Sets) /\ call'[d] = call[d]
      BY <1>2, <1>6, <2>2 DEF Calls1
    <3>2. <<"key", call[d].sid, call[d].kind>> \notin rivals
      BY <1>4, <1>6, <3>1
    <3>3. <<call[d].sid, call[d].kind>> # <<s, kind>>
      BY <1>3, <1>6, <3>1
    <3>4. \A e \in Calls1(Sets) : e \in Calls
      BY DEF Calls1
    <3> QED
      BY <1>1, <1>2, <1>6, <3>1, <3>2, <3>3, <3>4 DEF KeyInv
  <2> QED
    BY <2>1, <2>2
<1> QED
  BY <1>5, <1>6 DEF KeyInv

LEMMA WriteKeyStep ==
  ASSUME CallTypes, DataTypes, KeyInv, UNCHANGED backend, NEW c \in Calls,
         UpdateKey(c) \/ CreateKey(c)
  PROVE  KeyInv'
<1> DEFINE s == call[c].sid
           kind == call[c].kind
           key == call[c].key
<1>1. /\ c \in Calls1(Sets) /\ s \in Sessions /\ kind \in Kinds /\ key \in Keys
      /\ call[c].at \in {"update", "create"}
  <2>1. At(c, {"setBoundKey"}, "update") \/ At(c, {"setBoundKey"}, "create")
    BY DEF UpdateKey, CreateKey
  <2>2. call[c] \in Operations /\ call[c].op = "setBoundKey" /\ call[c] # Null
    BY <2>1, AtIsInFlight
  <2> QED
    BY <2>1, <2>2, Fields DEF Calls1, Sets, SessionOperations, At
<1>2. backend \in BetterAuth /\ UNCHANGED rivals /\ Answers(c)
  <2>1. UNCHANGED rivals /\ Answers(c)
    BY Zenon DEF UpdateKey, CreateKey, history
  <2>2. backend \in BetterAuth
    BY DEF UpdateKey, CreateKey, OnBetterAuth, Serves
  <2> QED
    BY <2>1, <2>2
<1>3. /\ \A d \in Calls1(Sets)' : d \in Calls1(Sets) \ {c} /\ call'[d] = call[d]
  BY <1>2 DEF Answers, Calls1, CallTypes
<1>4. /\ \A t \in Sessions, k \in Kinds :
            <<t, k>> # <<s, kind>> => keys'[t][k] = keys[t][k]
      /\ <<"key", s, kind>> \notin rivals => keys'[s][kind] \subseteq {key}
  <2>1. CASE UpdateKey(c)
    <3>1. keys' = [keys EXCEPT ![s][kind] = IF @ = {} THEN {} ELSE {key}]
      BY <2>1 DEF UpdateKey
    <3> HIDE DEF s, kind, key
    <3> QED
      BY <1>1, <3>1 DEF DataTypes
  <2>2. CASE CreateKey(c)
    <3>1. keys' = [keys EXCEPT ![s][kind] = @ \cup {key}]
      BY <2>2 DEF CreateKey
    <3>2. <<"key", s, kind>> \notin rivals => keys[s][kind] = {}
      BY <1>1, <1>2, <2>2 DEF KeyInv, CreateKey, At
    <3> HIDE DEF s, kind, key
    <3> QED
      BY <1>1, <3>1, <3>2 DEF DataTypes
  <2> QED
    BY <2>1, <2>2
<1> HIDE DEF key
<1>5. OneKeyPerKind'
  <2> SUFFICES ASSUME NEW t \in Sessions, NEW k \in Kinds, NEW k1 \in Keys,
                      NEW k2 \in Keys, {k1, k2} \subseteq keys'[t][k], k1 # k2
               PROVE  <<"key", t, k>> \in rivals
    BY <1>2 DEF OneKeyPerKind
  <2>1. CASE <<t, k>> = <<s, kind>>
    BY <1>4, <2>1
  <2>2. CASE <<t, k>> # <<s, kind>>
    BY <1>4, <2>2 DEF KeyInv, OneKeyPerKind
  <2> QED
    BY <2>1, <2>2
<1>6. ASSUME NEW d \in Calls1(Sets)',
             <<"key", call'[d].sid, call'[d].kind>> \notin rivals
      PROVE  /\ call'[d].at = "create" => keys'[call'[d].sid][call'[d].kind] = {}
             /\ \A e \in Calls1(Sets)' \ {d} :
                  <<call'[e].sid, call'[e].kind>> # <<call'[d].sid, call'[d].kind>>
  <2>1. d \in Calls1(Sets) \ {c} /\ call'[d] = call[d]
    BY <1>3, <1>6
  <2>2. call[d].sid \in Sessions /\ call[d].kind \in Kinds
    BY <2>1, Fields DEF Calls1, Sets, CallTypes, SessionOperations
  <2>3. /\ call[d].at = "create" => keys[call[d].sid][call[d].kind] = {}
        /\ \A e \in Calls1(Sets) \ {d} :
             <<call[e].sid, call[e].kind>> # <<call[d].sid, call[d].kind>>
    BY <1>2, <1>6, <2>1 DEF KeyInv
  <2>4. <<call[d].sid, call[d].kind>> # <<s, kind>>
    BY <1>1, <2>1, <2>3
  <2>5. keys'[call[d].sid][call[d].kind] = keys[call[d].sid][call[d].kind]
    BY <1>4, <2>2, <2>4
  <2> QED
    BY <1>3, <2>1, <2>3, <2>5
<1> QED
  BY <1>2, <1>5, <1>6 DEF KeyInv

\* A session has one key of each kind in Redis and PostgreSQL, and in Better
\* Auth unless two setBoundKey calls of it overlapped (setBoundKey of
\* packages/better-auth/src/adapter.ts is a find, then a create).
THEOREM KeysUnique == Spec => []OneKeyPerKind
<1> DEFINE Inv == backend \in Backends /\ CallTypes /\ DataTypes /\ KeyInv
<1>1. Init => Inv
  BY TypesInit DEF Init, CallsInit, KeyInv, OneKeyPerKind, Calls1
<1>2. Inv /\ [Next]_vars => Inv'
  <2> SUFFICES ASSUME Inv, [Next]_vars PROVE KeyInv'
    BY TypesStep, NextDeployment DEF Backends, Postgres, BetterAuth
  <2>1. UNCHANGED backend
    BY NextDeployment
  <2>2. CASE SetsNone
    BY <2>1, <2>2, SetsNoneStep
  <2>3. CASE RedisNext
    <3>1. backend \notin BetterAuth
      BY <2>3, RedisServes DEF OnRedis, Serves, BetterAuth
    <3>2. rivals \subseteq rivals'
      BY <2>3, RedisTellsNone DEF TellsNone, EvalConsume
    <3> QED
      BY <2>1, <2>3, <3>1, <3>2, RedisKeys, OneKeyKept DEF KeyInv
  <2>4. CASE PostgresNext
    <3>1. backend \notin BetterAuth
      BY <2>4, PostgresServes DEF OnPostgres, Serves, Postgres, BetterAuth
    <3>2. rivals \subseteq rivals'
      BY <2>4, PostgresTellsNone DEF TellsNone, UpdateChallenge
    <3> QED
      BY <2>1, <2>4, <3>1, <3>2, PostgresKeys, OneKeyKept DEF KeyInv
  <2>5. CASE BetterAuthNext
    BY <2>1, <2>2, <2>5, BetterAuthKeys, FindKeyToSetStep, WriteKeyStep
  <2>6. CASE Expires
    BY <2>2, <2>6, SameKeeps, SameKeysShrink DEF Expires, SetsNone, history, callVars
  <2>7. CASE \E c \in Calls : GivesUp(c)
    BY <2>2, <2>7, AnswersKeeps, SameKeysShrink DEF GivesUp, SetsNone, tables, history
  <2>8. CASE (\E b \in Boots : Starts(b)) \/ UNCHANGED vars
    BY <2>2, <2>8, SameKeeps, SameKeysShrink
       DEF Starts, vars, SetsNone, tables, history, callVars
  <2> QED
    BY <2>3, <2>4, <2>5, <2>6, <2>7, <2>8 DEF Next
<1>3. Inv => OneKeyPerKind
  BY DEF KeyInv
<1> QED
  BY <1>1, <1>2, <1>3, PTL DEF Spec

-----------------------------------------------------------------------------
(***************************************************************************)
(* The index of Redis.                                                     *)
(***************************************************************************)

Covers(c, s) == HalfDone(c) /\ call[c].sid = s

Writes == {"setSession"}
Purges == {"revokeAllForUser"}

\* What revokeAllForUser call c relies on when it drops the index: the rows in
\* it are those it has still to delete, or were written beside it, or those
\* whose DEL has failed.
Cleared(c) ==
  /\ call[c].at = "index" => call[c].found = {}
  /\ \A s \in SessionsOf(call[c].user) :
       /\ s \in rows /\ s \in index[call[c].user] =>
            \/ s \in call[c].found \/ <<"session", s>> \in overlaps[c]
            \/ <<"row", s>> \in call[c].refused
       /\ \A d \in Calls1(Writes) :
            call[d].sid = s => <<"session", s>> \in overlaps[c]

IndexInv ==
  backend = "redis" =>
    /\ \A s \in rows : Reachable(s)
    /\ \A c \in Calls1(Purges) : Cleared(c)

\* A call goes on with what it has found, and nothing is put into rows, the
\* index or flight that it does not know of.
LEMMA ClearedKept ==
  ASSUME NEW c, Cleared(c),
         call'[c].user = call[c].user, call'[c].found = call[c].found,
         call'[c].at = "index" => call[c].at = "index" \/ call[c].found = {},
         overlaps[c] \subseteq overlaps'[c], call[c].refused \subseteq call'[c].refused,
         \A s \in SessionsOf(call[c].user) :
           s \in rows' /\ s \in index'[call[c].user] =>
             \/ s \in rows /\ s \in index[call[c].user]
             \/ <<"session", s>> \in overlaps'[c],
         \A d \in Calls1(Writes)' :
           \/ d \in Calls1(Writes) /\ call[d].sid = call'[d].sid
           \/ call'[d].sid \in SessionsOf(call[c].user) =>
                <<"session", call'[d].sid>> \in overlaps'[c]
  PROVE  Cleared(c)'
<1>1. SessionsOf(call'[c].user) = SessionsOf(call[c].user)
  OBVIOUS
<1> QED
  BY <1>1 DEF Cleared, SessionsOf

\* A step on other calls, that removes rows at most.
IndexQuiet ==
  /\ UNCHANGED index /\ rows' \subseteq rows /\ strays \cap rows' \subseteq strays'
  /\ \A c \in Calls : \A s \in rows' : Covers(c, s) => Covers(c, s)'
  /\ \A c \in Calls1(Writes)' : c \in Calls1(Writes) /\ call[c].sid = call'[c].sid
  /\ \A c \in Calls1(Purges)' :
       /\ c \in Calls1(Purges)
       /\ call'[c].user = call[c].user /\ call'[c].found = call[c].found
       /\ call'[c].at = "index" => call[c].at = "index" \/ call[c].found = {}
       /\ overlaps[c] \subseteq overlaps'[c] /\ call[c].refused \subseteq call'[c].refused

LEMMA IndexQuietStep ==
  ASSUME IndexInv, IndexQuiet, UNCHANGED backend
  PROVE  IndexInv'
<1> SUFFICES ASSUME backend = "redis"
             PROVE  /\ \A s \in rows' : Reachable(s)'
                    /\ \A c \in Calls1(Purges)' : Cleared(c)'
  BY DEF IndexInv
<1>1. ASSUME NEW s \in rows' PROVE Reachable(s)'
  <2>1. Reachable(s) /\ s \in rows
    BY DEF IndexInv, IndexQuiet
  <2>2. CASE s \in index[UserOf[s]] \/ s \in strays
    BY <2>2 DEF IndexQuiet, Reachable
  <2>3. CASE \E c \in Calls : Covers(c, s)
    <3>1. PICK c \in Calls : Covers(c, s)
      BY <2>3
    <3>2. Covers(c, s)'
      BY <3>1 DEF IndexQuiet
    <3> QED
      BY <3>2 DEF Covers, Reachable
  <2> QED
    BY <2>1, <2>2, <2>3 DEF Covers, Reachable
<1>2. ASSUME NEW c \in Calls1(Purges)' PROVE Cleared(c)'
  BY ClearedKept DEF IndexInv, IndexQuiet
<1> QED
  BY <1>1, <1>2

\* Marks made while a call is in flight stay with it.
LEMMA BesideGrows ==
  ASSUME CallTypes, NEW o, NEW d \in Calls, call[d] # Null
  PROVE  overlaps[d] \subseteq Beside(o)[d]
         /\ Marks(o) \cap Heeds(call[d]) \subseteq Beside(o)[d]
BY DEF Beside

LEMMA EntersQuiet ==
  ASSUME CallTypes, NEW c \in Calls, NEW o, Enters(c, o),
         o.op \in {"getBoundKey", "setBoundKey", "deleteBoundKey", "revokeSession"},
         UNCHANGED <<rows, index, strays>>
  PROVE  IndexQuiet
<1>1. /\ call[c] = Null /\ call'[c] = o
      /\ \A d \in Calls \ {c} : call'[d] = call[d] /\ overlaps'[d] = Beside(o)[d]
  BY DEF Enters, CallTypes, Beside
<1> QED
  BY <1>1, BesideGrows DEF IndexQuiet, Covers, HalfDone, At, Calls1, Writes, Purges

LEMMA PassesQuiet ==
  ASSUME CallTypes, NEW o, Passes(o), UNCHANGED <<rows, index, strays>>
  PROVE  IndexQuiet
BY BesideGrows DEF Passes, IndexQuiet, Covers, HalfDone, At, Calls1, Writes, Purges

LEMMA AnswersQuiet ==
  ASSUME CallTypes, NEW c \in Calls, Answers(c), UNCHANGED <<rows, index, strays>>,
         call[c].op \notin {"setSession", "revokeSession"}
  PROVE  IndexQuiet
<1>1. /\ call'[c] = Null
      /\ \A d \in Calls \ {c} : call'[d] = call[d] /\ overlaps'[d] = overlaps[d]
  BY DEF Answers, CallTypes
<1> QED
  BY <1>1 DEF IndexQuiet, Covers, HalfDone, At, Calls1, Writes, Purges

LEMMA SameQuiet ==
  ASSUME UNCHANGED <<index, call, overlaps>>, rows' \subseteq rows,
         strays \cap rows' \subseteq strays'
  PROVE  IndexQuiet
BY DEF IndexQuiet, Covers, HalfDone, At, Calls1

\* The pipeline goes on to its next DEL, whether the last one removed the keys
\* it names or not.
LEMMA PipelineQuiet ==
  ASSUME CallTypes, NEW c \in Calls, NEW step \in Steps, GoesTo(c, step) \/ KeepsKey(c, step),
         UNCHANGED <<rows, index, strays>>,
         call[c] # Null, call[c] \in Operations, call[c].op = "revokeAllForUser",
         step = "index" => call[c].found = {}
  PROVE  IndexQuiet
<1>1. /\ \/ call'[c] = [call[c] EXCEPT !.at = step]
         \/ call'[c] = [call[c] EXCEPT !.at = step,
                                       !.refused = @ \cup {<<"key", call[c].sid>>}]
      /\ \A d \in Calls \ {c} : call'[d] = call[d]
      /\ UNCHANGED overlaps
  BY DEF GoesTo, KeepsKey, CallTypes
<1>2. /\ call'[c].op = "revokeAllForUser" /\ call'[c].user = call[c].user
      /\ call'[c].found = call[c].found /\ call'[c].at = step
      /\ call[c].refused \subseteq call'[c].refused
  <2>1. call[c] \in [op : {"revokeAllForUser"}, user : Users, sid : Sessions \cup {Null},
                     found : SUBSET Findable, had : SUBSET Sessions,
                     refused : SUBSET ({"row", "key"} \X (Sessions \cup {Null})),
                     at : Steps]
    BY DEF SessionCalls, Operations, OperationsOn, Failed
  <2> QED
    BY <1>1, <2>1
<1>4. \A d \in Calls : \A s : Covers(d, s) => Covers(d, s)'
  BY <1>1, <1>2 DEF Covers, HalfDone, At
<1>5. \A d \in Calls1(Writes)' : d \in Calls1(Writes) /\ call[d].sid = call'[d].sid
  BY <1>1, <1>2 DEF Calls1, Writes
<1>6. \A d \in Calls1(Purges)' :
        /\ call'[d].user = call[d].user /\ call'[d].found = call[d].found
        /\ call'[d].at = "index" => call[d].at = "index" \/ call[d].found = {}
        /\ call[d].refused \subseteq call'[d].refused
  BY <1>1, <1>2 DEF Calls1
<1>7. Calls1(Purges)' \subseteq Calls1(Purges)
  <2> SUFFICES ASSUME NEW d \in Calls1(Purges)' PROVE d \in Calls1(Purges)
    OBVIOUS
  <2>1. CASE d = c
    BY <2>1 DEF Calls1, Purges
  <2> QED
    BY <1>1, <2>1 DEF Calls1, Purges
<1> QED
  BY <1>1, <1>4, <1>5, <1>6, <1>7 DEF IndexQuiet

\* The commands of Redis that leave the index alone.
LEMMA RedisQuiet ==
  ASSUME CallTypes, DataTypes, RedisNext
  PROVE  \/ IndexQuiet
         \/ \E c \in Calls, s \in Sessions : SetRow(c, s)
         \/ \E c \in Calls, u \in Users : SMembers(c, u)
         \/ \E c \in Calls :
              \/ AddToIndex(c) \/ RemoveFromIndex(c)
              \/ PipelineDelRow(c) \/ PipelineKeepsRow(c)
              \/ PipelineDelIndex(c) \/ RedisFails(c)
<1> USE DEF history
<1>14. ASSUME NEW c \in Calls, NEW s, GetRow(c, s) PROVE IndexQuiet
  BY <1>14, EntersQuiet DEF GetRow, tables
<1>1. ASSUME NEW c \in Calls, NEW s, DelNativeKey(c, s) PROVE IndexQuiet
  BY <1>1, EntersQuiet DEF DelNativeKey
<1>2. ASSUME NEW c \in Calls, NEW s, NEW kinds, GetKey(c, s, kinds) PROVE IndexQuiet
  BY <1>2, EntersQuiet DEF GetKey, tables
<1>3. ASSUME NEW c \in Calls, NEW s, NEW key, SetNativeKey(c, s, key) PROVE IndexQuiet
  BY <1>3, EntersQuiet DEF SetNativeKey, SetKey
<1>4. ASSUME NEW c \in Calls, GetLegacyKey(c) \/ DelLegacyKey(c) PROVE IndexQuiet
  <2>1. Answers(c) /\ UNCHANGED <<rows, index, strays>>
    BY <1>4 DEF GetLegacyKey, DelLegacyKey, tables
  <2>2. call[c].op \notin {"setSession", "revokeSession"}
    BY <1>4 DEF GetLegacyKey, DelLegacyKey, At
  <2> QED
    BY <2>1, <2>2, AnswersQuiet
<1>5. ASSUME NEW c \in Calls,
             NEW kind, NEW step \in Steps \ {"index"},
             PipelineDelKey(c, kind, step) \/ PipelineKeepsKey(c, kind, step)
      PROVE  IndexQuiet
  <2>1. call[c] \in Operations /\ call[c] # Null /\ call[c].op = "revokeAllForUser"
    BY SMTT(30), <1>5, AtIsInFlight DEF PipelineDelKey, PipelineKeepsKey
  <2>2. GoesTo(c, step) \/ KeepsKey(c, step)
    BY <1>5 DEF PipelineDelKey, PipelineKeepsKey
  <2>3. UNCHANGED <<rows, index, strays>>
    BY <1>5 DEF PipelineDelKey, PipelineKeepsKey, KeepsKey, tables
  <2> QED
    BY <2>1, <2>2, <2>3, PipelineQuiet
<1>6. ASSUME NEW c \in Calls, PipelineDelLegacy(c) \/ PipelineKeepsLegacy(c)
      PROVE  IndexQuiet
  <2>1. call[c] \in Operations /\ call[c] # Null /\ call[c].op = "revokeAllForUser"
    BY SMTT(30), <1>6, AtIsInFlight DEF PipelineDelLegacy, PipelineKeepsLegacy
  <2>2. GoesTo(c, NextMember(c)) \/ KeepsKey(c, NextMember(c))
    BY <1>6 DEF PipelineDelLegacy, PipelineKeepsLegacy
  <2>3. NextMember(c) \in Steps /\ (NextMember(c) = "index" => call[c].found = {})
    BY DEF NextMember, Steps
  <2>4. UNCHANGED <<rows, index, strays>>
    BY <1>6 DEF PipelineDelLegacy, PipelineKeepsLegacy, KeepsKey, tables
  <2> QED
    BY <2>1, <2>2, <2>3, <2>4, PipelineQuiet
<1>16. ASSUME NEW c \in Calls, PipelineKeepsIndex(c) PROVE IndexQuiet
  <2>1. Answers(c) /\ UNCHANGED <<rows, index, strays>>
    BY <1>16 DEF PipelineKeepsIndex, tables
  <2>2. call[c].op \notin {"setSession", "revokeSession"}
    BY <1>16 DEF PipelineKeepsIndex, At
  <2> QED
    BY <2>1, <2>2, AnswersQuiet
<1>7. ASSUME NEW s, NEW key, SetPolyfillKey(s, key) PROVE IndexQuiet
  BY <1>7, PassesQuiet DEF SetPolyfillKey, SetKey
<1>8. ASSUME NEW s, NEW kinds, DelKeys(s, kinds) PROVE IndexQuiet
  BY <1>8, PassesQuiet DEF DelKeys
<1>9. ASSUME NEW j, NEW s, SetChallengeRow(j, s) PROVE IndexQuiet
  BY <1>9, PassesQuiet DEF SetChallengeRow
<1>10. ASSUME NEW j, EvalConsume(j) PROVE IndexQuiet
  BY <1>10, SameQuiet DEF EvalConsume, callVars
<1>11. CASE Evicts
  BY <1>11, SameQuiet DEF Evicts, callVars
<1>15. ASSUME NEW c \in Calls, DelSession(c) PROVE IndexQuiet
  <2>1. /\ call'[c] = Null
        /\ \A d \in Calls \ {c} : call'[d] = call[d] /\ overlaps'[d] = overlaps[d]
    BY <1>15 DEF DelSession, Answers, CallTypes
  <2>2. /\ rows' = rows \ {call[c].sid} /\ strays' = strays \ {call[c].sid}
        /\ UNCHANGED index
    BY <1>15 DEF DelSession
  <2> QED
    BY <2>1, <2>2 DEF IndexQuiet, Covers, HalfDone, At, Calls1, Writes, Purges
<1>12. ASSUME NEW c \in Calls, RedisCall(c)
       PROVE  \/ IndexQuiet
              \/ \E s \in Sessions : SetRow(c, s)
              \/ \E u \in Users : SMembers(c, u)
  BY <1>1, <1>2, <1>3, <1>12, <1>14 DEF RedisCall
<1>13. ASSUME NEW c \in Calls, RedisCommand(c)
       PROVE  \/ IndexQuiet
              \/ AddToIndex(c) \/ RemoveFromIndex(c)
              \/ PipelineDelRow(c) \/ PipelineKeepsRow(c)
              \/ PipelineDelIndex(c) \/ RedisFails(c)
  <2>1. "bound" \in Steps \ {"index"} /\ "unsuffixed" \in Steps \ {"index"}
    BY DEF Steps
  <2> QED
    BY <1>4, <1>5, <1>6, <1>13, <1>15, <1>16, <2>1 DEF RedisCommand
<1> QED
  BY <1>7, <1>8, <1>9, <1>10, <1>11, <1>12, <1>13 DEF RedisNext

\* SET of setSession: the call covers its session, and a revokeAllForUser in
\* flight has it among what ran beside it.
LEMMA SetRowIndex ==
  ASSUME CallTypes, DataTypes, IndexInv, UNCHANGED backend,
         NEW c \in Calls, NEW s \in Sessions, SetRow(c, s)
  PROVE  IndexInv'
<1> DEFINE o == [op |-> "setSession", sid |-> s, at |-> "sadd"]
<1>1. /\ rows' = rows \cup {s} /\ UNCHANGED <<index, strays>>
      /\ Enters(c, o) /\ backend = "redis"
  BY DEF SetRow, OnRedis, Serves, history
<1>2. /\ call[c] = Null /\ call'[c] = o
      /\ \A d \in Calls \ {c} : call'[d] = call[d] /\ overlaps'[d] = Beside(o)[d]
  BY <1>1 DEF Enters, CallTypes, Beside
<1>3. ASSUME NEW t \in rows' PROVE Reachable(t)'
  <2>1. CASE t = s
    <3>1. o # Null => Covers(c, s)'
      BY <1>2 DEF Covers, HalfDone, At
    <3>2. o # Null
      BY NullIsNoCall DEF Operations, OperationsOn, SessionCalls, Steps
    <3> QED
      BY <2>1, <3>1, <3>2 DEF Covers, Reachable
  <2>2. CASE t # s
    <3>1. Reachable(t)
      BY <1>1, <2>2 DEF IndexInv
    <3>2. \A d \in Calls : Covers(d, t) => Covers(d, t)'
      BY <1>2 DEF Covers, HalfDone, At
    <3> QED
      BY <1>1, <3>1, <3>2 DEF Covers, Reachable
  <2> QED
    BY <2>1, <2>2
<1>4. ASSUME NEW d \in Calls1(Purges)' PROVE Cleared(d)'
  <2>1. d \in Calls1(Purges) /\ d # c
    BY <1>2, <1>4 DEF Calls1, Purges
  <2>2. call'[d] = call[d] /\ overlaps[d] \subseteq overlaps'[d]
        /\ Marks(o) \cap Heeds(call[d]) \subseteq overlaps'[d]
    BY <1>2, <2>1, BesideGrows DEF Calls1
  <2>3. s \in SessionsOf(call[d].user) => <<"session", s>> \in overlaps'[d]
    BY <2>1, <2>2 DEF Marks, Heeds, Calls1, Purges
  <2>4. \A e \in Calls1(Writes)' :
          \/ e \in Calls1(Writes) /\ call[e].sid = call'[e].sid
          \/ call'[e].sid = s
    BY <1>2 DEF Calls1
  <2> QED
    BY <1>1, <2>1, <2>2, <2>3, <2>4, ClearedKept DEF IndexInv
<1> QED
  BY <1>3, <1>4 DEF IndexInv

\* SADD of setSession: what the index gains was written beside every
\* revokeAllForUser in flight.
LEMMA AddToIndexStep ==
  ASSUME CallTypes, DataTypes, IndexInv, UNCHANGED backend,
         NEW c \in Calls, AddToIndex(c)
  PROVE  IndexInv'
<1> DEFINE s == call[c].sid
<1>1. /\ call[c].op = "setSession" /\ c \in Calls1(Writes)
      /\ s \in Sessions /\ UserOf[s] \in Users
  <2>1. At(c, {"setSession"}, "sadd")
    BY DEF AddToIndex
  <2>2. call[c] \in Operations /\ call[c].op = "setSession" /\ call[c] # Null
    BY <2>1, AtIsInFlight
  <2> QED
    BY <2>2, Fields, UserOfAssumption DEF Calls1, Writes, SessionOperations
<1>2. /\ index' = [index EXCEPT ![UserOf[s]] = @ \cup {s}]
      /\ strays' = strays \ {s} /\ UNCHANGED rows /\ Answers(c) /\ backend = "redis"
  BY DEF AddToIndex, OnRedis, Serves
<1>3. /\ call'[c] = Null
      /\ \A d \in Calls \ {c} : call'[d] = call[d] /\ overlaps'[d] = overlaps[d]
  BY <1>2 DEF Answers, CallTypes
<1> HIDE DEF s
<1>4. ASSUME NEW t \in rows' PROVE Reachable(t)'
  <2>1. t \in Sessions /\ UserOf[t] \in Users /\ Reachable(t)
    BY <1>2, UserOfAssumption DEF IndexInv, DataTypes
  <2>2. CASE t = s
    BY <1>1, <1>2, <2>2 DEF Reachable, DataTypes
  <2>3. CASE t # s
    <3>1. \A d \in Calls : Covers(d, t) => Covers(d, t)'
      BY <1>3, <2>3 DEF Covers, HalfDone, At, s
    <3>2. t \in index[UserOf[t]] => t \in index'[UserOf[t]]
      BY <1>1, <1>2, <2>1 DEF DataTypes
    <3> QED
      BY <1>2, <2>1, <2>3, <3>1, <3>2 DEF Covers, Reachable
  <2> QED
    BY <2>2, <2>3
<1>5. ASSUME NEW d \in Calls1(Purges)' PROVE Cleared(d)'
  <2>1. d \in Calls1(Purges) /\ d # c /\ call'[d] = call[d] /\ overlaps'[d] = overlaps[d]
    BY <1>3, <1>5 DEF Calls1, Purges
  <2>2. Cleared(d)
    BY <1>2, <2>1 DEF IndexInv
  <2>3. s \in SessionsOf(call[d].user) => <<"session", s>> \in overlaps[d]
    BY <1>1, <2>2 DEF Cleared, s
  <2>4. call[d].user \in Users
    BY <2>1, Fields DEF Calls1, Purges, CallTypes
  <2>5. \A t \in index'[call[d].user] : t \in index[call[d].user] \/ t = s
    BY <1>1, <1>2, <2>4 DEF DataTypes
  <2>6. \A e \in Calls1(Writes)' : e \in Calls1(Writes) /\ call[e].sid = call'[e].sid
    BY <1>3 DEF Calls1
  <2> QED
    BY <1>2, <2>1, <2>2, <2>3, <2>5, <2>6, ClearedKept
<1> QED
  BY <1>4, <1>5 DEF IndexInv

\* SREM of revokeSession: the call covers its session until DEL.
LEMMA RemoveFromIndexStep ==
  ASSUME CallTypes, DataTypes, IndexInv, UNCHANGED backend,
         NEW c \in Calls, RemoveFromIndex(c)
  PROVE  IndexInv'
<1> DEFINE s == call[c].sid
<1>1. /\ call[c].op = "revokeSession" /\ s \in Sessions /\ UserOf[s] \in Users
      /\ [call[c] EXCEPT !.at = "del"] \in SessionCalls
      /\ [call[c] EXCEPT !.at = "del"].sid = s
      /\ [call[c] EXCEPT !.at = "del"].op = "revokeSession"
      /\ [call[c] EXCEPT !.at = "del"].at = "del"
  <2>1. At(c, {"revokeSession"}, "srem")
    BY DEF RemoveFromIndex
  <2>2. call[c] \in Operations /\ call[c].op = "revokeSession"
    BY <2>1, AtIsInFlight
  <2>3. call[c] \in SessionCalls
    BY <2>2 DEF Operations, OperationsOn, Failed
  <2> QED
    BY <2>2, <2>3, UserOfAssumption DEF SessionCalls, Steps
<1>2. /\ index' = [index EXCEPT ![UserOf[s]] = @ \ {s}]
      /\ UNCHANGED <<rows, strays>> /\ GoesTo(c, "del") /\ backend = "redis"
  BY DEF RemoveFromIndex, OnRedis, Serves, history
<1>3. /\ call'[c] = [call[c] EXCEPT !.at = "del"] /\ UNCHANGED overlaps
      /\ \A d \in Calls \ {c} : call'[d] = call[d]
  BY <1>2 DEF GoesTo, CallTypes
<1> HIDE DEF s
<1>4. ASSUME NEW t \in rows' PROVE Reachable(t)'
  <2>1. t \in Sessions /\ UserOf[t] \in Users /\ Reachable(t)
    BY <1>2, UserOfAssumption DEF IndexInv, DataTypes
  <2>2. CASE t = s
    <3>1. call'[c] # Null
      BY <1>1, <1>3, NullIsNoCall DEF Operations, OperationsOn
    <3>2. HalfDone(c)' /\ call'[c].sid = t
      BY <1>1, <1>3, <2>2, <3>1 DEF HalfDone, At
    <3> QED
      BY <3>2 DEF Reachable
  <2>3. CASE t # s
    <3>1. \A d \in Calls : Covers(d, t) => Covers(d, t)'
      BY <1>3, <2>3 DEF Covers, HalfDone, At, s
    <3>2. t \in index[UserOf[t]] => t \in index'[UserOf[t]]
      BY <1>1, <1>2, <2>1, <2>3 DEF DataTypes
    <3> QED
      BY <1>2, <2>1, <3>1, <3>2 DEF Covers, Reachable
  <2> QED
    BY <2>2, <2>3
<1>5. ASSUME NEW d \in Calls1(Purges)' PROVE Cleared(d)'
  <2>1. d \in Calls1(Purges) /\ call'[d] = call[d]
    BY <1>1, <1>3, <1>5 DEF Calls1, Purges
  <2>2. call[d].user \in Users
    BY <2>1, Fields DEF Calls1, Purges, CallTypes
  <2>3. index'[call[d].user] \subseteq index[call[d].user]
    BY <1>1, <1>2, <2>2 DEF DataTypes
  <2>4. \A e \in Calls1(Writes)' : e \in Calls1(Writes) /\ call[e].sid = call'[e].sid
    BY <1>1, <1>3 DEF Calls1, Writes
  <2> QED
    BY <1>2, <1>3, <2>1, <2>3, <2>4, ClearedKept DEF IndexInv
<1> QED
  BY <1>4, <1>5 DEF IndexInv

\* SMEMBERS: the new call has found all that is in the index, and every
\* setSession in flight is beside it.
LEMMA SMembersStep ==
  ASSUME CallTypes, DataTypes, IndexInv, UNCHANGED backend,
         NEW c \in Calls, NEW u \in Users, SMembers(c, u)
  PROVE  IndexInv'
<1> DEFINE o == [op |-> "revokeAllForUser", user |-> u, sid |-> Null,
                 found |-> index[u], had |-> (rows \cap SessionsOf(u)) \ strays,
                 refused |-> {}, at |-> "row"]
<1>1. UNCHANGED <<rows, index, strays>> /\ Enters(c, o) /\ backend = "redis"
  BY DEF SMembers, OnRedis, Serves, tables, history
<1>2. /\ call[c] = Null /\ call' = [call EXCEPT ![c] = o]
      /\ overlaps' = [Beside(o) EXCEPT ![c] = MarksInFlight \cap Heeds(o)]
  BY <1>1 DEF Enters
<1>3. /\ call'[c] = o /\ overlaps'[c] = MarksInFlight \cap Heeds(o)
      /\ \A d \in Calls \ {c} : call'[d] = call[d] /\ overlaps'[d] = Beside(o)[d]
  BY <1>2 DEF CallTypes, Beside
<1>4. Heeds(o) = ({"session", "challenge", "gone"} \X SessionsOf(u))
                   \cup ({"key"} \X SessionsOf(u) \X Kinds)
  BY DEF Heeds
<1>5. o.user = u /\ o.found = index[u] /\ o.at = "row" /\ o.op = "revokeAllForUser"
  OBVIOUS
<1> HIDE DEF o
<1>6. ASSUME NEW t \in rows' PROVE Reachable(t)'
  <2>1. Reachable(t)
    BY <1>1 DEF IndexInv
  <2>2. \A d \in Calls : Covers(d, t) => Covers(d, t)'
    BY <1>2, <1>3 DEF Covers, HalfDone, At
  <2> QED
    BY <1>1, <2>1, <2>2 DEF Reachable, Covers
<1>7. \A e \in Calls1(Writes)' : e \in Calls1(Writes) /\ e # c /\ call[e].sid = call'[e].sid
  BY <1>3, <1>5 DEF Calls1, Writes
<1>8. ASSUME NEW d \in Calls1(Purges)' PROVE Cleared(d)'
  <2>1. CASE d # c
    <3>1. d \in Calls1(Purges) /\ call'[d] = call[d] /\ overlaps[d] \subseteq overlaps'[d]
      BY <1>3, <1>8, <2>1, BesideGrows DEF Calls1
    <3> QED
      BY <1>1, <1>7, <3>1, ClearedKept DEF IndexInv
  <2>2. CASE d = c
    <3>1. ASSUME NEW e \in Calls1(Writes), call[e].sid \in SessionsOf(u)
          PROVE  <<"session", call[e].sid>> \in overlaps'[c]
      <4>1. <<"session", call[e].sid>> \in Marks(call[e])
        BY DEF Marks, Calls1, Writes
      <4>2. e \in InFlight
        BY DEF Calls1, InFlight
      <4>3. <<"session", call[e].sid>> \in MarksInFlight
        BY <4>1, <4>2 DEF MarksInFlight
      <4> QED
        BY <1>3, <1>4, <3>1, <4>3
    <3> QED
      BY <1>1, <1>3, <1>5, <1>7, <2>2, <3>1 DEF Cleared
  <2> QED
    BY <2>1, <2>2
<1> QED
  BY <1>6, <1>8 DEF IndexInv

\* DEL of a member's row, which is gone then or known to be kept.
LEMMA PipelineRowStep ==
  ASSUME CallTypes, DataTypes, IndexInv, UNCHANGED backend,
         NEW c \in Calls, PipelineDelRow(c) \/ PipelineKeepsRow(c)
  PROVE  IndexInv'
<1>1. PICK s \in call[c].found :
        \/ /\ rows' = rows \ {s}
           /\ call' = [call EXCEPT ![c].at = "native", ![c].sid = s,
                                   ![c].found = @ \ {s}]
           /\ strays' = strays \ {s}
        \/ /\ UNCHANGED <<rows, strays>>
           /\ call' = [call EXCEPT ![c].at = "native", ![c].sid = s,
                                   ![c].found = @ \ {s},
                                   ![c].refused = @ \cup {<<"row", s>>}]
  BY DEF PipelineDelRow, PipelineKeepsRow, tables, history
<1>2. UNCHANGED <<index, overlaps>> /\ backend = "redis"
  BY DEF PipelineDelRow, PipelineKeepsRow, OnRedis, Serves, tables
<1>3. /\ call[c] # Null
      /\ call[c] \in [op : {"revokeAllForUser"}, user : Users, sid : Sessions \cup {Null},
                      found : SUBSET Findable, had : SUBSET Sessions,
                      refused : SUBSET ({"row", "key"} \X (Sessions \cup {Null})),
                      at : Steps]
  <2>1. At(c, {"revokeAllForUser"}, "row")
    BY DEF PipelineDelRow, PipelineKeepsRow
  <2>2. call[c] \in Operations /\ call[c] # Null /\ call[c].op = "revokeAllForUser"
    BY <2>1, AtIsInFlight
  <2> QED
    BY <2>2 DEF Operations, OperationsOn, SessionCalls, Failed
<1>4. /\ call'[c].op = "revokeAllForUser" /\ call'[c].user = call[c].user
      /\ call'[c].found = call[c].found \ {s} /\ call'[c].at = "native"
      /\ call[c].refused \subseteq call'[c].refused
      /\ s \notin rows' \/ <<"row", s>> \in call'[c].refused
      /\ \A d \in Calls \ {c} : call'[d] = call[d]
  <2>1. \/ /\ call'[c] = [call[c] EXCEPT !.at = "native", !.sid = s, !.found = @ \ {s}]
           /\ s \notin rows'
        \/ call'[c] = [call[c] EXCEPT !.at = "native", !.sid = s, !.found = @ \ {s},
                                      !.refused = @ \cup {<<"row", s>>}]
    BY <1>1 DEF CallTypes
  <2>2. \A d \in Calls \ {c} : call'[d] = call[d]
    BY <1>1 DEF CallTypes
  <2>3. CASE call'[c] = [call[c] EXCEPT !.at = "native", !.sid = s, !.found = @ \ {s}]
             /\ s \notin rows'
    BY <1>3, <2>2, <2>3
  <2>4. CASE call'[c] = [call[c] EXCEPT !.at = "native", !.sid = s, !.found = @ \ {s},
                                       !.refused = @ \cup {<<"row", s>>}]
    <3>1. call'[c].refused = call[c].refused \cup {<<"row", s>>}
      BY <1>3, <2>4
    <3>2. /\ call'[c].op = "revokeAllForUser" /\ call'[c].user = call[c].user
          /\ call'[c].found = call[c].found \ {s} /\ call'[c].at = "native"
      BY <1>3, <2>4
    <3> QED
      BY <2>2, <3>1, <3>2
  <2> QED
    BY <2>1, <2>3, <2>4
<1>8. rows' \subseteq rows /\ strays \cap rows' \subseteq strays'
  BY <1>1
<1>5. ASSUME NEW t \in rows' PROVE Reachable(t)'
  <2>1. Reachable(t)
    BY <1>2, <1>8 DEF IndexInv
  <2>2. \A d \in Calls : Covers(d, t) => Covers(d, t)'
    BY <1>3, <1>4 DEF Covers, HalfDone, At
  <2> QED
    BY <1>2, <1>8, <2>1, <2>2 DEF Reachable, Covers
<1>6. \A e \in Calls1(Writes)' : e \in Calls1(Writes) /\ call[e].sid = call'[e].sid
  BY <1>4 DEF Calls1, Writes
<1>7. ASSUME NEW d \in Calls1(Purges)' PROVE Cleared(d)'
  <2>1. d \in Calls1(Purges)
    BY <1>3, <1>4, <1>7 DEF Calls1, Purges
  <2>2. Cleared(d)
    BY <1>2, <2>1 DEF IndexInv
  <2>3. CASE d # c
    <3>1. call'[d] = call[d]
      BY <1>4, <2>1, <2>3 DEF Calls1
    <3> QED
      BY <1>2, <1>6, <1>8, <2>2, <3>1, ClearedKept
  <2>4. CASE d = c
    <3>1. SessionsOf(call'[c].user) = SessionsOf(call[c].user)
      BY <1>4
    <3> QED
      BY <1>2, <1>4, <1>6, <1>8, <2>2, <2>4, <3>1 DEF Cleared
  <2> QED
    BY <2>3, <2>4
<1> QED
  BY <1>5, <1>7 DEF IndexInv

\* DEL of the index: the rows it still lists are strays from now on.
LEMMA PipelineDelIndexStep ==
  ASSUME CallTypes, DataTypes, IndexInv, UNCHANGED backend,
         NEW c \in Calls, PipelineDelIndex(c)
  PROVE  IndexInv'
<1> DEFINE u == call[c].user
<1>1. /\ call[c].op = "revokeAllForUser" /\ call[c].at = "index"
      /\ u \in Users /\ c \in Calls1(Purges)
  <2>1. At(c, {"revokeAllForUser"}, "index")
    BY DEF PipelineDelIndex
  <2>2. call[c] \in Operations /\ call[c] # Null /\ call[c].op = "revokeAllForUser"
    BY <2>1, AtIsInFlight
  <2> QED
    BY <2>1, <2>2, Fields DEF At, Calls1, Purges
<1>2. /\ index' = [index EXCEPT ![u] = {}]
      /\ strays' = strays \cup {s \in index[u] : \/ <<"session", s>> \in overlaps[c]
                                               \/ <<"row", s>> \in call[c].refused}
      /\ UNCHANGED rows /\ Answers(c) /\ backend = "redis"
  BY DEF PipelineDelIndex, OnRedis, Serves
<1>3. /\ call'[c] = Null
      /\ \A d \in Calls \ {c} : call'[d] = call[d] /\ overlaps'[d] = overlaps[d]
  BY <1>2 DEF Answers, CallTypes
<1>4. Cleared(c)
  BY <1>1, <1>2 DEF IndexInv
<1>5. ASSUME NEW t \in rows' PROVE Reachable(t)'
  <2>1. t \in rows /\ t \in Sessions /\ UserOf[t] \in Users /\ Reachable(t)
    BY <1>2, UserOfAssumption DEF IndexInv, DataTypes
  <2>2. CASE t \in index[UserOf[t]] /\ UserOf[t] = u
    <3>1. t \in SessionsOf(u) /\ call[c].found = {}
      BY <1>1, <1>4, <2>1, <2>2 DEF SessionsOf, Cleared
    <3>2. <<"session", t>> \in overlaps[c] \/ <<"row", t>> \in call[c].refused
      BY <1>4, <2>1, <2>2, <3>1 DEF Cleared
    <3> QED
      BY <1>2, <2>2, <3>2 DEF Reachable
  <2>3. CASE t \in index[UserOf[t]] /\ UserOf[t] # u
    BY <1>2, <2>1, <2>3 DEF Reachable, DataTypes
  <2>4. CASE t \in strays
    BY <1>2, <2>4 DEF Reachable
  <2>5. CASE \E d \in Calls : Covers(d, t)
    <3>1. PICK d \in Calls : Covers(d, t)
      BY <2>5
    <3>2. d # c
      BY <1>1, <3>1 DEF Covers, HalfDone, At
    <3>3. Covers(d, t)'
      BY <1>3, <3>1, <3>2 DEF Covers, HalfDone, At
    <3> QED
      BY <3>3 DEF Reachable, Covers
  <2> QED
    BY <2>1, <2>2, <2>3, <2>4, <2>5 DEF Reachable, Covers
<1>6. ASSUME NEW d \in Calls1(Purges)' PROVE Cleared(d)'
  <2>1. d \in Calls1(Purges) /\ call'[d] = call[d] /\ overlaps'[d] = overlaps[d]
    BY <1>3, <1>6 DEF Calls1
  <2>2. call[d].user \in Users
    BY <2>1, Fields DEF Calls1, Purges, CallTypes
  <2>3. index'[call[d].user] \subseteq index[call[d].user]
    BY <1>1, <1>2, <2>2 DEF DataTypes
  <2>4. \A e \in Calls1(Writes)' : e \in Calls1(Writes) /\ call[e].sid = call'[e].sid
    BY <1>3 DEF Calls1
  <2> QED
    BY <1>2, <2>1, <2>3, <2>4, ClearedKept DEF IndexInv
<1> QED
  BY <1>5, <1>6 DEF IndexInv

\* A call that is cut leaves its session a stray if it covered it.
LEMMA RedisFailsStep ==
  ASSUME CallTypes, DataTypes, IndexInv, UNCHANGED backend,
         NEW c \in Calls, RedisFails(c)
  PROVE  IndexInv'
<1>1. /\ strays' = IF HalfDone(c)
                   THEN strays \cup ({call[c].sid} \ index[UserOf[call[c].sid]])
                   ELSE strays
      /\ UNCHANGED <<rows, index>> /\ Throws(c) /\ backend = "redis"
  BY DEF RedisFails, Fails, OnRedis, Serves, tables
<1>2. /\ call'[c] = Failed
      /\ \A d \in Calls \ {c} : call'[d] = call[d] /\ overlaps'[d] = overlaps[d]
  BY <1>1 DEF Throws, CallTypes
<1>3. ASSUME NEW t \in rows' PROVE Reachable(t)'
  <2>1. Reachable(t)
    BY <1>1 DEF IndexInv
  <2>2. CASE t \in index[UserOf[t]] \/ t \in strays
    BY <1>1, <2>2 DEF Reachable
  <2>3. CASE t \notin index[UserOf[t]] /\ Covers(c, t)
    BY <1>1, <2>3 DEF Covers, Reachable
  <2>4. CASE \E d \in Calls \ {c} : Covers(d, t)
    <3>1. PICK d \in Calls \ {c} : Covers(d, t)
      BY <2>4
    <3>2. Covers(d, t)'
      BY <1>2, <3>1 DEF Covers, HalfDone, At
    <3> QED
      BY <3>2 DEF Reachable, Covers
  <2> QED
    BY <2>1, <2>2, <2>3, <2>4 DEF Reachable, Covers
<1>4. ASSUME NEW d \in Calls1(Purges)' PROVE Cleared(d)'
  <2>1. d \in Calls1(Purges) /\ call'[d] = call[d] /\ overlaps'[d] = overlaps[d]
    BY <1>2, <1>4 DEF Calls1, Purges, Failed
  <2>2. \A e \in Calls1(Writes)' : e \in Calls1(Writes) /\ call[e].sid = call'[e].sid
    BY <1>2 DEF Calls1, Writes, Failed
  <2> QED
    BY <1>1, <2>1, <2>2, ClearedKept DEF IndexInv
<1> QED
  BY <1>3, <1>4 DEF IndexInv

LEMMA IndexStep ==
  ASSUME CallTypes, DataTypes, IndexInv, [Next]_vars
  PROVE  IndexInv'
<1>1. UNCHANGED backend
  BY NextDeployment
<1>2. CASE backend # "redis"
  BY <1>1, <1>2 DEF IndexInv
<1>3. CASE IndexQuiet
  BY <1>1, <1>3, IndexQuietStep
<1>4. CASE RedisNext
  BY <1>1, <1>3, <1>4, RedisQuiet, SetRowIndex, SMembersStep, AddToIndexStep,
     RemoveFromIndexStep, PipelineRowStep, PipelineDelIndexStep, RedisFailsStep
<1>5. CASE PostgresNext \/ BetterAuthNext
  BY <1>2, <1>5, PostgresServes, BetterAuthServes
     DEF OnPostgres, OnBetterAuth, Serves, Postgres, BetterAuth
<1>6. CASE Expires
  BY <1>3, <1>6, SameQuiet DEF Expires, history, callVars
<1>7. CASE \E c \in Calls : GivesUp(c)
  <2>1. PICK c \in Calls : GivesUp(c)
    BY <1>7
  <2>2. IndexQuiet
    BY <2>1, AnswersQuiet DEF GivesUp, Failed, tables, history
  <2> QED
    BY <1>3, <2>2
<1>8. CASE (\E b \in Boots : Starts(b)) \/ UNCHANGED vars
  BY <1>3, <1>8, SameQuiet DEF Starts, vars, tables, history, callVars
<1> QED
  BY <1>4, <1>5, <1>6, <1>7, <1>8 DEF Next

LEMMA IndexInit == Init => IndexInv
BY DEF Init, CallsInit, IndexInv, Calls1

\* The row of a Redis session is in the index of its user, where
\* revokeAllForUser finds it, but for the sessions a call is at work on and the
\* strays that a cut call, or an index deleted over them, has left: they had
\* come to it since SMEMBERS, or the DEL of their row had failed
\* (setSession, deleteSession and revokeAllForUser of RedisStorage).
THEOREM IndexFindsRows == Spec => []IndexComplete
<1> DEFINE Inv == CallTypes /\ DataTypes /\ IndexInv
<1>1. Init => Inv
  BY TypesInit, IndexInit
<1>2. Inv /\ [Next]_vars => Inv'
  BY TypesStep, IndexStep
<1>3. Inv => IndexComplete
  BY DEF IndexInv, IndexComplete
<1> QED
  BY <1>1, <1>2, <1>3, PTL DEF Spec
=============================================================================
