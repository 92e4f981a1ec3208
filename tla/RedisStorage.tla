---------------------------- MODULE RedisStorage ----------------------------
(***************************************************************************)
(* RedisStorage (src/storage/redis/index.ts).  Every action is one command *)
(* the client sends; the Lua script of consumeChallenge is one command,    *)
(* the pipeline of revokeAllForUser is not.  A SET with EX drops the row   *)
(* some time after its expiresAt (whole seconds, at least one); key rows   *)
(* and the user's index never expire.                                      *)
(***************************************************************************)
EXTENDS StorageCalls

OnRedis == Serves({"redis"})

\* Bug: a row that is written again is not put back into the index.
SetRowOnly(c, s) ==
  /\ OnRedis
  /\ rows' = rows \cup {s}
  /\ Passes([op |-> "setSession", sid |-> s])
  /\ UNCHANGED <<keys, legacy, index, challenges, history>>

\* setSession: SET, then SADD.
SetRow(c, s) ==
  /\ OnRedis
  /\ rows' = rows \cup {s}
  /\ Enters(c, [op |-> "setSession", sid |-> s, at |-> "sadd"])
  /\ UNCHANGED <<keys, legacy, index, challenges, history>>

AddToIndex(c) ==
  LET s == call[c].sid IN
  /\ OnRedis
  /\ At(c, {"setSession"}, "sadd")
  /\ index' = [index EXCEPT ![UserOf[s]] = @ \cup {s}]
  /\ strays' = strays \ {s}
  /\ Answers(c)
  /\ UNCHANGED <<rows, keys, legacy, challenges, told, rivals>>

\* deleteSession, which is all that revokeSession does: GET; SREM only if the
\* row is still there (its userId names the set); DEL.
GetRow(c, s) ==
  /\ OnRedis
  /\ Enters(c, [op |-> "revokeSession", sid |-> s,
                at |-> IF s \in rows THEN "srem" ELSE "del"])
  /\ UNCHANGED <<tables, history>>

RemoveFromIndex(c) ==
  LET s == call[c].sid IN
  /\ OnRedis
  /\ At(c, {"revokeSession"}, "srem")
  /\ index' = [index EXCEPT ![UserOf[s]] = @ \ {s}]
  /\ GoesTo(c, "del")
  /\ UNCHANGED <<rows, keys, legacy, challenges, history>>

\* Bug: DEL names the keys of v2.6 only.
DelSessionKeepsBound(c) ==
  LET s == call[c].sid IN
  /\ OnRedis
  /\ At(c, {"revokeSession"}, "del")
  /\ rows' = rows \ {s}
  /\ keys' = NoKeys(s, {"native"})
  /\ legacy' = [legacy EXCEPT ![s] = Null]
  /\ strays' = strays \ {s}
  /\ Answers(c)
  /\ UNCHANGED <<index, challenges, told, rivals>>

DelSession(c) ==
  LET s == call[c].sid IN
  /\ OnRedis
  /\ At(c, {"revokeSession"}, "del")
  /\ rows' = rows \ {s}
  /\ keys' = [keys EXCEPT ![s] = [kind \in Kinds |-> {}]]
  /\ legacy' = [legacy EXCEPT ![s] = Null]
  /\ strays' = strays \ {s}
  /\ Answers(c)
  /\ UNCHANGED <<index, challenges, told, rivals>>

\* Bug: the bound half of MGET's answer is not looked at.
GetNativeOnly(c, s, kinds) ==
  /\ OnRedis
  /\ "native" \in kinds /\ keys[s]["native"] = {}
  /\ Enters(c, [op |-> "getBoundKey", sid |-> s, kinds |-> kinds,
                had |-> HasKey(s, kinds), at |-> "legacy"])
  /\ UNCHANGED <<tables, history>>

\* getBoundKey: GET (or MGET of both kinds) and, only when a native key is
\* asked for and none was found, GET of the v2.6 row.
GetKey(c, s, kinds) ==
  /\ OnRedis
  /\ "native" \in kinds /\ \A kind \in kinds : keys[s][kind] = {}
  /\ Enters(c, [op |-> "getBoundKey", sid |-> s, kinds |-> kinds,
                had |-> HasKey(s, kinds), at |-> "legacy"])
  /\ UNCHANGED <<tables, history>>

GetLegacyKey(c) ==
  /\ OnRedis
  /\ At(c, {"getBoundKey"}, "legacy")
  /\ Answers(c)
  /\ UNCHANGED <<tables, history>>

\* setBoundKey: SET, then DEL of the v2.6 row for a native key.
SetKey(s, kind, key) ==
  /\ OnRedis
  /\ keys' = [keys EXCEPT ![s][kind] = {key}]
  /\ UNCHANGED <<rows, legacy, index, challenges, history>>

SetNativeKey(c, s, key) ==
  /\ SetKey(s, "native", key)
  /\ Enters(c, [op |-> "setBoundKey", sid |-> s, kind |-> "native", key |-> key,
                at |-> "legacyDel"])

SetPolyfillKey(s, key) ==
  /\ SetKey(s, "bound", key)
  /\ Passes([op |-> "setBoundKey", sid |-> s, kind |-> "bound"])

\* deleteBoundKey: one DEL, of all keys or of the bound one; two for native.
DelKeys(s, kinds) ==
  /\ OnRedis
  /\ kinds # {"native"}
  /\ keys' = NoKeys(s, kinds)
  /\ legacy' = IF kinds = Kinds THEN [legacy EXCEPT ![s] = Null] ELSE legacy
  /\ Passes([op |-> "deleteBoundKey", sid |-> s])
  /\ UNCHANGED <<rows, index, challenges, history>>

DelNativeKey(c, s) ==
  /\ OnRedis
  /\ keys' = NoKeys(s, {"native"})
  /\ Enters(c, [op |-> "deleteBoundKey", sid |-> s, at |-> "legacyDel"])
  /\ UNCHANGED <<rows, legacy, index, challenges, history>>

DelLegacyKey(c) ==
  /\ OnRedis
  /\ At(c, {"setBoundKey", "deleteBoundKey"}, "legacyDel")
  /\ legacy' = [legacy EXCEPT ![call[c].sid] = Null]
  /\ Answers(c)
  /\ UNCHANGED <<rows, keys, index, challenges, history>>

SetChallengeRow(j, s) ==
  /\ OnRedis
  /\ Unissued(j)
  /\ StoreChallenge(j, s)
  /\ Passes([op |-> "setChallenge", sid |-> s])
  /\ UNCHANGED <<rows, keys, legacy, index, history>>

\* CONSUME_CHALLENGE_SCRIPT: atomic, and blind to expiresAt as long as the
\* row is there.
EvalConsume(j) ==
  /\ OnRedis
  /\ challenges[j].state \in {"open", "expired"}
  /\ challenges' = [challenges EXCEPT ![j].state = "consumed"]
  /\ Tell(j)
  /\ UNCHANGED <<rows, keys, legacy, index, callVars, rivals, strays>>

\* revokeAllForUser: SMEMBERS, then a pipeline of DELs (four for each member)
\* that ends with the DEL of the index itself.  exec() resolves with a pair of
\* error and result for each command and the method drops them: a DEL answered
\* with an error, or cut off with its connection, keeps its row (..Keeps..),
\* those after it may still run, and the method returns as if all had.
SMembers(c, u) ==
  /\ OnRedis
  /\ index[u] # {}
  /\ Enters(c, [op |-> "revokeAllForUser", user |-> u, sid |-> Null,
                found |-> index[u], had |-> (rows \cap SessionsOf(u)) \ strays,
                refused |-> {}, at |-> "row"])
  /\ UNCHANGED <<tables, history>>

PipelineDelRow(c) ==
  /\ OnRedis
  /\ At(c, {"revokeAllForUser"}, "row")
  /\ \E s \in call[c].found :
       /\ rows' = rows \ {s}
       /\ call' = [call EXCEPT ![c].at = "native", ![c].sid = s,
                               ![c].found = @ \ {s}]
       /\ strays' = strays \ {s}
  /\ UNCHANGED <<keys, legacy, index, challenges, told, rivals, overlaps>>

\* The row stays; that a DEL of nothing fails is of no consequence.
PipelineKeepsRow(c) ==
  /\ OnRedis
  /\ At(c, {"revokeAllForUser"}, "row")
  /\ \E s \in call[c].found \cap rows :
       call' = [call EXCEPT ![c].at = "native", ![c].sid = s,
                            ![c].found = @ \ {s},
                            ![c].refused = @ \cup {<<"row", s>>}]
  /\ UNCHANGED <<tables, history, overlaps>>

PipelineDelKey(c, kind, next) ==
  /\ OnRedis
  /\ At(c, {"revokeAllForUser"}, kind)
  /\ keys' = NoKeys(call[c].sid, {kind})
  /\ GoesTo(c, next)
  /\ UNCHANGED <<rows, legacy, index, challenges, history>>

KeepsKey(c, next) ==
  /\ call' = [call EXCEPT ![c].at = next,
                          ![c].refused = @ \cup {<<"key", call[c].sid>>}]
  /\ UNCHANGED <<tables, history, overlaps>>

PipelineKeepsKey(c, kind, next) ==
  /\ OnRedis
  /\ At(c, {"revokeAllForUser"}, kind)
  /\ keys[call[c].sid][kind] # {}
  /\ KeepsKey(c, next)

NextMember(c) == IF call[c].found = {} THEN "index" ELSE "row"

PipelineDelLegacy(c) ==
  /\ OnRedis
  /\ At(c, {"revokeAllForUser"}, "unsuffixed")
  /\ legacy' = [legacy EXCEPT ![call[c].sid] = Null]
  /\ GoesTo(c, NextMember(c))
  /\ UNCHANGED <<rows, keys, index, challenges, history>>

PipelineKeepsLegacy(c) ==
  /\ OnRedis
  /\ At(c, {"revokeAllForUser"}, "unsuffixed")
  /\ legacy[call[c].sid] # Null
  /\ KeepsKey(c, NextMember(c))

\* The index goes whole: a session that was added to it since SMEMBERS, or
\* whose own DEL failed, is stored and no longer found.
PipelineDelIndex(c) ==
  LET u == call[c].user IN
  /\ OnRedis
  /\ At(c, {"revokeAllForUser"}, "index")
  /\ index' = [index EXCEPT ![u] = {}]
  /\ strays' = strays \cup {s \in index[u] : \/ <<"session", s>> \in overlaps[c]
                                          \/ <<"row", s>> \in call[c].refused}
  /\ Answers(c)
  /\ UNCHANGED <<rows, keys, legacy, challenges, told, rivals>>

PipelineKeepsIndex(c) ==
  /\ OnRedis
  /\ At(c, {"revokeAllForUser"}, "index")
  /\ Answers(c)
  /\ UNCHANGED <<tables, history>>

\* The row of the session and its place in the index are not in step.
HalfDone(c) == At(c, {"setSession"}, "sadd") \/ At(c, {"revokeSession"}, "del")

\* A command fails and its await throws: those sent so far stand.  A setSession
\* cut before SADD and a revokeSession cut between SREM and DEL leave a row
\* outside the index.  A revokeAllForUser that has read its members never throws.
RedisFails(c) ==
  /\ OnRedis
  /\ call[c] # Null /\ call[c].op # "revokeAllForUser"
  /\ strays' =
       IF HalfDone(c)
       THEN strays \cup ({call[c].sid} \ index[UserOf[call[c].sid]])
       ELSE strays
  /\ Fails(c)
  /\ UNCHANGED <<tables, told, rivals>>

\* EX has run out.
Evicts ==
  /\ OnRedis
  /\ \/ /\ \E s \in rows : rows' = rows \ {s} /\ strays' = strays \ {s}
        /\ UNCHANGED challenges
     \/ /\ \E j \in Jtis :
             /\ challenges[j].state \in {"expired", "consumed"}
             /\ challenges' = [challenges EXCEPT ![j].state = "gone"]
        /\ UNCHANGED <<rows, strays>>
  /\ UNCHANGED <<keys, legacy, index, told, rivals, callVars>>

RedisCall(c) ==
  \/ \E s \in Sessions :
       \/ SetRow(c, s) \/ GetRow(c, s) \/ DelNativeKey(c, s)
       \/ \E kinds \in KindSets : GetKey(c, s, kinds)
       \/ \E key \in Keys : SetNativeKey(c, s, key)
  \/ \E u \in Users : SMembers(c, u)

RedisCommand(c) ==
  \/ AddToIndex(c)
  \/ RemoveFromIndex(c) \/ DelSession(c)
  \/ GetLegacyKey(c) \/ DelLegacyKey(c)
  \/ PipelineDelRow(c) \/ PipelineKeepsRow(c)
  \/ PipelineDelKey(c, "native", "bound") \/ PipelineKeepsKey(c, "native", "bound")
  \/ PipelineDelKey(c, "bound", "unsuffixed")
  \/ PipelineKeepsKey(c, "bound", "unsuffixed")
  \/ PipelineDelLegacy(c) \/ PipelineKeepsLegacy(c)
  \/ PipelineDelIndex(c) \/ PipelineKeepsIndex(c)
  \/ RedisFails(c)

RedisNext ==
  \/ \E c \in Calls : RedisCall(c) \/ RedisCommand(c)
  \/ \E s \in Sessions :
       \/ \E key \in Keys : SetPolyfillKey(s, key)
       \/ \E kinds \in KindSets : DelKeys(s, kinds)
       \/ \E j \in Jtis : SetChallengeRow(j, s)
  \/ \E j \in Jtis : EvalConsume(j)
  \/ Evicts
=============================================================================
