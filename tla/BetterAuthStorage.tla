------------------------- MODULE BetterAuthStorage -------------------------
(***************************************************************************)
(* createBetterAuthStorageAdapter (packages/better-auth/src/adapter.ts):   *)
(* the storage methods over Better Auth's own database adapter, which has  *)
(* find, create, update and delete and neither upsert nor transaction.     *)
(* Session ids are the primary key of their table; key rows have an id of  *)
(* their own, so nothing stops two rows of one session and kind.           *)
(***************************************************************************)
EXTENDS StorageCalls

OnBetterAuth == Serves(BetterAuth)

\* A call that has company is remembered with it.
EntersBeside(c, o) ==
  /\ Enters(c, o)
  /\ rivals' = rivals \cup (Marks(o) \cap MarksInFlight)

\* setSession: findOne, then update or create.
FindSession(c, s) ==
  /\ OnBetterAuth
  /\ Enters(c, [op |-> "setSession", sid |-> s,
                at |-> IF s \in rows THEN "update" ELSE "create"])
  /\ UNCHANGED <<tables, history>>

\* An update that matches no row writes nothing and is no error.
UpdateSession(c) ==
  /\ OnBetterAuth
  /\ At(c, {"setSession"}, "update")
  /\ Answers(c)
  /\ UNCHANGED <<tables, history>>

CreateSession(c) ==
  LET s == call[c].sid IN
  /\ OnBetterAuth
  /\ At(c, {"setSession"}, "create")
  /\ IF s \notin rows THEN rows' = rows \cup {s} /\ Answers(c)
     ELSE UNCHANGED rows /\ Throws(c)
  /\ UNCHANGED <<keys, legacy, index, challenges, history>>

\* The schema lets dbscBoundKey.sessionId reference the session row: a database
\* that enforces this drops the keys with the row, one that does not keeps them.
DropRow(s) ==
  /\ OnBetterAuth
  /\ rows' = rows \ {s}
  /\ keys' \in {keys, NoKeys(s, Kinds)}
  /\ UNCHANGED <<legacy, index, challenges, history>>

DeleteSessionRow(s) ==
  /\ DropRow(s)
  /\ Passes([op |-> "deleteSession", sid |-> s])

\* revokeSession: the keys, then the row.
RevokeKeys(c, s) ==
  /\ OnBetterAuth
  /\ keys' = NoKeys(s, Kinds)
  /\ Enters(c, [op |-> "revokeSession", sid |-> s, at |-> "session"])
  /\ UNCHANGED <<rows, legacy, index, challenges, history>>

RevokeRow(c) ==
  /\ At(c, {"revokeSession"}, "session")
  /\ DropRow(call[c].sid)
  /\ Answers(c)

\* getBoundKey: one findOne for a kind; native and then bound without one.
FindNativeKey(c, s) ==
  /\ OnBetterAuth
  /\ keys[s]["native"] = {}
  /\ Enters(c, [op |-> "getBoundKey", sid |-> s, kinds |-> Kinds,
                had |-> HasKey(s, Kinds), at |-> "bound"])
  /\ UNCHANGED <<tables, history>>

FindBoundKey(c) ==
  /\ OnBetterAuth
  /\ At(c, {"getBoundKey"}, "bound")
  /\ Answers(c)
  /\ UNCHANGED <<tables, history>>

\* setBoundKey: findOne, then update (of every row it matches) or create.
FindKeyToSet(c, s, kind, key) ==
  /\ OnBetterAuth
  /\ EntersBeside(c, [op |-> "setBoundKey", sid |-> s, kind |-> kind, key |-> key,
                      at |-> IF keys[s][kind] = {} THEN "create" ELSE "update"])
  /\ UNCHANGED <<tables, told, strays>>

\* Bug: a row is created whatever findOne found.
CreateAlways(c) ==
  /\ OnBetterAuth
  /\ At(c, {"setBoundKey"}, "update")
  /\ keys' = [keys EXCEPT ![call[c].sid][call[c].kind] = @ \cup {call[c].key}]
  /\ Answers(c)
  /\ UNCHANGED <<rows, legacy, index, challenges, history>>

UpdateKey(c) ==
  /\ OnBetterAuth
  /\ At(c, {"setBoundKey"}, "update")
  /\ keys' = [keys EXCEPT ![call[c].sid][call[c].kind] =
                IF @ = {} THEN {} ELSE {call[c].key}]
  /\ Answers(c)
  /\ UNCHANGED <<rows, legacy, index, challenges, history>>

CreateKey(c) ==
  /\ OnBetterAuth
  /\ At(c, {"setBoundKey"}, "create")
  /\ keys' = [keys EXCEPT ![call[c].sid][call[c].kind] = @ \cup {call[c].key}]
  /\ Answers(c)
  /\ UNCHANGED <<rows, legacy, index, challenges, history>>

DeleteKeyRows(s, kinds) ==
  /\ OnBetterAuth
  /\ keys' = NoKeys(s, kinds)
  /\ Passes([op |-> "deleteBoundKey", sid |-> s])
  /\ UNCHANGED <<rows, legacy, index, challenges, history>>

CreateVerification(j, s) ==
  /\ OnBetterAuth
  /\ Unissued(j)
  /\ StoreChallenge(j, s)
  /\ Passes([op |-> "setChallenge", sid |-> s])
  /\ UNCHANGED <<rows, keys, legacy, index, history>>

\* A verification row is found past its expiry as well; consuming deletes it.
Present(j) == challenges[j].state \in {"open", "expired"}

RemoveVerification(j) ==
  challenges' = IF Present(j) THEN [challenges EXCEPT ![j].state = "gone"]
                ELSE challenges

\* consumeChallenge: consumeVerificationValue deletes the row and answers it,
\* once.
ConsumeVerification(j) ==
  /\ OnBetterAuth
  /\ backend = "betterAuth"
  /\ Present(j)
  /\ RemoveVerification(j)
  /\ Tell(j)
  /\ UNCHANGED <<rows, keys, legacy, index, callVars, rivals, strays>>

\* Without it: find, then delete by row id if there is such a method, and
\* `true` whatever the delete has found.
FindVerification(c, j) ==
  /\ OnBetterAuth
  /\ Present(j)
  /\ \/ /\ backend = "betterAuthDelete"
        /\ EntersBeside(c, [op |-> "consumeChallenge", jti |-> j, at |-> "delete"])
        /\ UNCHANGED told
     \/ /\ backend = "betterAuthFind"
        /\ Tell(j)
        /\ UNCHANGED <<callVars, rivals>>
  /\ UNCHANGED <<tables, strays>>

DeleteVerification(c) ==
  LET j == call[c].jti IN
  /\ OnBetterAuth
  /\ At(c, {"consumeChallenge"}, "delete")
  /\ RemoveVerification(j)
  /\ Tell(j)
  /\ Answers(c)
  /\ UNCHANGED <<rows, keys, legacy, index, rivals, strays>>

\* revokeAllForUser: findMany, then the keys of one session after the other,
\* then the user's sessions at once.
FindUserSessions(c, u) ==
  LET stored == rows \cap SessionsOf(u) IN
  /\ OnBetterAuth
  /\ Enters(c, [op |-> "revokeAllForUser", user |-> u, sid |-> Null,
                found |-> stored, had |-> stored, refused |-> {},
                at |-> IF stored = {} THEN "sessions" ELSE "keys"])
  /\ UNCHANGED <<tables, history>>

\* Bug: each session's row goes with its keys.
RevokeUserRowsBeside(c) ==
  /\ OnBetterAuth
  /\ At(c, {"revokeAllForUser"}, "keys")
  /\ \E s \in call[c].found :
       /\ keys' = NoKeys(s, Kinds) /\ rows' = rows \ {s}
       /\ call' = [call EXCEPT
                     ![c].at = IF call[c].found = {s} THEN "sessions" ELSE "keys",
                     ![c].found = @ \ {s}]
  /\ UNCHANGED <<legacy, index, challenges, history, overlaps>>

RevokeUserKeys(c) ==
  /\ OnBetterAuth
  /\ At(c, {"revokeAllForUser"}, "keys")
  /\ \E s \in call[c].found :
       /\ keys' = NoKeys(s, Kinds)
       /\ call' = [call EXCEPT
                     ![c].at = IF call[c].found = {s} THEN "sessions" ELSE "keys",
                     ![c].found = @ \ {s}]
  /\ UNCHANGED <<rows, legacy, index, challenges, history, overlaps>>

RevokeUserSessions(c) ==
  LET gone == SessionsOf(call[c].user) IN
  /\ OnBetterAuth
  /\ At(c, {"revokeAllForUser"}, "sessions")
  /\ rows' = rows \ gone
  /\ keys' \in {keys, [s \in Sessions |->
                        IF s \in gone THEN [kind \in Kinds |-> {}] ELSE keys[s]]}
  /\ Answers(c)
  /\ UNCHANGED <<legacy, index, challenges, history>>

\* The database fails before the next command: those sent stand.
DatabaseFails(c) ==
  /\ OnBetterAuth
  /\ Fails(c)
  /\ UNCHANGED <<tables, history>>

BetterAuthCall(c) ==
  \/ \E s \in Sessions :
       \/ FindSession(c, s) \/ RevokeKeys(c, s) \/ FindNativeKey(c, s)
       \/ \E kind \in Kinds, key \in Keys : FindKeyToSet(c, s, kind, key)
  \/ \E j \in Jtis : FindVerification(c, j)
  \/ \E u \in Users : FindUserSessions(c, u)

BetterAuthCommand(c) ==
  \/ UpdateSession(c) \/ CreateSession(c) \/ RevokeRow(c)
  \/ FindBoundKey(c) \/ UpdateKey(c) \/ CreateKey(c)
  \/ DeleteVerification(c)
  \/ RevokeUserKeys(c) \/ RevokeUserSessions(c)
  \/ DatabaseFails(c)

BetterAuthNext ==
  \/ \E c \in Calls : BetterAuthCall(c) \/ BetterAuthCommand(c)
  \/ \E s \in Sessions :
       \/ DeleteSessionRow(s)
       \/ \E kinds \in KindSets : DeleteKeyRows(s, kinds)
       \/ \E j \in Jtis : CreateVerification(j, s)
  \/ \E j \in Jtis : ConsumeVerification(j)
=============================================================================
