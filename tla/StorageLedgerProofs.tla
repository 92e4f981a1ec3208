-------------------------- MODULE StorageLedgerProofs --------------------------
(***************************************************************************)
(* The durable storages keep what ChallengeLedger promises of challenges.  *)
(* Where consumeChallenge is one command that finds and uses up a row, the *)
(* storages under any interleaving of calls, migrations, expiry, eviction  *)
(* and failures implement the ledger that DbscServer implements over the   *)
(* memory storage: a challenge is issued once, accepted at most once, for  *)
(* the session it was issued to, and does not come back to life.           *)
(***************************************************************************)
EXTENDS StorageProofs

-----------------------------------------------------------------------------
(***************************************************************************)
(* The mapping.                                                            *)
(***************************************************************************)

\* RedisStorage, PostgresStorage, and Better Auth with consumeVerificationValue.
AtomicConsume == backend \notin {"betterAuthDelete", "betterAuthFind"}

\* A consumeChallenge would be answered true: only the UPDATE of PostgreSQL
\* looks at the expiry, a row of Redis or Better Auth is consumed as long as it
\* is there.
Live(j) ==
  \/ challenges[j].state = "open"
  \/ backend \notin Postgres /\ challenges[j].state = "expired"

StoredPhase ==
  [j \in Jtis |-> IF Unissued(j) THEN "fresh"
                  ELSE IF told[j] > 0 THEN "accepted"
                  ELSE IF Live(j) THEN "open" ELSE "dead"]

StoredOwner == [j \in Jtis |-> challenges[j].sid]

Stored == INSTANCE ChallengeLedger
            WITH SessionIds <- Sessions,
                 phase <- StoredPhase, owner <- StoredOwner, accepts <- told

-----------------------------------------------------------------------------
(***************************************************************************)
(* The invariant.                                                          *)
(***************************************************************************)

\* A challenge that was stored is of a session.
OwnerOfIssued ==
  \A j \in Jtis : ~Unissued(j) => challenges[j].sid \in Sessions

\* A revokeAllForUser of PostgreSQL has found no challenge that is yet to be
\* issued, so that its COMMIT drops none.
HoldsIssued ==
  backend \in Postgres =>
    \A c \in Calls, j \in Jtis : <<"challenge", j>> \in HeldBy(c) => ~Unissued(j)

LedgerInv ==
  /\ CallTypes /\ DataTypes /\ ConsumeInv /\ ConsumedOnce
  /\ OwnerOfIssued /\ HoldsIssued

LEMMA LedgerInvInit == Init => LedgerInv
<1> SUFFICES ASSUME Init PROVE OwnerOfIssued /\ HoldsIssued
  BY TypesInit, ConsumeInit DEF LedgerInv
<1> QED
  BY DEF Init, CallsInit, OwnerOfIssued, HoldsIssued, Unissued, HeldBy

-----------------------------------------------------------------------------
(***************************************************************************)
(* What a step does to the challenges: it answers no consumeChallenge and  *)
(* at most lets rows go, it stores one, or it answers one.                 *)
(***************************************************************************)

Withers(j) ==
  \/ challenges'[j] = challenges[j]
  \/ /\ ~Unissued(j)
     /\ challenges'[j].sid = challenges[j].sid
     /\ \/ challenges'[j].state = "gone"
        \/ challenges[j].state = "open" /\ challenges'[j].state = "expired"

Quiet == UNCHANGED told /\ \A j \in Jtis : Withers(j)

Issues(j, s) == Unissued(j) /\ StoreChallenge(j, s) /\ UNCHANGED told

Tells(j) ==
  /\ Live(j)
  /\ \E spent \in {"consumed", "gone"} :
       challenges' = [challenges EXCEPT ![j].state = spent]
  /\ Tell(j)

LedgerStep ==
  \/ Quiet
  \/ \E j \in Jtis, s \in Sessions : Issues(j, s)
  \/ \E j \in Jtis : Tells(j)

LEMMA SameQuietly ==
  ASSUME UNCHANGED <<told, challenges>>
  PROVE  Quiet
BY DEF Quiet, Withers

LEMMA RedisLedgerStep ==
  ASSUME DataTypes, RedisNext
  PROVE  LedgerStep
<1>1. ASSUME NEW c \in Calls, RedisCall(c) PROVE UNCHANGED <<told, challenges>>
  BY <1>1 DEF RedisCall, SetRow, GetRow, DelNativeKey, GetKey, SetNativeKey, SetKey,
              SMembers, tables, history
<1>2. ASSUME NEW c \in Calls, RedisCommand(c) PROVE UNCHANGED <<told, challenges>>
  BY <1>2 DEF RedisCommand, AddToIndex, RemoveFromIndex, DelSession, GetLegacyKey,
              DelLegacyKey, PipelineDelRow, PipelineDelKey, PipelineDelLegacy,
              PipelineDelIndex, PipelineKeepsRow, PipelineKeepsKey,
              PipelineKeepsLegacy, PipelineKeepsIndex, KeepsKey, RedisFails, tables, history
<1>3. ASSUME NEW s \in Sessions,
             \/ \E key \in Keys : SetPolyfillKey(s, key)
             \/ \E kinds \in KindSets : DelKeys(s, kinds)
      PROVE  UNCHANGED <<told, challenges>>
  BY <1>3 DEF SetPolyfillKey, SetKey, DelKeys, history
<1>4. ASSUME NEW s \in Sessions, NEW j \in Jtis, SetChallengeRow(j, s) PROVE Issues(j, s)
  BY <1>4 DEF SetChallengeRow, Issues, history
<1>5. ASSUME NEW j \in Jtis, EvalConsume(j) PROVE Tells(j)
  BY <1>5 DEF EvalConsume, Tells, Live, OnRedis, Serves, Postgres
<1>6. CASE Evicts
  <2>1. CASE UNCHANGED challenges
    BY <1>6, <2>1, SameQuietly DEF Evicts, LedgerStep
  <2>2. ASSUME NEW j \in Jtis, challenges[j].state \in {"expired", "consumed"},
               challenges' = [challenges EXCEPT ![j].state = "gone"]
        PROVE  Quiet
    BY <1>6, <2>2 DEF Evicts, Quiet, Withers, Unissued, DataTypes
  <2> QED
    BY <1>6, <2>1, <2>2 DEF Evicts, LedgerStep
<1> QED
  BY <1>1, <1>2, <1>3, <1>4, <1>5, <1>6, SameQuietly DEF RedisNext, LedgerStep

\* What a statement of PostgreSQL deletes is stored.
LEMMA DropsQuietly ==
  ASSUME DataTypes, NEW R, \A j \in Jtis : <<"challenge", j>> \in R => ~Unissued(j),
         DropRows(R), UNCHANGED told
  PROVE  Quiet
<1> SUFFICES ASSUME NEW j \in Jtis PROVE Withers(j)
  BY DEF Quiet
<1>1. challenges'[j] = IF <<"challenge", j>> \in R
                       THEN [challenges[j] EXCEPT !.state = "gone"] ELSE challenges[j]
  BY DEF DropRows
<1> QED
  BY <1>1 DEF Withers, DataTypes

LEMMA CascadeIssued ==
  ASSUME NEW S, NEW j \in Jtis, <<"challenge", j>> \in Cascade(S)
  PROVE  ~Unissued(j)
<1>1. <<"challenge", j>> \in ChallengeRows(S)
  BY DEF Cascade, SessionRows, KeyRows
<1> QED
  BY <1>1 DEF ChallengeRows, Unissued

LEMMA PostgresLedgerStep ==
  ASSUME CallTypes, DataTypes, HoldsIssued, PostgresNext
  PROVE  LedgerStep
<1>1. ASSUME NEW c \in Calls, PostgresCommand(c) PROVE Quiet
  <2>1. CASE Commit(c)
    <3>1. call[c] # Null /\ call[c].op = "revokeAllForUser" /\ backend \in Postgres
      BY <2>1 DEF Commit, At, OnPostgres, Serves
    <3>2. \A j \in Jtis : <<"challenge", j>> \in call[c].found => ~Unissued(j)
      BY <3>1 DEF HoldsIssued, HeldBy
    <3> QED
      BY <2>1, <3>2, DropsQuietly DEF Commit, history
  <2>2. CASE ~Commit(c)
    <3>1. UNCHANGED <<told, challenges>>
      BY <1>1, <2>2 DEF PostgresCommand, DeleteUserChallenges, DeleteUserKeys,
                        DeleteUserSessions, AlsoDeletes, RollsBack, tables, history
    <3> QED
      BY <3>1, SameQuietly
  <2> QED
    BY <2>1, <2>2
<1>2. ASSUME NEW s \in Sessions,
             \/ UpsertSession(s)
             \/ \E kind \in Kinds, key \in Keys : UpsertKey(s, kind, key)
      PROVE  UNCHANGED <<told, challenges>>
  BY <1>2 DEF UpsertSession, UpsertKey, history
<1>3. ASSUME NEW s \in Sessions, DeleteSession(s) PROVE Quiet
  BY <1>3, CascadeIssued, DropsQuietly DEF DeleteSession, history
<1>4. ASSUME NEW s \in Sessions, NEW kinds, DeleteKeys(s, kinds) PROVE Quiet
  BY <1>4, DropsQuietly DEF DeleteKeys, history
<1>5. ASSUME NEW s \in Sessions, NEW j \in Jtis, InsertChallenge(j, s) PROVE Issues(j, s)
  BY <1>5 DEF InsertChallenge, Issues, history
<1>6. ASSUME NEW j \in Jtis, UpdateChallenge(j) PROVE Tells(j)
  BY <1>6 DEF UpdateChallenge, Tells, Live
<1> QED
  BY <1>1, <1>2, <1>3, <1>4, <1>5, <1>6, SameQuietly DEF PostgresNext, LedgerStep

LEMMA BetterAuthLedgerStep ==
  ASSUME CallTypes, ConsumeInv, AtomicConsume, BetterAuthNext
  PROVE  LedgerStep
<1>1. ASSUME NEW c \in Calls, BetterAuthCall(c) PROVE UNCHANGED <<told, challenges>>
  <2>1. \A j \in Jtis : ~FindVerification(c, j)
    BY DEF FindVerification, AtomicConsume
  <2> QED
    BY <1>1, <2>1 DEF BetterAuthCall, FindSession, RevokeKeys, FindNativeKey,
                      FindKeyToSet, FindUserSessions, tables, history
<1>2. ASSUME NEW c \in Calls, BetterAuthCommand(c) PROVE UNCHANGED <<told, challenges>>
  <2>1. ~DeleteVerification(c)
    <3> SUFFICES ASSUME DeleteVerification(c) PROVE FALSE
      OBVIOUS
    <3>1. c \in Calls1(Consumes) /\ call[c].jti \in Jtis
      BY AtIsInFlight, Fields DEF DeleteVerification, Calls1, Consumes
    <3> QED
      BY <3>1 DEF ConsumeInv, AtomicConsume
  <2> QED
    BY <1>2, <2>1 DEF BetterAuthCommand, UpdateSession, CreateSession, RevokeRow, DropRow,
                      FindBoundKey, UpdateKey, CreateKey, RevokeUserKeys,
                      RevokeUserSessions, DatabaseFails, tables, history
<1>3. ASSUME NEW s \in Sessions,
             DeleteSessionRow(s) \/ \E kinds \in KindSets : DeleteKeyRows(s, kinds)
      PROVE  UNCHANGED <<told, challenges>>
  BY <1>3 DEF DeleteSessionRow, DropRow, DeleteKeyRows, history
<1>4. ASSUME NEW s \in Sessions, NEW j \in Jtis, CreateVerification(j, s)
      PROVE  Issues(j, s)
  BY <1>4 DEF CreateVerification, Issues, history
<1>5. ASSUME NEW j \in Jtis, ConsumeVerification(j) PROVE Tells(j)
  BY <1>5 DEF ConsumeVerification, RemoveVerification, Present, Tells, Live, Postgres
<1> QED
  BY <1>1, <1>2, <1>3, <1>4, <1>5, SameQuietly DEF BetterAuthNext, LedgerStep

LEMMA NextLedgerStep ==
  ASSUME LedgerInv, AtomicConsume, [Next]_vars
  PROVE  LedgerStep
<1>1. CASE RedisNext
  BY <1>1, RedisLedgerStep DEF LedgerInv
<1>2. CASE PostgresNext
  BY <1>2, PostgresLedgerStep DEF LedgerInv
<1>3. CASE BetterAuthNext
  BY <1>3, BetterAuthLedgerStep DEF LedgerInv
<1>4. CASE Expires
  <2>1. PICK j \in Jtis : /\ challenges[j].state = "open"
                          /\ challenges' = [challenges EXCEPT ![j].state = "expired"]
    BY <1>4 DEF Expires
  <2>2. \A i \in Jtis : Withers(i)
    BY <2>1 DEF Withers, Unissued, LedgerInv, DataTypes
  <2> QED
    BY <1>4, <2>2 DEF Expires, Quiet, LedgerStep, history
<1>5. CASE (\E c \in Calls : GivesUp(c)) \/ (\E b \in Boots : Starts(b)) \/ UNCHANGED vars
  <2>1. UNCHANGED <<told, challenges>>
    BY <1>5 DEF GivesUp, Starts, vars, tables, history
  <2> QED
    BY <2>1, SameQuietly DEF LedgerStep
<1> QED
  BY <1>1, <1>2, <1>3, <1>4, <1>5 DEF Next

-----------------------------------------------------------------------------
(***************************************************************************)
(* The invariant is kept.                                                  *)
(***************************************************************************)

LEMMA OwnerStep ==
  ASSUME DataTypes, OwnerOfIssued, LedgerStep
  PROVE  OwnerOfIssued'
<1>1. CASE Quiet
  BY <1>1 DEF Quiet, Withers, OwnerOfIssued, Unissued
<1>2. ASSUME NEW j \in Jtis, NEW s \in Sessions, Issues(j, s) PROVE OwnerOfIssued'
  BY <1>2 DEF Issues, StoreChallenge, OwnerOfIssued, Unissued, DataTypes
<1>3. ASSUME NEW j \in Jtis, Tells(j) PROVE OwnerOfIssued'
  BY <1>3 DEF Tells, Live, OwnerOfIssued, Unissued, DataTypes
<1> QED
  BY <1>1, <1>2, <1>3 DEF LedgerStep

\* A step that holds no challenge but issued ones keeps HoldsIssued.
HoldsNoMore ==
  \A c \in Calls, j \in Jtis :
    <<"challenge", j>> \in HeldBy(c)' => <<"challenge", j>> \in HeldBy(c) \/ ~Unissued(j)

LEMMA StaysIssued ==
  ASSUME DataTypes, LedgerStep, NEW j \in Jtis, ~Unissued(j)
  PROVE  ~Unissued(j)'
<1>1. CASE Quiet
  BY <1>1 DEF Quiet, Withers, Unissued
<1>2. ASSUME NEW i \in Jtis, NEW s \in Sessions, Issues(i, s) PROVE ~Unissued(j)'
  BY <1>2 DEF Issues, StoreChallenge, Unissued, DataTypes
<1>3. ASSUME NEW i \in Jtis, Tells(i) PROVE ~Unissued(j)'
  BY <1>3 DEF Tells, Unissued, DataTypes
<1> QED
  BY <1>1, <1>2, <1>3 DEF LedgerStep

LEMMA EndsHolding ==
  ASSUME CallTypes, NEW c \in Calls, Answers(c) \/ Throws(c)
  PROVE  HoldsNoMore
BY DEF HoldsNoMore, HeldBy, Answers, Throws, Failed, CallTypes

LEMMA PostgresHolds ==
  ASSUME CallTypes, PostgresNext
  PROVE  HoldsNoMore
<1>1. CASE UNCHANGED call
  BY <1>1 DEF HoldsNoMore, HeldBy
<1>2. ASSUME NEW c \in Calls, NEW u \in Users, DeleteUserChallenges(c, u)
      PROVE  HoldsNoMore
  <2> DEFINE R == ChallengeRows(StoredSessionsOf(u))
  <2>1. \A d \in Calls : HeldBy(d)' \subseteq HeldBy(d) \cup R
    BY <1>2 DEF DeleteUserChallenges, Enters, HeldBy, CallTypes
  <2>2. \A j \in Jtis : <<"challenge", j>> \in R => ~Unissued(j)
    BY DEF ChallengeRows, Unissued
  <2> QED
    BY <2>1, <2>2 DEF HoldsNoMore
<1>3. ASSUME NEW c \in Calls, DeleteUserKeys(c) \/ DeleteUserSessions(c)
      PROVE  HoldsNoMore
  <2>1. PICK step, next, R :
          /\ AlsoDeletes(c, step, next, R)
          /\ \A j \in Jtis : <<"challenge", j>> \in R => ~Unissued(j)
    <3>1. \A S : \A j \in Jtis : <<"challenge", j>> \notin KeyRows(S)
      BY DEF KeyRows
    <3> QED
      BY <1>3, <3>1, CascadeIssued DEF DeleteUserKeys, DeleteUserSessions
  <2>2. call[c] \in Operations /\ call[c] # Null /\ call[c].op = "revokeAllForUser"
    BY <2>1, AtIsInFlight DEF AlsoDeletes
  <2>3. /\ call'[c].found = call[c].found \cup R
        /\ \A d \in Calls \ {c} : call'[d] = call[d]
    BY <2>1, <2>2 DEF AlsoDeletes, CallTypes, SessionCalls, Operations, OperationsOn, Failed
  <2>4. \A d \in Calls : HeldBy(d)' \subseteq HeldBy(d) \cup R
    BY <2>2, <2>3 DEF HeldBy
  <2> QED
    BY <2>1, <2>4 DEF HoldsNoMore
<1>4. ASSUME NEW c \in Calls, Commit(c) \/ RollsBack(c) PROVE HoldsNoMore
  BY <1>4, EndsHolding DEF Commit, RollsBack, Fails
<1> QED
  BY <1>1, <1>2, <1>3, <1>4
     DEF PostgresNext, PostgresCommand, UpsertSession, DeleteSession, UpsertKey,
         DeleteKeys, InsertChallenge, UpdateChallenge, Passes, callVars

LEMMA HoldsStep ==
  ASSUME CallTypes, DataTypes, HoldsIssued, LedgerStep, [Next]_vars
  PROVE  HoldsIssued'
<1> SUFFICES ASSUME backend' \in Postgres PROVE HoldsIssued'
  BY DEF HoldsIssued
<1>1. backend \in Postgres
  BY NextDeployment
<1>2. HoldsNoMore
  <2>1. ~RedisNext /\ ~BetterAuthNext
    BY <1>1, RedisServes, BetterAuthServes
       DEF OnRedis, OnBetterAuth, Serves, Postgres, BetterAuth
  <2>2. CASE PostgresNext
    BY <2>2, PostgresHolds
  <2>3. CASE \E c \in Calls : GivesUp(c)
    BY <2>3, EndsHolding DEF GivesUp
  <2>4. CASE Expires \/ (\E b \in Boots : Starts(b)) \/ UNCHANGED vars
    <3>1. UNCHANGED call
      BY <2>4 DEF Expires, Starts, vars, callVars
    <3> QED
      BY <3>1 DEF HoldsNoMore, HeldBy
  <2> QED
    BY <2>1, <2>2, <2>3, <2>4 DEF Next
<1> QED
  BY <1>1, <1>2, StaysIssued DEF HoldsIssued, HoldsNoMore

LEMMA LedgerInvStep ==
  ASSUME LedgerInv, AtomicConsume, [Next]_vars
  PROVE  LedgerInv' /\ AtomicConsume'
<1>1. LedgerStep
  BY NextLedgerStep
<1>2. AtomicConsume'
  BY NextDeployment DEF AtomicConsume
<1>3. CallTypes' /\ DataTypes' /\ ConsumeInv' /\ ConsumedOnce'
  BY TypesStep, ConsumeStep DEF LedgerInv
<1>4. OwnerOfIssued' /\ HoldsIssued'
  BY <1>1, OwnerStep, HoldsStep DEF LedgerInv
<1> QED
  BY <1>2, <1>3, <1>4 DEF LedgerInv

-----------------------------------------------------------------------------
(***************************************************************************)
(* Every step is one of the ledger.                                        *)
(***************************************************************************)

LEMMA QuietIsDeath ==
  ASSUME LedgerInv, Quiet, UNCHANGED backend
  PROVE  \E J \in SUBSET Jtis : Stored!Die(J)
<1> DEFINE J == {j \in Jtis : StoredPhase[j] = "open" /\ ~Live(j)'}
<1>1. UNCHANGED told /\ \A j \in Jtis : Withers(j)
  BY DEF Quiet
<1>2. StoredPhase' = [j \in Jtis |-> IF j \in J THEN "dead" ELSE StoredPhase[j]]
  <2> SUFFICES ASSUME NEW j \in Jtis
               PROVE  StoredPhase'[j] = IF j \in J THEN "dead" ELSE StoredPhase[j]
    BY DEF StoredPhase
  <2>1. CASE challenges'[j] = challenges[j]
    BY <1>1, <2>1 DEF StoredPhase, Live, Unissued
  <2>2. CASE challenges'[j] # challenges[j]
    <3>1. /\ ~Unissued(j) /\ ~Unissued(j)'
          /\ Live(j)' => Live(j)
      BY <1>1, <2>2 DEF Withers, Unissued, Live
    <3> QED
      BY <1>1, <3>1 DEF StoredPhase
  <2> QED
    BY <2>1, <2>2
<1>3. UNCHANGED StoredOwner
  BY <1>1 DEF Withers, StoredOwner
<1>4. \A j \in J : StoredPhase[j] = "open"
  OBVIOUS
<1>5. Stored!Die(J)
  BY <1>1, <1>2, <1>3, <1>4 DEF Stored!Die
<1> QED
  BY <1>5

LEMMA IssuesIsIssue ==
  ASSUME LedgerInv, AtomicConsume, NEW j \in Jtis, NEW s \in Sessions, Issues(j, s),
         UNCHANGED backend
  PROVE  Stored!Issue(j, s)
<1>1. /\ Unissued(j) /\ UNCHANGED told
      /\ challenges'[j] = [sid |-> s, state |-> "open"]
      /\ \A i \in Jtis \ {j} : challenges'[i] = challenges[i]
  BY DEF Issues, StoreChallenge, LedgerInv, DataTypes
<1>2. ~(told[j] > 0)
  <2>1. told[j] \in 0..2 /\ ~(told[j] >= 1)
    BY <1>1 DEF LedgerInv, ConsumeInv, AtomicConsume, Unissued, DataTypes
  <2> QED
    BY <2>1
<1>3. StoredPhase[j] = "fresh" /\ StoredPhase'[j] = "open"
  BY <1>1, <1>2 DEF StoredPhase, Unissued, Live
<1>4. \A i \in Jtis \ {j} : StoredPhase'[i] = StoredPhase[i]
  BY <1>1 DEF StoredPhase, Unissued, Live
<1>5. StoredPhase' = [StoredPhase EXCEPT ![j] = "open"]
  BY <1>3, <1>4 DEF StoredPhase
<1>6. StoredOwner' = [StoredOwner EXCEPT ![j] = s]
  <2>1. challenges'[j].sid = s
    BY <1>1
  <2> QED
    BY <1>1, <2>1 DEF StoredOwner
<1> QED
  BY <1>1, <1>3, <1>5, <1>6 DEF Stored!Issue

LEMMA TellsIsAccept ==
  ASSUME LedgerInv, AtomicConsume, NEW j \in Jtis, Tells(j), UNCHANGED backend
  PROVE  \E s \in Sessions : Stored!Accept(j, s)
<1> DEFINE s == challenges[j].sid
<1>1. /\ Live(j) /\ Tell(j)
      /\ challenges'[j].sid = challenges[j].sid
      /\ challenges'[j].state \in {"consumed", "gone"}
      /\ \A i \in Jtis \ {j} : challenges'[i] = challenges[i]
  BY DEF Tells, LedgerInv, DataTypes
<1>2. ~Unissued(j) /\ ~Unissued(j)'
  BY <1>1 DEF Live, Unissued
<1>3. told[j] = 0
  <2>1. told[j] \in 0..2 /\ ~(told[j] >= 1)
    BY <1>1 DEF LedgerInv, ConsumeInv, AtomicConsume, Live, DataTypes
  <2> QED
    BY <2>1
<1>4. told' = [told EXCEPT ![j] = 1]
  BY <1>1, <1>3 DEF Tell, LedgerInv, DataTypes
<1>5. told'[j] = 1 /\ \A i \in Jtis \ {j} : told'[i] = told[i]
  BY <1>4 DEF LedgerInv, DataTypes
<1>6. StoredPhase[j] = "open" /\ StoredPhase'[j] = "accepted"
  BY <1>1, <1>2, <1>3, <1>5 DEF StoredPhase
<1>7. \A i \in Jtis \ {j} : StoredPhase'[i] = StoredPhase[i]
  BY <1>1, <1>5 DEF StoredPhase, Unissued, Live
<1>8. StoredPhase' = [StoredPhase EXCEPT ![j] = "accepted"]
  BY <1>6, <1>7 DEF StoredPhase
<1>9. s \in Sessions /\ StoredOwner[j] = s /\ UNCHANGED StoredOwner
  BY <1>1, <1>2 DEF StoredOwner, LedgerInv, OwnerOfIssued
<1>10. Stored!Accept(j, s)
  BY <1>4, <1>6, <1>8, <1>9 DEF Stored!Accept
<1> QED
  BY <1>9, <1>10

LEMMA StepIsStored ==
  ASSUME LedgerInv, AtomicConsume, [Next]_vars
  PROVE  Stored!Next
<1>1. LedgerStep /\ UNCHANGED backend
  BY NextLedgerStep, NextDeployment
<1> QED
  BY <1>1, QuietIsDeath, IssuesIsIssue, TellsIsAccept DEF LedgerStep, Stored!Next

\* Whatever the storage, its calls in flight, its failures and its expiry: where
\* consumeChallenge is atomic (RedisStorage's script, PostgresStorage's UPDATE,
\* consumeVerificationValue of Better Auth), a challenge is issued once, to one
\* session, is accepted at most once, for that session, and is not open again
\* once it was accepted, expired or dropped.
THEOREM ChallengesStored == Spec /\ AtomicConsume => Stored!Spec
<1> DEFINE Inv == LedgerInv /\ AtomicConsume
<1>1. Init /\ AtomicConsume => Inv
  BY LedgerInvInit
<1>2. Inv /\ [Next]_vars => Inv'
  BY LedgerInvStep
<1>3. Init => Stored!Init
  <2> SUFFICES ASSUME Init PROVE Stored!Init
    OBVIOUS
  <2> QED
    BY DEF Init, CallsInit, Stored!Init, StoredPhase, StoredOwner, Unissued
<1>4. Inv /\ [Next]_vars => [Stored!Next]_(Stored!ledgerVars)
  BY StepIsStored
<1> QED
  BY <1>1, <1>2, <1>3, <1>4, PTL DEF Spec, Stored!Spec
=============================================================================
