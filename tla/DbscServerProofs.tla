-------------------------- MODULE DbscServerProofs --------------------------
(***************************************************************************)
(* The safety properties of DbscServer hold for every number of sessions,  *)
(* keys, challenges, requests in flight and for every deployment.          *)
(*                                                                         *)
(* No property is inductive alone.  What makes them so is what a handler   *)
(* carries from one await to the next (ReqInv): the challenge it checked   *)
(* is the session's own, the key it verifies under was registered, and the *)
(* row it is going to write is as justified as the rows that are stored    *)
(* (RowInv).  All of this only ever grows truer: issuedTo, registered,     *)
(* provenAt and boundAt are history and never shrink.                      *)
(***************************************************************************)
EXTENDS DbscServer, TLAPS

-----------------------------------------------------------------------------
\* The inductive invariant.

\* A row says no more than what was proven for its session.
RowInv(s, row) ==
  /\ TierProven(s, row)
  /\ row.lastRefreshAt <= provenAt[s]
  /\ row.expiresAt <= boundAt[s] + SessionTtl

\* A handler has compared the owner of the challenge.
HasChecked(q) ==
  \/ q.pc \in {"consume", "burn"}
  \/ q.pc = "readKey" /\ q.op \in {"registration", "boundRegistration"}

\* A handler has seen a key of its kind, or is about to store the first one.
HasKey(q) ==
  \/ q.op \in {"refresh", "boundRefresh"}
  \/ /\ q.op \in {"registration", "boundRegistration"}
     /\ q.pc \notin {"readKey", "consume"}

\* A handler holds the key it verifies under, or will store.
HoldsKey(q) ==
  \/ q.pc = "writeKey"
  \/ q.op \in {"refresh", "boundRefresh"} /\ q.pc \in {"readChallenge", "consume"}

ReqInv(q) ==
  q # Idle =>
    /\ q.sid \in SessionIds
    /\ q.at <= provenAt[q.sid]
    /\ q.pc = "writeKey" => q.op \in {"registration", "boundRegistration"}
    /\ q.pc \in {"readChallenge"} => q.jti \in Jtis
    /\ HasChecked(q) => q.jti \in Jtis /\ issuedTo[q.jti] = q.sid
    /\ HasKey(q) => registered[q.sid][KindOf(q.op)] # {}
    /\ HoldsKey(q) => q.key \in registered[q.sid][KindOf(q.op)]
    /\ q.pc \in {"readNative", "writeSession", "writeDemoted"} => q.draft \in Session
    /\ q.draft # Null => RowInv(q.sid, q.draft)

RequestsInv == \A r \in Requests : ReqInv(req[r])

RowsInv == \A s \in SessionIds : sessions[s] # Null => RowInv(s, sessions[s])

ChallengesInv ==
  \A j \in Jtis :
    /\ challenges[j] # Null => challenges[j].sessionId = issuedTo[j]
    /\ accepts[j] > 0 => issuedTo[j] # Null /\ ~Consumable(j)

ClocksInv == \A s \in SessionIds : provenAt[s] <= now /\ boundAt[s] <= now

IInv ==
  /\ TypeOK /\ SingleUse /\ KeyProvenance
  /\ RequestsInv /\ RowsInv /\ ChallengesInv /\ ClocksInv

-----------------------------------------------------------------------------
\* What every action does, part by part.  An action that takes such a step
\* preserves IInv, whatever handler it is of.

HistoryStep ==
  /\ now' \in Time /\ now <= now'
  /\ issuedTo' \in [Jtis -> Optional(SessionIds)]
  /\ registered' \in [SessionIds -> [Kinds -> SUBSET Keys]]
  /\ provenAt' \in [SessionIds -> Time]
  /\ boundAt' \in [SessionIds -> Time]
  /\ \A j \in Jtis : issuedTo[j] # Null => issuedTo'[j] = issuedTo[j]
  /\ \A s \in SessionIds :
       /\ \A kind \in Kinds : registered[s][kind] \subseteq registered'[s][kind]
       /\ provenAt[s] <= provenAt'[s] /\ provenAt'[s] <= now'
       /\ boundAt[s] <= boundAt'[s] /\ boundAt'[s] <= now'

RequestsStep ==
  /\ req' \in [Requests -> RequestState]
  /\ \A r \in Requests : req'[r] = req[r] \/ ReqInv(req[r])'

RowsStep ==
  /\ sessions' \in [SessionIds -> Optional(Session)]
  /\ \A s \in SessionIds :
       sessions'[s] # Null /\ sessions'[s] # sessions[s] => RowInv(s, sessions[s])'

KeysStep ==
  /\ keys' \in [SessionIds -> [Kinds -> Optional(Keys)]]
  /\ \A s \in SessionIds, kind \in Kinds :
       keys'[s][kind] \in {keys[s][kind], Null} \cup registered[s][kind]

\* Challenges are read (an expired one is dropped) or lost with the process.
LoseChallenges ==
  /\ \A j \in Jtis : challenges'[j] \in {challenges[j], Null}
  /\ UNCHANGED <<issuedTo, accepts>>

IssueTo(j, s) ==
  /\ issuedTo[j] = Null
  /\ issuedTo' = [issuedTo EXCEPT ![j] = s]
  /\ \E c \in Challenge :
       /\ c.sessionId = s /\ ~c.consumed
       /\ challenges' = [challenges EXCEPT ![j] = c]
  /\ UNCHANGED accepts

Consume(j) ==
  /\ Consumable(j)
  /\ challenges' = [challenges EXCEPT ![j].consumed = TRUE]
  /\ UNCHANGED issuedTo

AcceptOver(j) ==
  /\ Consume(j)
  /\ accepts' = [accepts EXCEPT ![j] = @ + 1]
  /\ \E r \in Requests :
       /\ req[r].pc = "consume" /\ req[r].jti = j /\ req[r].sid = issuedTo[j]
       /\ req[r].op \in {"refresh", "boundRefresh"} =>
            req[r].key \in registered[req[r].sid][KindOf(req[r].op)]

ChallengesStep ==
  /\ challenges' \in [Jtis -> Optional(Challenge)]
  /\ accepts' \in [Jtis -> Nat]
  /\ \/ LoseChallenges
     \/ \E j \in Jtis, s \in SessionIds : IssueTo(j, s)
     \/ \E j \in Jtis : Consume(j) /\ UNCHANGED accepts
     \/ \E j \in Jtis : AcceptOver(j)

SafeStep == HistoryStep /\ RequestsStep /\ RowsStep /\ KeysStep /\ ChallengesStep

-----------------------------------------------------------------------------
\* A safe step preserves the invariant.

\* RowInv of the given row in the next state.
RowAfter(s, row) ==
  /\ row.tier = "dbsc" => registered'[s]["native"] # {}
  /\ row.tier = "bound" => registered'[s]["bound"] # {}
  /\ row.lastRefreshAt <= provenAt'[s]
  /\ row.expiresAt <= boundAt'[s] + SessionTtl

\* What was proven stays proven: a row is never less justified later.
LEMMA RowGrows ==
  ASSUME IInv, HistoryStep,
         NEW s \in SessionIds, NEW row \in Session, RowInv(s, row)
  PROVE  RowAfter(s, row)
<1>1. "native" \in Kinds /\ "bound" \in Kinds
  BY DEF Kinds
<1>2. /\ row.lastRefreshAt \in Int /\ row.expiresAt \in Int
      /\ provenAt[s] \in Int /\ provenAt'[s] \in Int
      /\ boundAt[s] \in Int /\ boundAt'[s] \in Int /\ SessionTtl \in Int
  BY TimesAssumption DEF IInv, TypeOK, HistoryStep, Session, Time
<1>3. /\ row.tier = "dbsc" => registered'[s]["native"] # {}
      /\ row.tier = "bound" => registered'[s]["bound"] # {}
  BY <1>1 DEF HistoryStep, RowInv, TierProven
<1>4. provenAt[s] <= provenAt'[s] /\ boundAt[s] <= boundAt'[s]
  BY DEF HistoryStep
<1> QED
  BY <1>2, <1>3, <1>4 DEF RowInv, RowAfter

\* What a waiting handler relies on is not taken from it.
LEMMA ReqGrows ==
  ASSUME IInv, HistoryStep, NEW r \in Requests, req'[r] = req[r]
  PROVE  ReqInv(req[r])'
<1> DEFINE q == req[r]
<1>1. /\ q \in RequestState /\ ReqInv(q)
      /\ req'[r] = q
  BY DEF IInv, TypeOK, RequestsInv
<1> SUFFICES ASSUME q # Idle
             PROVE  /\ q.sid \in SessionIds
                    /\ q.at <= provenAt'[q.sid]
                    /\ q.pc = "writeKey" => q.op \in {"registration", "boundRegistration"}
                    /\ q.pc \in {"readChallenge"} => q.jti \in Jtis
                    /\ HasChecked(q) => q.jti \in Jtis /\ issuedTo'[q.jti] = q.sid
                    /\ HasKey(q) => registered'[q.sid][KindOf(q.op)] # {}
                    /\ HoldsKey(q) => q.key \in registered'[q.sid][KindOf(q.op)]
                    /\ q.pc \in {"readNative", "writeSession", "writeDemoted"}
                         => q.draft \in Session
                    /\ q.draft # Null => RowAfter(q.sid, q.draft)
  BY <1>1 DEF ReqInv, RowInv, RowAfter, TierProven, HasChecked, HasKey, HoldsKey
<1>2. q.sid \in SessionIds
  BY <1>1 DEF ReqInv
<1>3. q.at <= provenAt'[q.sid]
  <2>1. /\ q.at \in Int /\ provenAt[q.sid] \in Int /\ provenAt'[q.sid] \in Int
    BY <1>1, <1>2 DEF RequestState, IInv, TypeOK, HistoryStep, Time
  <2>2. q.at <= provenAt[q.sid] /\ provenAt[q.sid] <= provenAt'[q.sid]
    BY <1>1, <1>2 DEF ReqInv, HistoryStep
  <2> QED
    BY <2>1, <2>2
<1>4. HasChecked(q) => q.jti \in Jtis /\ issuedTo'[q.jti] = q.sid
  <2>1. HasChecked(q) => q.jti \in Jtis /\ issuedTo[q.jti] = q.sid
    BY <1>1 DEF ReqInv
  <2> QED
    BY <2>1, <1>2, NullAssumption DEF HistoryStep
<1>5. /\ HasKey(q) => registered'[q.sid][KindOf(q.op)] # {}
      /\ HoldsKey(q) => q.key \in registered'[q.sid][KindOf(q.op)]
  <2>1. KindOf(q.op) \in Kinds
    BY DEF KindOf, Kinds
  <2>2. registered[q.sid][KindOf(q.op)] \subseteq registered'[q.sid][KindOf(q.op)]
    BY <2>1, <1>2 DEF HistoryStep
  <2>3. /\ HasKey(q) => registered[q.sid][KindOf(q.op)] # {}
        /\ HoldsKey(q) => q.key \in registered[q.sid][KindOf(q.op)]
    BY <1>1 DEF ReqInv
  <2> QED
    BY <2>2, <2>3
<1>6. q.draft # Null => RowAfter(q.sid, q.draft)
  <2> SUFFICES ASSUME q.draft # Null
               PROVE  RowAfter(q.sid, q.draft)
    OBVIOUS
  <2>1. q.draft \in Session /\ RowInv(q.sid, q.draft)
    BY <1>1 DEF ReqInv, RequestState, Optional
  <2> QED
    BY <2>1, <1>2, RowGrows
<1> QED
  BY <1>1, <1>2, <1>3, <1>4, <1>5, <1>6 DEF ReqInv

\* Rows stay justified: the history they rest on only grows.
LEMMA SafeStepRows ==
  ASSUME IInv, HistoryStep, RowsStep
  PROVE  RowsInv'
<1> SUFFICES ASSUME NEW s \in SessionIds, sessions'[s] # Null
             PROVE  RowInv(s, sessions[s])'
  BY DEF RowsInv
<1>1. CASE sessions'[s] # sessions[s]
  BY <1>1 DEF RowsStep
<1>2. CASE sessions'[s] = sessions[s]
  <2>1. sessions[s] \in Session
    BY <1>2 DEF IInv, TypeOK, StorageTypeOK, Optional
  <2>2. RowInv(s, sessions[s])
    BY <1>2 DEF IInv, RowsInv
  <2> QED
    BY <1>2, <2>1, <2>2, RowGrows DEF RowInv, RowAfter, TierProven
<1> QED
  BY <1>1, <1>2

\* Keys keep their registration: it is never forgotten.
LEMMA SafeStepKeys ==
  ASSUME IInv, HistoryStep, KeysStep
  PROVE  KeyProvenance'
<1> SUFFICES ASSUME NEW s \in SessionIds, NEW kind \in Kinds, keys'[s][kind] # Null
             PROVE  keys'[s][kind] \in registered'[s][kind]
  BY DEF KeyProvenance
<1>1. keys'[s][kind] \in registered[s][kind]
  BY DEF KeysStep, IInv, KeyProvenance
<1> QED
  BY <1>1 DEF HistoryStep

\* A challenge that was accepted is not open, and stays so: it is never issued
\* again, and only an open one is consumed.
LEMMA SafeStepChallenges ==
  ASSUME IInv, HistoryStep, ChallengesStep
  PROVE  SingleUse' /\ ChallengesInv'
<1> SUFFICES ASSUME NEW j \in Jtis
             PROVE  /\ accepts'[j] <= 1
                    /\ challenges'[j] # Null => challenges'[j].sessionId = issuedTo'[j]
                    /\ accepts'[j] > 0 =>
                         /\ issuedTo'[j] # Null
                         /\ ~(challenges'[j] # Null /\ ~challenges'[j].consumed)
  BY DEF SingleUse, ChallengesInv, Consumable
<1>1. /\ accepts[j] \in Nat /\ accepts[j] <= 1
      /\ challenges[j] \in Optional(Challenge)
      /\ challenges[j] # Null => challenges[j].sessionId = issuedTo[j]
      /\ accepts[j] > 0 =>
           /\ issuedTo[j] # Null
           /\ ~(challenges[j] # Null /\ ~challenges[j].consumed)
  BY DEF IInv, TypeOK, StorageTypeOK, SingleUse, ChallengesInv, Consumable
<1>2. CASE LoseChallenges
  BY <1>1, <1>2 DEF LoseChallenges
<1>3. CASE \E i \in Jtis, s \in SessionIds : IssueTo(i, s)
  <2> PICK i \in Jtis, s \in SessionIds : IssueTo(i, s)
    BY <1>3
  <2>1. CASE i # j
    BY <1>1, <2>1 DEF IssueTo, IInv, TypeOK, StorageTypeOK
  <2>2. CASE i = j
    <3>1. accepts[j] = 0
      BY <1>1, <2>2 DEF IssueTo
    <3>2. /\ issuedTo'[j] = s /\ accepts'[j] = accepts[j]
          /\ challenges'[j].sessionId = s
      BY <2>2 DEF IssueTo, IInv, TypeOK, StorageTypeOK
    <3> QED
      BY <3>1, <3>2
  <2> QED
    BY <2>1, <2>2
<1>4. CASE \E i \in Jtis : Consume(i) /\ (UNCHANGED accepts \/ AcceptOver(i))
  <2> PICK i \in Jtis : Consume(i) /\ (UNCHANGED accepts \/ AcceptOver(i))
    BY <1>4
  <2>1. CASE i # j
    BY <1>1, <2>1 DEF Consume, AcceptOver, IInv, TypeOK, StorageTypeOK
  <2>2. CASE i = j
    <3>1. /\ challenges[j] # Null /\ ~challenges[j].consumed
          /\ challenges[j] \in Challenge
      BY <1>1, <2>2 DEF Consume, Consumable, Optional
    <3>2. accepts[j] = 0
      BY <1>1, <3>1
    <3>3. challenges'[j] = [challenges[j] EXCEPT !.consumed = TRUE]
      BY <2>2 DEF Consume, IInv, TypeOK, StorageTypeOK
    <3>4. challenges'[j].consumed /\ challenges'[j].sessionId = challenges[j].sessionId
      BY <3>1, <3>3 DEF Challenge
    <3>5. issuedTo'[j] = issuedTo[j] /\ accepts'[j] \in {0, 1}
      BY <2>2, <3>2 DEF Consume, AcceptOver, IInv, TypeOK
    <3>6. challenges[j].sessionId = issuedTo[j] /\ issuedTo[j] # Null
      BY <1>1, <3>1, NullAssumption DEF Challenge
    <3> QED
      BY <3>4, <3>5, <3>6
  <2> QED
    BY <2>1, <2>2
<1> QED
  BY <1>2, <1>3, <1>4 DEF ChallengesStep, AcceptOver

\* A safe step preserves the inductive invariant.
LEMMA SafeStepInv ==
  ASSUME IInv, SafeStep
  PROVE  IInv'
<1>1. TypeOK'
  BY DEF SafeStep, HistoryStep, RequestsStep, RowsStep, KeysStep, ChallengesStep,
         TypeOK, StorageTypeOK
<1>2. RequestsInv'
  <2> SUFFICES ASSUME NEW r \in Requests
               PROVE  ReqInv(req[r])'
    BY DEF RequestsInv
  <2> QED
    BY ReqGrows DEF SafeStep, RequestsStep
<1>3. ClocksInv'
  BY DEF SafeStep, HistoryStep, ClocksInv
<1> QED
  BY <1>1, <1>2, <1>3, SafeStepRows, SafeStepKeys, SafeStepChallenges DEF IInv, SafeStep

-----------------------------------------------------------------------------
\* What the operators of the handlers do to the invariant.

\* A step that leaves clock and history alone.
LEMMA HistoryUnchanged ==
  ASSUME IInv, UNCHANGED <<now, issuedTo, registered, provenAt, boundAt>>
  PROVE  HistoryStep
BY DEF IInv, TypeOK, StorageTypeOK, ClocksInv, HistoryStep, Time

\* A step that reads the clock after an accepted proof.
LEMMA ProvenHistory ==
  ASSUME IInv, NEW s \in SessionIds, Proven(s),
         UNCHANGED <<now, issuedTo, registered, boundAt>>
  PROVE  HistoryStep /\ provenAt'[s] = now
BY DEF IInv, TypeOK, StorageTypeOK, ClocksInv, HistoryStep, Time, Proven

\* A step that accepts a registration.
LEMMA RegisterHistory ==
  ASSUME IInv, NEW s \in SessionIds, NEW kind \in Kinds, NEW k \in Keys,
         Register(s, kind, k), Proven(s), UNCHANGED <<now, issuedTo, boundAt>>
  PROVE  HistoryStep /\ provenAt'[s] = now /\ k \in registered'[s][kind]
<1>1. /\ registered' \in [SessionIds -> [Kinds -> SUBSET Keys]]
      /\ k \in registered'[s][kind]
      /\ \A u \in SessionIds, l \in Kinds : registered[u][l] \subseteq registered'[u][l]
  BY DEF IInv, TypeOK, Register
<1>2. /\ provenAt' \in [SessionIds -> Time] /\ provenAt'[s] = now
      /\ now' \in Time /\ now <= now'
      /\ \A u \in SessionIds :
           /\ provenAt[u] <= provenAt'[u] /\ provenAt'[u] <= now'
           /\ boundAt[u] <= boundAt'[u] /\ boundAt'[u] <= now'
  BY DEF IInv, TypeOK, StorageTypeOK, ClocksInv, Time, Proven
<1>3. /\ issuedTo' \in [Jtis -> Optional(SessionIds)]
      /\ boundAt' \in [SessionIds -> Time]
      /\ \A j \in Jtis : issuedTo[j] # Null => issuedTo'[j] = issuedTo[j]
  BY DEF IInv, TypeOK
<1> QED
  BY <1>1, <1>2, <1>3 DEF HistoryStep

\* The row a handler reads is one of those the invariant speaks of.
LEMMA RowRead ==
  ASSUME IInv, HistoryStep, NEW s \in SessionIds, StoredSession(s) # Null
  PROVE  /\ StoredSession(s) = sessions[s] /\ sessions[s] \in Session
         /\ RowAfter(s, sessions[s])
<1>1. StoredSession(s) = sessions[s] /\ sessions[s] # Null
  BY DEF StoredSession
<1>2. sessions[s] \in Session /\ RowInv(s, sessions[s])
  BY <1>1 DEF IInv, TypeOK, StorageTypeOK, RowsInv, Optional
<1> QED
  BY <1>1, <1>2, RowGrows

\* A step that touches no row.
LEMMA RowsUnchanged ==
  ASSUME IInv, UNCHANGED sessions
  PROVE  RowsStep
BY DEF IInv, TypeOK, StorageTypeOK, RowsStep

\* getSession at most drops an expired row.
LEMMA RowsRead ==
  ASSUME IInv, NEW s \in SessionIds, GetSession(s)
  PROVE  RowsStep
BY DEF IInv, TypeOK, StorageTypeOK, RowsStep, GetSession, StoredSession, Optional

\* setSession stores a row that is justified.
LEMMA RowsWritten ==
  ASSUME IInv, NEW s \in SessionIds, NEW row \in Session, SetSession(s, row),
         RowAfter(s, row)
  PROVE  RowsStep
BY DEF IInv, TypeOK, StorageTypeOK, RowsStep, SetSession, Optional, RowAfter,
       RowInv, TierProven

\* A step that touches no key.
LEMMA KeysUnchanged ==
  ASSUME IInv, UNCHANGED keys
  PROVE  KeysStep
BY DEF IInv, TypeOK, StorageTypeOK, KeysStep

\* A step that touches no challenge.
LEMMA ChallengesUnchanged ==
  ASSUME IInv, UNCHANGED <<challenges, issuedTo, accepts>>
  PROVE  ChallengesStep
BY DEF IInv, TypeOK, StorageTypeOK, ChallengesStep, LoseChallenges

\* getChallenge at most drops an expired challenge.
LEMMA ChallengesRead ==
  ASSUME IInv, NEW j \in Jtis, GetChallenge(j), UNCHANGED <<issuedTo, accepts>>
  PROVE  ChallengesStep
BY DEF IInv, TypeOK, StorageTypeOK, ChallengesStep, LoseChallenges, GetChallenge,
       StoredChallenge, Optional

\* consumeChallenge, accepting no proof: it burns the challenge or does nothing.
LEMMA ChallengesBurned ==
  ASSUME IInv, NEW j \in Jtis, ConsumeChallenge(j), UNCHANGED <<issuedTo, accepts>>
  PROVE  ChallengesStep
<1>1. CASE Consumable(j)
  <2>1. challenges' = [challenges EXCEPT ![j].consumed = TRUE]
    BY <1>1 DEF ConsumeChallenge
  <2>2. challenges[j] \in Challenge
    BY <1>1 DEF Consumable, IInv, TypeOK, StorageTypeOK, Optional
  <2>3. [challenges[j] EXCEPT !.consumed = TRUE] \in Challenge
    BY <2>2 DEF Challenge
  <2>4. challenges' \in [Jtis -> Optional(Challenge)]
    BY <2>1, <2>3 DEF IInv, TypeOK, StorageTypeOK, Optional
  <2> QED
    BY <1>1, <2>1, <2>4 DEF ChallengesStep, Consume, IInv, TypeOK
<1>2. CASE ~Consumable(j)
  BY <1>2, ChallengesUnchanged DEF ConsumeChallenge
<1> QED
  BY <1>1, <1>2

\* consumeChallenge, accepting the proof of a handler that checked the owner of
\* the challenge and holds the key.
LEMMA ChallengesAccepted ==
  ASSUME IInv, NEW r \in Requests, req[r].pc = "consume",
         ConsumeChallenge(req[r].jti), Accept(r), UNCHANGED issuedTo
  PROVE  ChallengesStep
<1> DEFINE j == req[r].jti
<1>1. /\ req[r] # Idle /\ ReqInv(req[r])
      /\ req[r].op \in {"refresh", "boundRefresh"} => HoldsKey(req[r])
      /\ HasChecked(req[r])
  BY DEF IInv, RequestsInv, Idle, HoldsKey, HasChecked
<1>2. /\ j \in Jtis /\ issuedTo[j] = req[r].sid
      /\ req[r].op \in {"refresh", "boundRefresh"} =>
           req[r].key \in registered[req[r].sid][KindOf(req[r].op)]
  BY <1>1 DEF ReqInv
<1>3. Consumable(j) /\ challenges' = [challenges EXCEPT ![j].consumed = TRUE]
  BY DEF Accept, ConsumeChallenge
<1>4. challenges[j] \in Challenge
  BY <1>2, <1>3 DEF Consumable, IInv, TypeOK, StorageTypeOK, Optional
<1>5. [challenges[j] EXCEPT !.consumed = TRUE] \in Challenge
  BY <1>4 DEF Challenge
<1>6. challenges' \in [Jtis -> Optional(Challenge)]
  BY <1>2, <1>3, <1>5 DEF IInv, TypeOK, StorageTypeOK, Optional
<1>7. accepts' = [accepts EXCEPT ![j] = @ + 1] /\ accepts' \in [Jtis -> Nat]
  BY <1>2 DEF Accept, IInv, TypeOK
<1>8. AcceptOver(j)
  BY <1>2, <1>3, <1>7 DEF AcceptOver, Consume
<1> QED
  BY <1>2, <1>6, <1>7, <1>8 DEF ChallengesStep

-----------------------------------------------------------------------------
\* Where a step of a handler leaves its request.

\* A step of no request.
LEMMA RequestsUnchanged ==
  ASSUME IInv, UNCHANGED req
  PROVE  RequestsStep
BY DEF IInv, TypeOK, RequestsStep

\* A handler that ends carries nothing on.
LEMMA FinishStep ==
  ASSUME IInv, NEW r \in Requests, Finish(r)
  PROVE  RequestsStep
<1>1. Idle \in RequestState
  BY TimesAssumption DEF Idle, RequestState, Ops, Steps, Optional, Time
<1>2. req'[r] = Idle /\ \A x \in Requests : x # r => req'[x] = req[x]
  BY DEF Finish, IInv, TypeOK
<1>3. ReqInv(req[r])'
  BY <1>2 DEF ReqInv, Idle
<1> QED
  BY <1>1, <1>2, <1>3 DEF RequestsStep, Finish, IInv, TypeOK

\* What the locals of a request that goes on have to satisfy.
GoodLocals(op, step, s, j, k, row, time) ==
  /\ op \in Ops /\ step \in Steps /\ s \in SessionIds /\ j \in Optional(Jtis)
  /\ k \in Optional(Keys) /\ row \in Optional(Session) /\ time \in Time
  /\ time <= provenAt'[s]
  /\ step = "writeKey" => op \in {"registration", "boundRegistration"}
  /\ step = "readChallenge" => j \in Jtis
  /\ \/ step \in {"consume", "burn"}
     \/ step = "readKey" /\ op \in {"registration", "boundRegistration"}
     => j \in Jtis /\ issuedTo'[j] = s
  /\ \/ op \in {"refresh", "boundRefresh"}
     \/ /\ op \in {"registration", "boundRegistration"}
        /\ step \notin {"readKey", "consume"}
     => registered'[s][KindOf(op)] # {}
  /\ \/ step = "writeKey"
     \/ op \in {"refresh", "boundRefresh"} /\ step \in {"readChallenge", "consume"}
     => k \in registered'[s][KindOf(op)]
  /\ step \in {"readNative", "writeSession", "writeDemoted"} => row \in Session
  /\ row # Null => RowAfter(s, row)

\* A handler goes on with locals that are good for its next step.
LEMMA GotoStep ==
  ASSUME IInv, NEW r \in Requests, NEW op, NEW step, NEW s, NEW j, NEW k, NEW row,
         NEW time, Goto(r, op, step, s, j, k, row, time),
         GoodLocals(op, step, s, j, k, row, time)
  PROVE  RequestsStep
<1> DEFINE q == [op |-> op, pc |-> step, sid |-> s, jti |-> j, key |-> k,
                 draft |-> row, at |-> time]
<1>1. q \in RequestState
  BY DEF GoodLocals, RequestState, Optional
<1>2. req'[r] = q /\ \A x \in Requests : x # r => req'[x] = req[x]
  BY DEF Goto, IInv, TypeOK
<1>3. ReqInv(req[r])'
  BY <1>2 DEF ReqInv, GoodLocals, HasChecked, HasKey, HoldsKey, RowInv, RowAfter,
              TierProven
<1> QED
  BY <1>1, <1>2, <1>3 DEF RequestsStep, Goto, IInv, TypeOK

\* A handler that will answer with a challenge carries its session only.
LEMMA AnswerStep ==
  ASSUME IInv, HistoryStep, NEW r \in Requests, NEW s \in SessionIds, Answer(r, s)
  PROVE  RequestsStep
<1>1. 0 \in Time /\ 0 <= provenAt'[s]
  BY TimesAssumption DEF HistoryStep, Time
<1>2. GoodLocals("answer", "issue", s, Null, Null, Null, 0)
  BY <1>1 DEF GoodLocals, Ops, Steps, Optional
<1> QED
  BY <1>2, GotoStep DEF Answer

\* A handler that is still to consume the challenge.
LEMMA ProveStep ==
  ASSUME IInv, HistoryStep, NEW r \in Requests, NEW op \in Ops,
         NEW step \in {"readKey", "readChallenge", "consume", "burn"},
         NEW s \in SessionIds, NEW j \in Jtis, NEW k \in Optional(Keys),
         Prove(r, op, step, s, j, k),
         step = "readChallenge" \/ issuedTo[j] = s,
         op \in {"refresh", "boundRefresh"} =>
           /\ registered[s][KindOf(op)] # {}
           /\ step \in {"readChallenge", "consume"} => k \in registered[s][KindOf(op)],
         step \in {"burn", "readChallenge"} => op \in {"refresh", "boundRefresh"}
  PROVE  RequestsStep
<1>1. 0 \in Time /\ 0 <= provenAt'[s]
  BY TimesAssumption DEF HistoryStep, Time
<1>2. KindOf(op) \in Kinds
  BY DEF KindOf, Kinds
<1>3. registered[s][KindOf(op)] \subseteq registered'[s][KindOf(op)]
  BY <1>2 DEF HistoryStep
<1>4. issuedTo[j] = s => issuedTo'[j] = s
  BY NullAssumption DEF HistoryStep
<1>5. GoodLocals(op, step, s, j, k, Null, 0)
  BY <1>1, <1>3, <1>4 DEF GoodLocals, Steps, Optional
<1> QED
  BY <1>5, GotoStep DEF Prove

\* A handler that is done with the proof.
LEMMA StoreStep ==
  ASSUME IInv, HistoryStep, NEW r \in Requests, req[r] # Idle,
         HasKey(req[r]),
         NEW step \in {"readSession", "readNative", "writeSession", "readDemoted",
                       "writeDemoted"},
         NEW row \in Optional(Session), NEW time \in Time, Store(r, step, row, time),
         time <= provenAt'[req[r].sid],
         step \notin {"readSession", "readDemoted"} => row \in Session,
         row # Null => RowAfter(req[r].sid, row)
  PROVE  RequestsStep
<1> DEFINE s  == req[r].sid
           op == req[r].op
<1>1. s \in SessionIds /\ op \in Ops /\ registered[s][KindOf(op)] # {}
  BY DEF IInv, TypeOK, RequestsInv, ReqInv, RequestState
<1>2. KindOf(op) \in Kinds
  BY DEF KindOf, Kinds
<1>3. registered'[s][KindOf(op)] # {}
  BY <1>1, <1>2 DEF HistoryStep
<1>4. GoodLocals(op, step, s, Null, Null, row, time)
  BY <1>1, <1>3 DEF GoodLocals, Steps, Optional
<1> QED
  BY <1>4, GotoStep DEF Store

-----------------------------------------------------------------------------
\* Rows that handlers compute.

\* A promoted copy of a justified row is justified.
LEMMA PromotedRow ==
  ASSUME NEW s \in SessionIds, NEW row \in Session, RowAfter(s, row),
         NEW tier \in Tiers, NEW time \in Time, time <= provenAt'[s],
         tier = "dbsc" => registered'[s]["native"] # {},
         tier = "bound" => registered'[s]["bound"] # {}
  PROVE  Promoted(row, tier, time) \in Session /\ RowAfter(s, Promoted(row, tier, time))
BY DEF Promoted, Session, RowAfter

\* A demoted copy of a justified row is justified.
LEMMA DemotedRow ==
  ASSUME NEW s \in SessionIds, NEW row \in Session, RowAfter(s, row)
  PROVE  Demoted(row) \in Session /\ RowAfter(s, Demoted(row))
BY DEF Demoted, Session, RowAfter, Tiers

\* What a handler carries across an await.
LEMMA Carried ==
  ASSUME IInv, NEW r \in Requests, req[r].pc # "idle"
  PROVE  /\ req[r] # Idle /\ req[r] \in RequestState
         /\ req[r].sid \in SessionIds /\ req[r].at \in Time
         /\ req[r].at <= provenAt[req[r].sid]
         /\ req[r].draft # Null => req[r].draft \in Session /\ RowInv(req[r].sid, req[r].draft)
         /\ req[r].pc \in {"readNative", "writeSession", "writeDemoted"} =>
              req[r].draft \in Session
BY NullAssumption DEF IInv, TypeOK, RequestsInv, ReqInv, RequestState, Idle, Optional

\* What a handler knows of its challenge, from ReqInv.
LEMMA CarriedChallenge ==
  ASSUME IInv, NEW r \in Requests, req[r].pc # "idle"
  PROVE  /\ req[r].pc = "readChallenge" => req[r].jti \in Jtis
         /\ HasChecked(req[r]) => req[r].jti \in Jtis /\ issuedTo[req[r].jti] = req[r].sid
BY Carried DEF IInv, RequestsInv, ReqInv

\* What a handler knows of its key, from ReqInv.
LEMMA CarriedKey ==
  ASSUME IInv, NEW r \in Requests, req[r].pc # "idle"
  PROVE  /\ HasKey(req[r]) => registered[req[r].sid][KindOf(req[r].op)] # {}
         /\ HoldsKey(req[r]) => req[r].key \in registered[req[r].sid][KindOf(req[r].op)]
BY Carried DEF IInv, RequestsInv, ReqInv

\* A row carried across an await is as justified as ever.
LEMMA CarriedRow ==
  ASSUME IInv, HistoryStep, NEW r \in Requests, req[r].pc # "idle",
         req[r].draft \in Session
  PROVE  RowAfter(req[r].sid, req[r].draft)
<1>1. req[r].sid \in SessionIds /\ RowInv(req[r].sid, req[r].draft)
  BY Carried, NullAssumption
<1> QED
  BY <1>1, RowGrows

\* A challenge that passes the checks was issued to the session.
LEMMA CheckedChallenge ==
  ASSUME IInv, NEW s \in SessionIds, NEW j \in Jtis, ChallengeValid(s, j)
  PROVE  issuedTo[j] = s
BY DEF ChallengeValid, StoredChallenge, IInv, ChallengesInv

\* A stored key was registered.
LEMMA StoredKey ==
  ASSUME IInv, NEW s \in SessionIds, NEW kind \in Kinds, keys[s][kind] # Null
  PROVE  keys[s][kind] \in registered[s][kind] /\ keys[s][kind] \in Keys
BY DEF IInv, TypeOK, StorageTypeOK, KeyProvenance, Optional

-----------------------------------------------------------------------------
\* The steps that every handler has, in one form or another.

\* A handler answers, or is done, having read or written nothing.
LEMMA OnlyRequests ==
  ASSUME IInv, RequestsStep, UNCHANGED <<now, storageVars, history>>
  PROVE  SafeStep
<1>1. HistoryStep /\ RowsStep /\ KeysStep /\ ChallengesStep
  BY HistoryUnchanged, RowsUnchanged, KeysUnchanged, ChallengesUnchanged
     DEF storageVars, history
<1> QED
  BY <1>1 DEF SafeStep

\* A handler writes the row it carries.
LEMMA WritesRow ==
  ASSUME IInv, NEW r \in Requests, req[r].pc \in {"writeSession", "writeDemoted"},
         SetSession(req[r].sid, req[r].draft), RequestsStep,
         UNCHANGED <<now, keys, challenges, history>>
  PROVE  SafeStep
<1>1. HistoryStep /\ KeysStep /\ ChallengesStep
  BY HistoryUnchanged, KeysUnchanged, ChallengesUnchanged DEF history
<1>2. req[r].sid \in SessionIds /\ req[r].draft \in Session
  BY Carried
<1>3. RowAfter(req[r].sid, req[r].draft)
  BY <1>1, <1>2, CarriedRow
<1>4. RowsStep
  BY <1>2, <1>3, RowsWritten
<1> QED
  BY <1>1, <1>4 DEF SafeStep

\* A handler reads the row and nothing else changes but where it is.
LEMMA ReadsRow ==
  ASSUME IInv, NEW s \in SessionIds, GetSession(s), RequestsStep,
         UNCHANGED <<now, keys, challenges, history>>
  PROVE  SafeStep
<1>1. HistoryStep /\ KeysStep /\ ChallengesStep
  BY HistoryUnchanged, KeysUnchanged, ChallengesUnchanged DEF history
<1>2. RowsStep
  BY RowsRead
<1> QED
  BY <1>1, <1>2 DEF SafeStep

\* A step that reads a challenge and moves its request is safe.
LEMMA ReadsChallenge ==
  ASSUME IInv, NEW j \in Jtis, GetChallenge(j), RequestsStep,
         UNCHANGED <<now, sessions, keys, history>>
  PROVE  SafeStep
<1>1. HistoryStep /\ KeysStep /\ RowsStep
  BY HistoryUnchanged, KeysUnchanged, RowsUnchanged DEF history
<1>2. ChallengesStep
  BY ChallengesRead DEF history
<1> QED
  BY <1>1, <1>2 DEF SafeStep

\* A handler reads the row and is going to write it with `tier: "none"`.
LEMMA ReadsDemoted ==
  ASSUME IInv, NEW r \in Requests, req[r].pc = "readDemoted", HasKey(req[r]),
         GetSession(req[r].sid), StoredSession(req[r].sid) # Null,
         Store(r, "writeDemoted", Demoted(StoredSession(req[r].sid)), 0),
         UNCHANGED <<now, keys, challenges, history>>
  PROVE  SafeStep
<1> DEFINE s   == req[r].sid
           row == Demoted(StoredSession(s))
<1>1. HistoryStep
  BY HistoryUnchanged DEF history
<1>2. s \in SessionIds /\ req[r] # Idle
  BY Carried
<1>3. row \in Session /\ RowAfter(s, row)
  BY <1>1, <1>2, RowRead, DemotedRow
<1>4. 0 \in Time /\ 0 <= provenAt'[s]
  BY <1>1, <1>2, TimesAssumption DEF HistoryStep, Time
<1>5. RequestsStep
  BY <1>1, <1>2, <1>3, <1>4, StoreStep DEF Optional
<1> QED
  BY <1>2, <1>5, ReadsRow

\* A handler burns the challenge of a failing signature.
LEMMA Burns ==
  ASSUME IInv, NEW r \in Requests, req[r].pc = "burn", HasKey(req[r]),
         ConsumeChallenge(req[r].jti), Store(r, "readDemoted", Null, 0),
         UNCHANGED <<now, sessions, keys, history>>
  PROVE  SafeStep
<1>1. HistoryStep /\ KeysStep /\ RowsStep
  BY HistoryUnchanged, KeysUnchanged, RowsUnchanged DEF history
<1>2. req[r] # Idle /\ req[r].sid \in SessionIds /\ req[r].jti \in Jtis
  BY Carried, CarriedChallenge DEF HasChecked
<1>3. 0 \in Time /\ 0 <= provenAt'[req[r].sid]
  BY <1>1, <1>2, TimesAssumption DEF HistoryStep, Time
<1>4. RequestsStep
  BY <1>1, <1>2, <1>3, StoreStep DEF Optional
<1>5. ChallengesStep
  BY <1>2, ChallengesBurned DEF history
<1> QED
  BY <1>1, <1>4, <1>5 DEF SafeStep

-----------------------------------------------------------------------------
\* Issuing challenges, and bindSession.

\* Issuing a challenge is safe for history, rows, keys and challenges.
LEMMA IssueParts ==
  ASSUME IInv, NEW s \in SessionIds, NEW j \in Jtis, Issue(s, j)
  PROVE  HistoryStep /\ RowsStep /\ KeysStep /\ ChallengesStep
<1> DEFINE c == [sessionId |-> s, expiresAt |-> now + ChallengeTtl, consumed |-> FALSE]
<1>1. HistoryStep
  BY DEF Issue, IInv, TypeOK, StorageTypeOK, ClocksInv, HistoryStep, Time, Optional
<1>2. RowsStep /\ KeysStep
  BY RowsUnchanged, KeysUnchanged DEF Issue
<1>3. c \in Challenge
  BY TimesAssumption DEF Challenge, IInv, TypeOK, StorageTypeOK, Time
<1>4. challenges' = [challenges EXCEPT ![j] = c]
  BY DEF Issue, SetChallenge
<1>5. challenges' \in [Jtis -> Optional(Challenge)] /\ accepts' \in [Jtis -> Nat]
  BY <1>3, <1>4 DEF Issue, IInv, TypeOK, StorageTypeOK, Optional
<1>6. IssueTo(j, s)
  BY <1>3, <1>4 DEF Issue, IssueTo
<1> QED
  BY <1>1, <1>2, <1>5, <1>6 DEF ChallengesStep

\* The challenge at the end of a route is issued for the session of its request.
LEMMA IssueChallengeSafe ==
  ASSUME IInv, NEW r \in Requests, NEW j \in Jtis, IssueChallenge(r, j)
  PROVE  SafeStep
<1>1. req[r].sid \in SessionIds
  BY Carried DEF IssueChallenge, At
<1>2. HistoryStep /\ RowsStep /\ KeysStep /\ ChallengesStep
  BY <1>1, IssueParts DEF IssueChallenge
<1>3. RequestsStep
  BY FinishStep DEF IssueChallenge
<1> QED
  BY <1>2, <1>3 DEF SafeStep

\* The first leg of a refresh only issues a challenge.
LEMMA RefreshFirstLegSafe ==
  ASSUME IInv, NEW s \in SessionIds, NEW j \in Jtis, RefreshFirstLeg(s, j)
  PROVE  SafeStep
BY IssueParts, RequestsUnchanged DEF RefreshFirstLeg, SafeStep

\* bindSession's read: a fresh row claims no tier and ends SessionTtl from now.
LEMMA BindReadSessionSafe ==
  ASSUME IInv, NEW r \in Requests, NEW s \in SessionIds, BindReadSession(r, s)
  PROVE  SafeStep
<1>1. RowsStep /\ KeysStep /\ ChallengesStep
  BY RowsRead, KeysUnchanged, ChallengesUnchanged DEF BindReadSession
<1>2. CASE StoredSession(s) = Null
  <2>1. /\ Goto(r, "bind", "writeSession", s, Null, Null, UnboundRow, 0)
        /\ boundAt' = [boundAt EXCEPT ![s] = now]
        /\ UNCHANGED <<now, issuedTo, registered, provenAt>>
    BY <1>2 DEF BindReadSession
  <2>2. HistoryStep /\ boundAt'[s] = now
    BY <2>1 DEF IInv, TypeOK, StorageTypeOK, ClocksInv, HistoryStep, Time
  <2>3. 0 \in Time /\ 0 <= provenAt'[s]
    BY <2>2, TimesAssumption DEF HistoryStep, Time
  <2>4. UnboundRow \in Session
    BY <2>3, TimesAssumption DEF UnboundRow, Session, Tiers, IInv, TypeOK,
       StorageTypeOK, Time
  <2>5. RowAfter(s, UnboundRow)
    BY <2>2, <2>3, TimesAssumption DEF UnboundRow, RowAfter, IInv, TypeOK,
       StorageTypeOK, Time
  <2>6. GoodLocals("bind", "writeSession", s, Null, Null, UnboundRow, 0)
    BY <2>3, <2>4, <2>5 DEF GoodLocals, Ops, Steps, Optional
  <2>7. RequestsStep
    BY <2>1, <2>6, GotoStep
  <2> QED
    BY <1>1, <2>2, <2>7 DEF SafeStep
<1>3. CASE StoredSession(s) # Null
  <2>1. HistoryStep
    BY <1>3, HistoryUnchanged DEF BindReadSession
  <2>2. RequestsStep
    BY <1>3, <2>1, AnswerStep DEF BindReadSession
  <2> QED
    BY <1>1, <2>1, <2>2 DEF SafeStep
<1> QED
  BY <1>2, <1>3

\* bindSession's write stores that row, however late.
LEMMA BindWriteSessionSafe ==
  ASSUME IInv, NEW r \in Requests, BindWriteSession(r)
  PROVE  SafeStep
<1>1. req[r].pc = "writeSession" /\ req[r].sid \in SessionIds
  BY Carried DEF BindWriteSession, At
<1>2. RequestsStep
  BY <1>1, HistoryUnchanged, AnswerStep DEF BindWriteSession, history
<1> QED
  BY <1>1, <1>2, WritesRow DEF BindWriteSession

-----------------------------------------------------------------------------
\* handleRegistration.

\* Going on means the challenge is the session's own.
LEMMA RegistrationReadChallengeSafe ==
  ASSUME IInv, NEW r \in Requests, NEW s \in SessionIds, NEW j \in Jtis,
         RegistrationReadChallenge(r, s, j)
  PROVE  SafeStep
<1>1. HistoryStep
  BY HistoryUnchanged DEF RegistrationReadChallenge, history
<1>2. RequestsStep
  <2>1. CASE UNCHANGED req
    BY <2>1, RequestsUnchanged
  <2>2. CASE ChallengeValid(s, j) /\ Prove(r, "registration", "readKey", s, j, Null)
    <3>1. issuedTo[j] = s
      BY <2>2, CheckedChallenge
    <3> QED
      BY <1>1, <2>2, <3>1, ProveStep DEF Ops, Optional
  <2> QED
    BY <2>1, <2>2 DEF RegistrationReadChallenge
<1> QED
  BY <1>2, ReadsChallenge DEF RegistrationReadChallenge

\* The challenge stays the session's own across the key check.
LEMMA RegistrationReadKeySafe ==
  ASSUME IInv, NEW r \in Requests, RegistrationReadKey(r)
  PROVE  SafeStep
<1> DEFINE s == req[r].sid
           j == req[r].jti
<1>1. HistoryStep
  BY HistoryUnchanged DEF RegistrationReadKey, history
<1>2. s \in SessionIds /\ j \in Jtis /\ issuedTo[j] = s
  BY Carried, CarriedChallenge DEF RegistrationReadKey, At, HasChecked
<1>3. RequestsStep
  <2>1. CASE Prove(r, "registration", "consume", s, j, Null)
    BY <1>1, <1>2, <2>1, ProveStep DEF Ops, Optional
  <2>2. CASE Finish(r)
    BY <2>2, FinishStep
  <2> QED
    BY <2>1, <2>2 DEF RegistrationReadKey
<1> QED
  BY <1>3, OnlyRequests DEF RegistrationReadKey

\* Accepting a registration puts its key on record and burns the challenge.
LEMMA RegistrationConsumeSafe ==
  ASSUME IInv, NEW r \in Requests, RegistrationConsume(r)
  PROVE  SafeStep
<1> DEFINE s == req[r].sid
           j == req[r].jti
<1>1. s \in SessionIds /\ j \in Jtis /\ req[r].pc = "consume"
  BY Carried, CarriedChallenge DEF RegistrationConsume, At, HasChecked
<1>2. RowsStep /\ KeysStep
  BY RowsUnchanged, KeysUnchanged DEF RegistrationConsume
<1>3. ASSUME NEW k \in Keys, Accept(r), Register(s, "native", k), Proven(s),
             Goto(r, "registration", "writeKey", s, Null, k, Null, now)
      PROVE  SafeStep
  <2>1. HistoryStep /\ provenAt'[s] = now /\ k \in registered'[s]["native"]
    BY <1>1, <1>3, RegisterHistory DEF RegistrationConsume, Kinds
  <2>2. ChallengesStep
    BY <1>1, <1>3, ChallengesAccepted DEF RegistrationConsume
  <2>3. now \in Time /\ now <= provenAt'[s]
    BY <2>1 DEF IInv, TypeOK, StorageTypeOK, Time
  <2>4. GoodLocals("registration", "writeKey", s, Null, k, Null, now)
    BY <1>1, <2>1, <2>3 DEF GoodLocals, Ops, Steps, Optional, KindOf
  <2>5. RequestsStep
    BY <1>3, <2>4, GotoStep
  <2> QED
    BY <1>2, <2>1, <2>2, <2>5 DEF SafeStep
<1>4. CASE Finish(r) /\ UNCHANGED <<accepts, registered, provenAt>>
  <2>1. HistoryStep
    BY <1>4, HistoryUnchanged DEF RegistrationConsume
  <2>2. ChallengesStep
    BY <1>1, <1>4, ChallengesBurned DEF RegistrationConsume
  <2>3. RequestsStep
    BY <1>4, FinishStep
  <2> QED
    BY <1>2, <2>1, <2>2, <2>3 DEF SafeStep
<1> QED
  BY <1>3, <1>4 DEF RegistrationConsume

\* The key stored is the one on record.
LEMMA RegistrationWriteKeySafe ==
  ASSUME IInv, NEW r \in Requests, RegistrationWriteKey(r)
  PROVE  SafeStep
<1> DEFINE s == req[r].sid
<1>1. HistoryStep /\ RowsStep /\ ChallengesStep
  BY HistoryUnchanged, RowsUnchanged, ChallengesUnchanged DEF RegistrationWriteKey, history
<1>2. /\ req[r] # Idle /\ s \in SessionIds /\ req[r].op = "registration"
      /\ req[r].at \in Time /\ req[r].at <= provenAt[s]
      /\ HasKey(req[r]) /\ HoldsKey(req[r])
  BY Carried DEF RegistrationWriteKey, At, HasKey, HoldsKey
<1>3. req[r].key \in registered[s]["native"] /\ req[r].key \in Keys
  BY <1>2, CarriedKey DEF RegistrationWriteKey, At, KindOf, IInv, TypeOK, Kinds
<1>4. KeysStep
  BY <1>2, <1>3 DEF RegistrationWriteKey, SetBoundKey, KeysStep, IInv, TypeOK, StorageTypeOK,
     Optional, Kinds
<1>5. req[r].at <= provenAt'[s]
  BY <1>2 DEF RegistrationWriteKey, history
<1>6. RequestsStep
  BY <1>1, <1>2, <1>5, StoreStep DEF RegistrationWriteKey, Optional
<1> QED
  BY <1>1, <1>4, <1>6 DEF SafeStep

\* The promoted copy is backed by that key.
LEMMA RegistrationReadSessionSafe ==
  ASSUME IInv, NEW r \in Requests, RegistrationReadSession(r)
  PROVE  SafeStep
<1> DEFINE s   == req[r].sid
           row == StoredSession(s)
<1>1. HistoryStep
  BY HistoryUnchanged DEF RegistrationReadSession, history
<1>2. /\ req[r] # Idle /\ s \in SessionIds /\ HasKey(req[r])
      /\ req[r].at \in Time /\ req[r].at <= provenAt'[s]
  BY Carried DEF RegistrationReadSession, At, HasKey, history
<1>3. registered'[s]["native"] # {}
  BY <1>2, CarriedKey DEF RegistrationReadSession, At, KindOf, history
<1>4. CASE row = Null
  BY <1>2, <1>4, FinishStep, ReadsRow DEF RegistrationReadSession
<1>5. CASE row # Null
  <2>1. row \in Session /\ RowAfter(s, row)
    BY <1>1, <1>2, <1>5, RowRead
  <2>2. /\ Promoted(row, "dbsc", req[r].at) \in Session
        /\ RowAfter(s, Promoted(row, "dbsc", req[r].at))
    BY <1>2, <1>3, <2>1, PromotedRow DEF Tiers
  <2>3. 0 \in Time /\ 0 <= provenAt'[s]
    BY <1>1, <1>2, TimesAssumption DEF HistoryStep, Time
  <2>4. RequestsStep
    BY <1>1, <1>2, <1>5, <2>2, <2>3, StoreStep DEF RegistrationReadSession, Optional
  <2> QED
    BY <1>2, <2>4, ReadsRow DEF RegistrationReadSession
<1> QED
  BY <1>4, <1>5

\* The copy is as justified when it is written.
LEMMA RegistrationWriteSessionSafe ==
  ASSUME IInv, NEW r \in Requests, RegistrationWriteSession(r)
  PROVE  SafeStep
BY FinishStep, WritesRow DEF RegistrationWriteSession, At

-----------------------------------------------------------------------------
\* handleRefresh.

\* The key read was registered, and stays on record if it is revoked later.
LEMMA RefreshReadKeySafe ==
  ASSUME IInv, NEW r \in Requests, NEW s \in SessionIds, NEW j \in Jtis,
         RefreshReadKey(r, s, j)
  PROVE  SafeStep
<1>1. HistoryStep
  BY HistoryUnchanged DEF RefreshReadKey, history
<1>2. RequestsStep
  <2>1. CASE keys[s]["native"] = Null
    BY <1>1, <2>1, AnswerStep DEF RefreshReadKey
  <2>2. CASE keys[s]["native"] # Null
    <3>1. /\ keys[s]["native"] \in registered[s][KindOf("refresh")]
          /\ keys[s]["native"] \in Keys
      BY <2>2, StoredKey DEF Kinds, KindOf
    <3>2. Prove(r, "refresh", "readChallenge", s, j, keys[s]["native"])
      BY <2>2 DEF RefreshReadKey
    <3> QED
      BY <1>1, <3>1, <3>2, ProveStep DEF Ops, Optional
  <2> QED
    BY <2>1, <2>2
<1> QED
  BY <1>2, OnlyRequests DEF RefreshReadKey

\* Going on, or burning, means the challenge is the session's own.
LEMMA RefreshReadChallengeSafe ==
  ASSUME IInv, NEW r \in Requests, RefreshReadChallenge(r)
  PROVE  SafeStep
<1> DEFINE s == req[r].sid
           j == req[r].jti
           k == req[r].key
<1>1. HistoryStep
  BY HistoryUnchanged DEF RefreshReadChallenge, history
<1>2. s \in SessionIds /\ j \in Jtis
  BY Carried, CarriedChallenge DEF RefreshReadChallenge, At
<1>3. /\ registered[s][KindOf("refresh")] # {} /\ k \in registered[s][KindOf("refresh")]
      /\ k \in Optional(Keys)
  BY Carried, CarriedKey DEF RefreshReadChallenge, At, HasKey, HoldsKey, RequestState
<1>4. RequestsStep
  <2>1. CASE /\ ChallengeValid(s, j)
             /\ \/ Prove(r, "refresh", "consume", s, j, k)
                \/ Prove(r, "refresh", "burn", s, j, Null)
    <3>1. issuedTo[j] = s
      BY <1>2, <2>1, CheckedChallenge
    <3>2. CASE Prove(r, "refresh", "consume", s, j, k)
      BY <1>1, <1>2, <1>3, <3>1, <3>2, ProveStep DEF Ops
    <3>3. CASE Prove(r, "refresh", "burn", s, j, Null)
      BY <1>1, <1>2, <1>3, <3>1, <3>3, ProveStep DEF Ops, Optional
    <3> QED
      BY <2>1, <3>2, <3>3
  <2>2. CASE Answer(r, req[r].sid)
    BY <1>1, <1>2, <2>2, AnswerStep
  <2> QED
    BY <2>1, <2>2 DEF RefreshReadChallenge
<1> QED
  BY <1>2, <1>4, ReadsChallenge DEF RefreshReadChallenge

\* Accepting a refresh burns the challenge.
LEMMA RefreshConsumeSafe ==
  ASSUME IInv, NEW r \in Requests, RefreshConsume(r)
  PROVE  SafeStep
<1> DEFINE s == req[r].sid
           j == req[r].jti
<1>1. HistoryStep
  BY HistoryUnchanged DEF RefreshConsume
<1>2. s \in SessionIds /\ j \in Jtis /\ req[r] # Idle /\ HasKey(req[r])
  BY Carried, CarriedChallenge DEF RefreshConsume, At, HasChecked, HasKey
<1>3. RowsStep /\ KeysStep
  BY RowsUnchanged, KeysUnchanged DEF RefreshConsume
<1>4. CASE Accept(r) /\ Store(r, "readSession", Null, 0)
  <2>1. ChallengesStep
    BY <1>4, ChallengesAccepted DEF RefreshConsume, At
  <2>2. 0 \in Time /\ 0 <= provenAt'[s]
    BY <1>1, <1>2, TimesAssumption DEF HistoryStep, Time
  <2>3. RequestsStep
    BY <1>1, <1>2, <1>4, <2>2, StoreStep DEF Optional
  <2> QED
    BY <1>1, <1>3, <2>1, <2>3 DEF SafeStep
<1>5. CASE Answer(r, req[r].sid) /\ UNCHANGED accepts
  <2>1. ChallengesStep
    BY <1>2, <1>5, ChallengesBurned DEF RefreshConsume
  <2>2. RequestsStep
    BY <1>1, <1>2, <1>5, AnswerStep
  <2> QED
    BY <1>1, <1>3, <2>1, <2>2 DEF SafeStep
<1> QED
  BY <1>4, <1>5 DEF RefreshConsume

\* The promoted copy is backed by the key verified under.
LEMMA RefreshReadSessionSafe ==
  ASSUME IInv, NEW r \in Requests, RefreshReadSession(r)
  PROVE  SafeStep
<1> DEFINE s   == req[r].sid
           row == StoredSession(s)
<1>1. /\ req[r] # Idle /\ s \in SessionIds /\ HasKey(req[r])
      /\ registered[s]["native"] # {}
  BY Carried, CarriedKey DEF RefreshReadSession, At, HasKey, KindOf
<1>2. RowsStep /\ KeysStep /\ ChallengesStep
  BY <1>1, RowsRead, KeysUnchanged, ChallengesUnchanged DEF RefreshReadSession
<1>3. CASE row = Null
  <2>1. HistoryStep /\ RequestsStep
    BY <1>3, HistoryUnchanged, FinishStep DEF RefreshReadSession
  <2> QED
    BY <1>2, <2>1 DEF SafeStep
<1>4. CASE row # Null
  <2>1. HistoryStep /\ provenAt'[s] = now /\ registered'[s]["native"] # {}
    BY <1>1, <1>4, ProvenHistory DEF RefreshReadSession
  <2>2. row \in Session /\ RowAfter(s, row)
    BY <1>1, <1>4, <2>1, RowRead
  <2>3. now \in Time /\ now <= provenAt'[s] /\ 0 \in Time /\ 0 <= provenAt'[s]
    BY <2>1, TimesAssumption DEF IInv, TypeOK, StorageTypeOK, Time
  <2>4. /\ Promoted(row, "dbsc", now) \in Session
        /\ RowAfter(s, Promoted(row, "dbsc", now))
    BY <1>1, <2>1, <2>2, <2>3, PromotedRow DEF Tiers
  <2>5. RequestsStep
    BY <1>1, <1>4, <2>1, <2>3, <2>4, StoreStep DEF RefreshReadSession, Optional
  <2> QED
    BY <1>2, <2>1, <2>5 DEF SafeStep
<1> QED
  BY <1>3, <1>4

\* The copy is as justified when it is written.
LEMMA RefreshWriteSessionSafe ==
  ASSUME IInv, NEW r \in Requests, RefreshWriteSession(r)
  PROVE  SafeStep
BY FinishStep, WritesRow DEF RefreshWriteSession, At

\* A failing signature burns the challenge without an acceptance.
LEMMA RefreshBurnSafe ==
  ASSUME IInv, NEW r \in Requests, RefreshBurn(r)
  PROVE  SafeStep
BY Burns DEF RefreshBurn, At, HasKey

\* The demoted copy claims nothing new.
LEMMA RefreshReadDemotedSafe ==
  ASSUME IInv, NEW r \in Requests, RefreshReadDemoted(r)
  PROVE  SafeStep
<1>1. HistoryStep
  BY HistoryUnchanged DEF RefreshReadDemoted, history
<1>2. req[r].sid \in SessionIds /\ req[r].pc = "readDemoted" /\ HasKey(req[r])
  BY Carried DEF RefreshReadDemoted, At, HasKey
<1>3. CASE Answer(r, req[r].sid)
  <2>1. RequestsStep
    BY <1>1, <1>2, <1>3, AnswerStep
  <2> QED
    BY <1>2, <2>1, ReadsRow DEF RefreshReadDemoted
<1>4. CASE StoredSession(req[r].sid) # Null
  BY <1>2, <1>4, ReadsDemoted DEF RefreshReadDemoted
<1> QED
  BY <1>3, <1>4 DEF RefreshReadDemoted

\* Writing it claims nothing new; a challenge follows.
LEMMA RefreshWriteDemotedSafe ==
  ASSUME IInv, NEW r \in Requests, RefreshWriteDemoted(r)
  PROVE  SafeStep
<1>1. req[r].sid \in SessionIds /\ HistoryStep
  BY Carried, HistoryUnchanged DEF RefreshWriteDemoted, At, history
<1>2. RequestsStep
  BY <1>1, AnswerStep DEF RefreshWriteDemoted
<1> QED
  BY <1>2, WritesRow DEF RefreshWriteDemoted, At


-----------------------------------------------------------------------------
\* handleBoundRegistration.

\* As for the native registration.
LEMMA BoundRegistrationReadChallengeSafe ==
  ASSUME IInv, NEW r \in Requests, NEW s \in SessionIds, NEW j \in Jtis,
         BoundRegistrationReadChallenge(r, s, j)
  PROVE  SafeStep
<1>1. HistoryStep
  BY HistoryUnchanged DEF BoundRegistrationReadChallenge, history
<1>2. RequestsStep
  <2>1. CASE UNCHANGED req
    BY <2>1, RequestsUnchanged
  <2>2. CASE ChallengeValid(s, j) /\ Prove(r, "boundRegistration", "readKey", s, j, Null)
    <3>1. issuedTo[j] = s
      BY <2>2, CheckedChallenge
    <3> QED
      BY <1>1, <2>2, <3>1, ProveStep DEF Ops, Optional
  <2> QED
    BY <2>1, <2>2 DEF BoundRegistrationReadChallenge
<1> QED
  BY <1>2, ReadsChallenge DEF BoundRegistrationReadChallenge

\* As for the native registration.
LEMMA BoundRegistrationReadKeySafe ==
  ASSUME IInv, NEW r \in Requests, BoundRegistrationReadKey(r)
  PROVE  SafeStep
<1> DEFINE s == req[r].sid
           j == req[r].jti
<1>1. HistoryStep
  BY HistoryUnchanged DEF BoundRegistrationReadKey, history
<1>2. s \in SessionIds /\ j \in Jtis /\ issuedTo[j] = s
  BY Carried, CarriedChallenge DEF BoundRegistrationReadKey, At, HasChecked
<1>3. RequestsStep
  <2>1. CASE Prove(r, "boundRegistration", "consume", s, j, Null)
    BY <1>1, <1>2, <2>1, ProveStep DEF Ops, Optional
  <2>2. CASE Finish(r)
    BY <2>2, FinishStep
  <2> QED
    BY <2>1, <2>2 DEF BoundRegistrationReadKey
<1> QED
  BY <1>3, OnlyRequests DEF BoundRegistrationReadKey

\* As for the native registration, under the polyfill kind.
LEMMA BoundRegistrationConsumeSafe ==
  ASSUME IInv, NEW r \in Requests, BoundRegistrationConsume(r)
  PROVE  SafeStep
<1> DEFINE s == req[r].sid
           j == req[r].jti
<1>1. s \in SessionIds /\ j \in Jtis /\ req[r].pc = "consume"
  BY Carried, CarriedChallenge DEF BoundRegistrationConsume, At, HasChecked
<1>2. RowsStep /\ KeysStep
  BY RowsUnchanged, KeysUnchanged DEF BoundRegistrationConsume
<1>3. ASSUME NEW k \in Keys, Accept(r), Register(s, "bound", k), Proven(s),
             Goto(r, "boundRegistration", "writeKey", s, Null, k, Null, now)
      PROVE  SafeStep
  <2>1. HistoryStep /\ provenAt'[s] = now /\ k \in registered'[s]["bound"]
    BY <1>1, <1>3, RegisterHistory DEF BoundRegistrationConsume, Kinds
  <2>2. ChallengesStep
    BY <1>1, <1>3, ChallengesAccepted DEF BoundRegistrationConsume
  <2>3. now \in Time /\ now <= provenAt'[s]
    BY <2>1 DEF IInv, TypeOK, StorageTypeOK, Time
  <2>4. GoodLocals("boundRegistration", "writeKey", s, Null, k, Null, now)
    BY <1>1, <2>1, <2>3 DEF GoodLocals, Ops, Steps, Optional, KindOf
  <2>5. RequestsStep
    BY <1>3, <2>4, GotoStep
  <2> QED
    BY <1>2, <2>1, <2>2, <2>5 DEF SafeStep
<1>4. CASE Finish(r) /\ UNCHANGED <<accepts, registered, provenAt>>
  <2>1. HistoryStep
    BY <1>4, HistoryUnchanged DEF BoundRegistrationConsume
  <2>2. ChallengesStep
    BY <1>1, <1>4, ChallengesBurned DEF BoundRegistrationConsume
  <2>3. RequestsStep
    BY <1>4, FinishStep
  <2> QED
    BY <1>2, <2>1, <2>2, <2>3 DEF SafeStep
<1> QED
  BY <1>3, <1>4 DEF BoundRegistrationConsume

\* As for the native registration, under the polyfill kind.
LEMMA BoundRegistrationWriteKeySafe ==
  ASSUME IInv, NEW r \in Requests, BoundRegistrationWriteKey(r)
  PROVE  SafeStep
<1> DEFINE s == req[r].sid
<1>1. HistoryStep /\ RowsStep /\ ChallengesStep
  BY HistoryUnchanged, RowsUnchanged, ChallengesUnchanged DEF BoundRegistrationWriteKey, history
<1>2. /\ req[r] # Idle /\ s \in SessionIds /\ req[r].op = "boundRegistration"
      /\ req[r].at \in Time /\ req[r].at <= provenAt[s]
      /\ HasKey(req[r]) /\ HoldsKey(req[r])
  BY Carried DEF BoundRegistrationWriteKey, At, HasKey, HoldsKey
<1>3. req[r].key \in registered[s]["bound"] /\ req[r].key \in Keys
  BY <1>2, CarriedKey DEF BoundRegistrationWriteKey, At, KindOf, IInv, TypeOK, Kinds
<1>4. KeysStep
  BY <1>2, <1>3 DEF BoundRegistrationWriteKey, SetBoundKey, KeysStep, IInv, TypeOK, StorageTypeOK,
     Optional, Kinds
<1>5. req[r].at <= provenAt'[s]
  BY <1>2 DEF BoundRegistrationWriteKey, history
<1>6. RequestsStep
  BY <1>1, <1>2, <1>5, StoreStep DEF BoundRegistrationWriteKey, Optional
<1> QED
  BY <1>1, <1>4, <1>6 DEF SafeStep

\* The row is carried over one more await.
LEMMA BoundRegistrationReadSessionSafe ==
  ASSUME IInv, NEW r \in Requests, BoundRegistrationReadSession(r)
  PROVE  SafeStep
<1> DEFINE s   == req[r].sid
           row == StoredSession(s)
<1>1. HistoryStep
  BY HistoryUnchanged DEF BoundRegistrationReadSession, history
<1>2. /\ req[r] # Idle /\ s \in SessionIds /\ HasKey(req[r])
      /\ req[r].at \in Time /\ req[r].at <= provenAt'[s]
  BY Carried DEF BoundRegistrationReadSession, At, HasKey, history
<1>3. 0 \in Time /\ 0 <= provenAt'[s]
  BY <1>1, <1>2, TimesAssumption DEF HistoryStep, Time
<1>4. CASE row = Null
  BY <1>2, <1>4, FinishStep, ReadsRow DEF BoundRegistrationReadSession
<1>5. CASE row # Null
  <2>1. row \in Session /\ RowAfter(s, row)
    BY <1>1, <1>2, <1>5, RowRead
  <2>2. RequestsStep
    BY <1>1, <1>2, <1>3, <1>5, <2>1, StoreStep DEF BoundRegistrationReadSession, Optional
  <2> QED
    BY <1>2, <2>2, ReadsRow DEF BoundRegistrationReadSession
<1> QED
  BY <1>4, <1>5

\* Tier bound is backed by the polyfill key; a tier that is kept was backed.
LEMMA BoundRegistrationReadNativeSafe ==
  ASSUME IInv, NEW r \in Requests, BoundRegistrationReadNative(r)
  PROVE  SafeStep
<1> DEFINE s    == req[r].sid
           row  == req[r].draft
           tier == TierBesideNative(s, row)
<1>0. /\ req[r] # Idle /\ s \in SessionIds /\ HasKey(req[r])
      /\ row \in Session /\ req[r].pc = "readNative"
  BY Carried DEF BoundRegistrationReadNative, At, HasKey
<1>1. HistoryStep /\ req[r].at \in Time /\ req[r].at <= provenAt'[s]
  BY <1>0, Carried, HistoryUnchanged DEF BoundRegistrationReadNative, At, history
<1>2. RowAfter(s, row)
  BY <1>0, <1>1, CarriedRow
<1>3. registered'[s]["bound"] # {}
  <2>1. registered[s]["bound"] # {}
    BY <1>0, CarriedKey DEF BoundRegistrationReadNative, At, KindOf
  <2> QED
    BY <1>0, <1>1, <2>1 DEF HistoryStep, Kinds
<1>4. /\ tier \in Tiers
      /\ tier = "dbsc" => registered'[s]["native"] # {}
      /\ tier = "bound" => registered'[s]["bound"] # {}
  BY <1>0, <1>2, <1>3 DEF TierBesideNative, Session, Tiers, RowAfter
<1>5. /\ Promoted(row, tier, req[r].at) \in Session
      /\ RowAfter(s, Promoted(row, tier, req[r].at))
  BY <1>0, <1>1, <1>2, <1>4, PromotedRow
<1>6. 0 \in Time /\ 0 <= provenAt'[s]
  BY <1>0, <1>1, TimesAssumption DEF HistoryStep, Time
<1>7. RequestsStep
  BY <1>0, <1>1, <1>5, <1>6, StoreStep DEF BoundRegistrationReadNative, Optional
<1>8. RowsStep /\ KeysStep /\ ChallengesStep
  BY RowsUnchanged, KeysUnchanged, ChallengesUnchanged
     DEF BoundRegistrationReadNative, storageVars, history
<1> QED
  BY <1>1, <1>7, <1>8 DEF SafeStep

\* The copy is as justified when it is written.
LEMMA BoundRegistrationWriteSessionSafe ==
  ASSUME IInv, NEW r \in Requests, BoundRegistrationWriteSession(r)
  PROVE  SafeStep
BY FinishStep, WritesRow DEF BoundRegistrationWriteSession, At

-----------------------------------------------------------------------------
\* handleBoundRefresh.

\* The key read was registered, under the polyfill kind.
LEMMA BoundRefreshReadKeySafe ==
  ASSUME IInv, NEW r \in Requests, NEW s \in SessionIds, NEW j \in Jtis,
         BoundRefreshReadKey(r, s, j)
  PROVE  SafeStep
<1>1. HistoryStep
  BY HistoryUnchanged DEF BoundRefreshReadKey, history
<1>2. RequestsStep
  <2>1. /\ keys[s]["bound"] \in registered[s][KindOf("boundRefresh")]
        /\ keys[s]["bound"] \in Keys
    BY StoredKey DEF BoundRefreshReadKey, Kinds, KindOf
  <2>2. Prove(r, "boundRefresh", "readChallenge", s, j, keys[s]["bound"])
    BY DEF BoundRefreshReadKey
  <2> QED
    BY <1>1, <2>1, <2>2, ProveStep DEF Ops, Optional
<1> QED
  BY <1>2, OnlyRequests DEF BoundRefreshReadKey

\* Going on, or burning, means the challenge is the session's own.
LEMMA BoundRefreshReadChallengeSafe ==
  ASSUME IInv, NEW r \in Requests, BoundRefreshReadChallenge(r)
  PROVE  SafeStep
<1> DEFINE s == req[r].sid
           j == req[r].jti
           k == req[r].key
<1>1. HistoryStep
  BY HistoryUnchanged DEF BoundRefreshReadChallenge, history
<1>2. s \in SessionIds /\ j \in Jtis
  BY Carried, CarriedChallenge DEF BoundRefreshReadChallenge, At
<1>3. /\ registered[s][KindOf("boundRefresh")] # {} /\ k \in registered[s][KindOf("boundRefresh")]
      /\ k \in Optional(Keys)
  BY Carried, CarriedKey DEF BoundRefreshReadChallenge, At, HasKey, HoldsKey, RequestState
<1>4. RequestsStep
  <2>1. CASE /\ ChallengeValid(s, j)
             /\ \/ Prove(r, "boundRefresh", "consume", s, j, k)
                \/ Prove(r, "boundRefresh", "burn", s, j, Null)
    <3>1. issuedTo[j] = s
      BY <1>2, <2>1, CheckedChallenge
    <3>2. CASE Prove(r, "boundRefresh", "consume", s, j, k)
      BY <1>1, <1>2, <1>3, <3>1, <3>2, ProveStep DEF Ops
    <3>3. CASE Prove(r, "boundRefresh", "burn", s, j, Null)
      BY <1>1, <1>2, <1>3, <3>1, <3>3, ProveStep DEF Ops, Optional
    <3> QED
      BY <2>1, <3>2, <3>3
  <2>2. CASE Finish(r)
    BY <2>2, FinishStep
  <2> QED
    BY <2>1, <2>2 DEF BoundRefreshReadChallenge
<1> QED
  BY <1>2, <1>4, ReadsChallenge DEF BoundRefreshReadChallenge

\* Accepting a refresh burns the challenge.
LEMMA BoundRefreshConsumeSafe ==
  ASSUME IInv, NEW r \in Requests, BoundRefreshConsume(r)
  PROVE  SafeStep
<1> DEFINE s == req[r].sid
           j == req[r].jti
<1>1. HistoryStep
  BY HistoryUnchanged DEF BoundRefreshConsume
<1>2. s \in SessionIds /\ j \in Jtis /\ req[r] # Idle /\ HasKey(req[r])
  BY Carried, CarriedChallenge DEF BoundRefreshConsume, At, HasChecked, HasKey
<1>3. RowsStep /\ KeysStep
  BY RowsUnchanged, KeysUnchanged DEF BoundRefreshConsume
<1>4. CASE Accept(r) /\ Store(r, "readSession", Null, 0)
  <2>1. ChallengesStep
    BY <1>4, ChallengesAccepted DEF BoundRefreshConsume, At
  <2>2. 0 \in Time /\ 0 <= provenAt'[s]
    BY <1>1, <1>2, TimesAssumption DEF HistoryStep, Time
  <2>3. RequestsStep
    BY <1>1, <1>2, <1>4, <2>2, StoreStep DEF Optional
  <2> QED
    BY <1>1, <1>3, <2>1, <2>3 DEF SafeStep
<1>5. CASE Finish(r) /\ UNCHANGED accepts
  <2>1. ChallengesStep
    BY <1>2, <1>5, ChallengesBurned DEF BoundRefreshConsume
  <2>2. RequestsStep
    BY <1>5, FinishStep
  <2> QED
    BY <1>1, <1>3, <2>1, <2>2 DEF SafeStep
<1> QED
  BY <1>4, <1>5 DEF BoundRefreshConsume

\* The row is carried over one more await.
LEMMA BoundRefreshReadSessionSafe ==
  ASSUME IInv, NEW r \in Requests, BoundRefreshReadSession(r)
  PROVE  SafeStep
<1> DEFINE s   == req[r].sid
           row == StoredSession(s)
<1>1. HistoryStep
  BY HistoryUnchanged DEF BoundRefreshReadSession, history
<1>2. /\ req[r] # Idle /\ s \in SessionIds /\ HasKey(req[r])
      /\ req[r].at \in Time /\ req[r].at <= provenAt'[s]
  BY Carried DEF BoundRefreshReadSession, At, HasKey, history
<1>3. 0 \in Time /\ 0 <= provenAt'[s]
  BY <1>1, <1>2, TimesAssumption DEF HistoryStep, Time
<1>4. CASE row = Null
  BY <1>2, <1>4, FinishStep, ReadsRow DEF BoundRefreshReadSession
<1>5. CASE row # Null
  <2>1. row \in Session /\ RowAfter(s, row)
    BY <1>1, <1>2, <1>5, RowRead
  <2>2. RequestsStep
    BY <1>1, <1>2, <1>3, <1>5, <2>1, StoreStep DEF BoundRefreshReadSession, Optional
  <2> QED
    BY <1>2, <2>2, ReadsRow DEF BoundRefreshReadSession
<1> QED
  BY <1>4, <1>5

\* As for the bound registration, at a new clock reading.
LEMMA BoundRefreshReadNativeSafe ==
  ASSUME IInv, NEW r \in Requests, BoundRefreshReadNative(r)
  PROVE  SafeStep
<1> DEFINE s    == req[r].sid
           row  == req[r].draft
           tier == TierBesideNative(s, row)
<1>0. /\ req[r] # Idle /\ s \in SessionIds /\ HasKey(req[r])
      /\ row \in Session /\ req[r].pc = "readNative"
  BY Carried DEF BoundRefreshReadNative, At, HasKey
<1>1. HistoryStep /\ now \in Time /\ now <= provenAt'[s]
  BY <1>0, ProvenHistory DEF BoundRefreshReadNative, At, history, IInv, TypeOK, StorageTypeOK, Time
<1>2. RowAfter(s, row)
  BY <1>0, <1>1, CarriedRow
<1>3. registered'[s]["bound"] # {}
  <2>1. registered[s]["bound"] # {}
    BY <1>0, CarriedKey DEF BoundRefreshReadNative, At, KindOf
  <2> QED
    BY <1>0, <1>1, <2>1 DEF HistoryStep, Kinds
<1>4. /\ tier \in Tiers
      /\ tier = "dbsc" => registered'[s]["native"] # {}
      /\ tier = "bound" => registered'[s]["bound"] # {}
  BY <1>0, <1>2, <1>3 DEF TierBesideNative, Session, Tiers, RowAfter
<1>5. /\ Promoted(row, tier, now) \in Session
      /\ RowAfter(s, Promoted(row, tier, now))
  BY <1>0, <1>1, <1>2, <1>4, PromotedRow
<1>6. 0 \in Time /\ 0 <= provenAt'[s]
  BY <1>0, <1>1, TimesAssumption DEF HistoryStep, Time
<1>7. RequestsStep
  BY <1>0, <1>1, <1>5, <1>6, StoreStep DEF BoundRefreshReadNative, Optional
<1>8. RowsStep /\ KeysStep /\ ChallengesStep
  BY RowsUnchanged, KeysUnchanged, ChallengesUnchanged
     DEF BoundRefreshReadNative, storageVars, history
<1> QED
  BY <1>1, <1>7, <1>8 DEF SafeStep

\* The copy is as justified when it is written.
LEMMA BoundRefreshWriteSessionSafe ==
  ASSUME IInv, NEW r \in Requests, BoundRefreshWriteSession(r)
  PROVE  SafeStep
BY FinishStep, WritesRow DEF BoundRefreshWriteSession, At

\* A failing signature burns the challenge without an acceptance.
LEMMA BoundRefreshBurnSafe ==
  ASSUME IInv, NEW r \in Requests, BoundRefreshBurn(r)
  PROVE  SafeStep
BY Burns DEF BoundRefreshBurn, At, HasKey

\* The demoted copy claims nothing new.
LEMMA BoundRefreshReadDemotedSafe ==
  ASSUME IInv, NEW r \in Requests, BoundRefreshReadDemoted(r)
  PROVE  SafeStep
<1>1. HistoryStep
  BY HistoryUnchanged DEF BoundRefreshReadDemoted, history
<1>2. req[r].sid \in SessionIds /\ req[r].pc = "readDemoted" /\ HasKey(req[r])
  BY Carried DEF BoundRefreshReadDemoted, At, HasKey
<1>3. CASE Finish(r)
  <2>1. RequestsStep
    BY <1>3, FinishStep
  <2> QED
    BY <1>2, <2>1, ReadsRow DEF BoundRefreshReadDemoted
<1>4. CASE StoredSession(req[r].sid) # Null
  BY <1>2, <1>4, ReadsDemoted DEF BoundRefreshReadDemoted
<1> QED
  BY <1>3, <1>4 DEF BoundRefreshReadDemoted

\* Writing it claims nothing new.
LEMMA BoundRefreshWriteDemotedSafe ==
  ASSUME IInv, NEW r \in Requests, BoundRefreshWriteDemoted(r)
  PROVE  SafeStep
BY FinishStep, WritesRow DEF BoundRefreshWriteDemoted, At

-----------------------------------------------------------------------------
\* The queries, the middleware, revocation, failures and the clock.

\* GET state reads, and may drop an expired row.
LEMMA StateReadSessionSafe ==
  ASSUME IInv, NEW r \in Requests, NEW s \in SessionIds, StateReadSession(r, s)
  PROVE  SafeStep
<1>1. HistoryStep
  BY HistoryUnchanged DEF StateReadSession, history
<1>2. RequestsStep
  <2>1. CASE UNCHANGED req
    BY <2>1, RequestsUnchanged
  <2>2. CASE Goto(r, "state", "readKey", s, Null, Null, Null, 0)
    <3>1. 0 \in Time /\ 0 <= provenAt'[s]
      BY <1>1, TimesAssumption DEF HistoryStep, Time
    <3>2. GoodLocals("state", "readKey", s, Null, Null, Null, 0)
      BY <3>1 DEF GoodLocals, Ops, Steps, Optional
    <3> QED
      BY <2>2, <3>2, GotoStep
  <2> QED
    BY <2>1, <2>2 DEF StateReadSession
<1> QED
  BY <1>2, ReadsRow DEF StateReadSession

\* GET state goes on to a challenge of its session, or ends.
LEMMA StateReadKeysSafe ==
  ASSUME IInv, NEW r \in Requests, StateReadKeys(r)
  PROVE  SafeStep
<1>1. HistoryStep /\ req[r].sid \in SessionIds
  BY Carried, HistoryUnchanged DEF StateReadKeys, At, history
<1>2. RequestsStep
  BY <1>1, AnswerStep, FinishStep DEF StateReadKeys
<1> QED
  BY <1>2, OnlyRequests DEF StateReadKeys

\* GET challenge goes on to a challenge of its session, or ends.
LEMMA ChallengeReadSessionSafe ==
  ASSUME IInv, NEW r \in Requests, NEW s \in SessionIds, ChallengeReadSession(r, s)
  PROVE  SafeStep
<1>1. HistoryStep
  BY HistoryUnchanged DEF ChallengeReadSession, history
<1>2. RequestsStep
  BY <1>1, AnswerStep, RequestsUnchanged DEF ChallengeReadSession
<1> QED
  BY <1>2, ReadsRow DEF ChallengeReadSession

\* The middleware at most drops an expired row.
LEMMA MiddlewareSafe ==
  ASSUME IInv, NEW s \in SessionIds, Middleware(s)
  PROVE  SafeStep
BY RequestsUnchanged, ReadsRow DEF Middleware

\* Revocation only removes rows and keys.
LEMMA DropSafe ==
  ASSUME IInv, NEW S \in SUBSET SessionIds, DropSessions(S),
         UNCHANGED <<now, req, history>>
  PROVE  SafeStep
<1>1. HistoryStep /\ RequestsStep /\ ChallengesStep
  BY HistoryUnchanged, RequestsUnchanged, ChallengesUnchanged DEF DropSessions, history
<1>2. RowsStep
  BY DEF DropSessions, RowsStep, IInv, TypeOK, StorageTypeOK, Optional
<1>3. KeysStep
  BY DEF DropSessions, KeysStep, IInv, TypeOK, StorageTypeOK, Optional
<1> QED
  BY <1>1, <1>2, <1>3 DEF SafeStep

\* Revoking one session.
LEMMA RevokeSafe ==
  ASSUME IInv, NEW s \in SessionIds, Revoke(s)
  PROVE  SafeStep
BY DropSafe DEF Revoke, RevokeSession

\* Revoking the sessions of a user.
LEMMA RevokeUserSafe ==
  ASSUME IInv, NEW u \in Users, RevokeUser(u)
  PROVE  SafeStep
<1> DEFINE S == {s \in SessionIds : sessions[s] # Null /\ UserOf[s] = u}
<1>1. S \in SUBSET SessionIds
  OBVIOUS
<1>2. DropSessions(S) /\ UNCHANGED <<now, req, history>>
  BY DEF RevokeUser, RevokeAllForUser
<1> QED
  BY <1>1, <1>2, DropSafe

\* Keys that are taken away were registered when they were stored.
LEMMA DeleteKeysSafe ==
  ASSUME IInv, NEW s \in SessionIds, NEW kinds, DeleteKeys(s, kinds)
  PROVE  SafeStep
<1>1. HistoryStep /\ RequestsStep /\ RowsStep /\ ChallengesStep
  BY HistoryUnchanged, RequestsUnchanged, RowsUnchanged, ChallengesUnchanged
     DEF DeleteKeys, history
<1>2. KeysStep
  BY DEF DeleteKeys, DeleteBoundKey, KeysStep, IInv, TypeOK, StorageTypeOK, Optional
<1> QED
  BY <1>1, <1>2 DEF SafeStep

\* Sweeping the maps is reading all of them.
LEMMA CollectExpiredSafe ==
  ASSUME IInv, CollectExpired
  PROVE  SafeStep
<1>1. HistoryStep /\ RequestsStep /\ KeysStep
  BY HistoryUnchanged, RequestsUnchanged, KeysUnchanged DEF CollectExpired, history
<1>2. RowsStep
  BY DEF CollectExpired, Gc, StoredSession, RowsStep, IInv, TypeOK, StorageTypeOK,
     Optional
<1>3. ChallengesStep
  BY DEF CollectExpired, Gc, StoredChallenge, history, ChallengesStep, LoseChallenges,
     IInv, TypeOK, StorageTypeOK, Optional
<1> QED
  BY <1>1, <1>2, <1>3 DEF SafeStep

\* A handler that dies between two storage calls.
LEMMA AbortSafe ==
  ASSUME IInv, NEW r \in Requests, Abort(r)
  PROVE  SafeStep
BY FinishStep, OnlyRequests DEF Abort

\* Losing the maps loses no history.
LEMMA RestartSafe ==
  ASSUME IInv, Restart
  PROVE  SafeStep
<1>1. HistoryStep
  BY HistoryUnchanged DEF Restart, history
<1>2. RequestsStep
  <2>1. Idle \in RequestState
    BY TimesAssumption DEF Idle, RequestState, Ops, Steps, Optional, Time
  <2> QED
    BY <2>1 DEF Restart, RequestsStep, ReqInv
<1>3. RowsStep /\ KeysStep
  BY DEF Restart, StorageLost, RowsStep, KeysStep, Optional
<1>4. ChallengesStep
  BY DEF Restart, StorageLost, ChallengesStep, LoseChallenges, history, Optional,
         IInv, TypeOK
<1> QED
  BY <1>1, <1>2, <1>3, <1>4 DEF SafeStep

\* Clock readings that were taken stay in the past.
LEMMA TickSafe ==
  ASSUME IInv, Tick
  PROVE  SafeStep
<1>1. HistoryStep
  BY TimesAssumption DEF Tick, history, HistoryStep, IInv, TypeOK, StorageTypeOK,
     ClocksInv, Time
<1>2. RequestsStep /\ RowsStep /\ KeysStep /\ ChallengesStep
  BY RequestsUnchanged, RowsUnchanged, KeysUnchanged, ChallengesUnchanged
     DEF Tick, storageVars, history
<1> QED
  BY <1>1, <1>2 DEF SafeStep

-----------------------------------------------------------------------------
\* The specification.

\* The initial state: empty storage, no requests.
LEMMA InitInv == Init => IInv
<1> SUFFICES ASSUME Init PROVE IInv
  OBVIOUS
<1>1. TypeOK
  <2>1. Idle \in RequestState
    BY TimesAssumption DEF Idle, RequestState, Ops, Steps, Optional, Time
  <2> QED
    BY <2>1, TimesAssumption DEF Init, TypeOK, StorageInit, StorageTypeOK, Time, Optional
<1>2. SingleUse /\ ChallengesInv /\ RowsInv
  BY DEF Init, StorageInit, SingleUse, ChallengesInv, RowsInv
<1>3. KeyProvenance
  BY DEF Init, StorageInit, KeyProvenance
<1>4. RequestsInv /\ ClocksInv
  BY DEF Init, RequestsInv, ReqInv, ClocksInv
<1> QED
  BY <1>1, <1>2, <1>3, <1>4 DEF IInv

\* Every action of the server is a safe step.
LEMMA NextSafe ==
  ASSUME IInv, Next
  PROVE  SafeStep
<1>1. ASSUME NEW r \in Requests, Handle(r)
      PROVE  SafeStep
  <2>1. CASE \E j \in Jtis : IssueChallenge(r, j)
    BY <2>1, IssueChallengeSafe
  <2>2. CASE BindSession(r)
    BY <2>2, BindReadSessionSafe, BindWriteSessionSafe DEF BindSession
  <2>3. CASE HandleRegistration(r)
    BY <2>3, RegistrationReadChallengeSafe, RegistrationReadKeySafe,
       RegistrationConsumeSafe, RegistrationWriteKeySafe,
       RegistrationReadSessionSafe, RegistrationWriteSessionSafe
       DEF HandleRegistration
  <2>4. CASE HandleRefresh(r)
    BY <2>4, RefreshReadKeySafe, RefreshReadChallengeSafe, RefreshConsumeSafe,
       RefreshReadSessionSafe, RefreshWriteSessionSafe, RefreshBurnSafe,
       RefreshReadDemotedSafe, RefreshWriteDemotedSafe
       DEF HandleRefresh
  <2>5. CASE HandleBoundRegistration(r)
    BY <2>5, BoundRegistrationReadChallengeSafe, BoundRegistrationReadKeySafe,
       BoundRegistrationConsumeSafe, BoundRegistrationWriteKeySafe,
       BoundRegistrationReadSessionSafe, BoundRegistrationReadNativeSafe,
       BoundRegistrationWriteSessionSafe
       DEF HandleBoundRegistration
  <2>6. CASE HandleBoundRefresh(r)
    BY <2>6, BoundRefreshReadKeySafe, BoundRefreshReadChallengeSafe,
       BoundRefreshConsumeSafe, BoundRefreshReadSessionSafe,
       BoundRefreshReadNativeSafe, BoundRefreshWriteSessionSafe,
       BoundRefreshBurnSafe, BoundRefreshReadDemotedSafe,
       BoundRefreshWriteDemotedSafe
       DEF HandleBoundRefresh
  <2>7. CASE HandleQueries(r)
    BY <2>7, StateReadSessionSafe, StateReadKeysSafe, ChallengeReadSessionSafe
       DEF HandleQueries
  <2> QED
    BY <1>1, <2>1, <2>2, <2>3, <2>4, <2>5, <2>6, <2>7 DEF Handle
<1> QED
  BY <1>1, AbortSafe, RefreshFirstLegSafe, MiddlewareSafe, RevokeSafe,
     RevokeUserSafe, DeleteKeysSafe, CollectExpiredSafe, RestartSafe, TickSafe
     DEF Next

\* A step that changes nothing is safe.
LEMMA StutterSafe ==
  ASSUME IInv, UNCHANGED vars
  PROVE  SafeStep
BY RequestsUnchanged, OnlyRequests DEF vars, storageVars, history

\* Every step is safe and preserves the invariant.
LEMMA StepSafe == IInv /\ [Next]_vars => SafeStep /\ IInv'
BY NextSafe, StutterSafe, SafeStepInv

\* The inductive invariant holds of every state of every behaviour.
THEOREM Invariant == Spec => []IInv
<1>1. IInv /\ [Next]_vars => IInv'
  BY StepSafe
<1> QED
  BY InitInv, <1>1, PTL DEF Spec

\* The storage, the requests and the history variables keep their types
\* (TypeOK), for every deployment.
THEOREM TypeCorrect == Spec => []TypeOK
<1>1. IInv => TypeOK
  BY DEF IInv
<1> QED
  BY Invariant, <1>1, PTL

\* No challenge lets two proofs in (SingleUse), however many requests race.
THEOREM SingleUseHolds == Spec => []SingleUse
<1>1. IInv => SingleUse
  BY DEF IInv
<1> QED
  BY Invariant, <1>1, PTL

\* Every stored key was introduced by an accepted registration of its session
\* and kind (KeyProvenance).
THEOREM KeyProvenanceHolds == Spec => []KeyProvenance
<1>1. IInv => KeyProvenance
  BY DEF IInv
<1> QED
  BY Invariant, <1>1, PTL

\* No stored row claims a tier that was never proven (TierBacked).
THEOREM TierBackedHolds == Spec => []TierBacked
<1>1. IInv => TierBacked
  BY DEF IInv, RowsInv, RowInv, TierBacked
<1> QED
  BY Invariant, <1>1, PTL

\* A session is handed to the application as bound only within the lifetime of
\* its last accepted proof (Freshness).
THEOREM FreshnessHolds == Spec => []Freshness
<1>1. ASSUME IInv PROVE Freshness
  <2> SUFFICES ASSUME NEW s \in SessionIds, EffectiveTier(s) # "none"
               PROVE  now <= provenAt[s] + BoundCookieTtl + RefreshGrace
    BY DEF Freshness
  <2>1. /\ sessions[s] # Null /\ sessions[s] \in Session
        /\ ~(now > sessions[s].lastRefreshAt + BoundCookieTtl + RefreshGrace)
    BY <1>1 DEF EffectiveTier, StoredSession, IInv, TypeOK, StorageTypeOK, Optional
  <2>2. sessions[s].lastRefreshAt <= provenAt[s]
    BY <1>1, <2>1 DEF IInv, RowsInv, RowInv
  <2>3. /\ sessions[s].lastRefreshAt \in Int /\ provenAt[s] \in Int /\ now \in Int
        /\ BoundCookieTtl \in Int /\ RefreshGrace \in Int
    BY <1>1, <2>1, TimesAssumption DEF Session, Time, IInv, TypeOK, StorageTypeOK
  <2> QED
    BY <2>1, <2>2, <2>3
<1> QED
  BY Invariant, <1>1, PTL

\* No session outlives the lifetime its login gave it (LifetimeBounded).
THEOREM LifetimeBoundedHolds == Spec => []LifetimeBounded
<1>1. IInv => LifetimeBounded
  BY DEF IInv, RowsInv, RowInv, LifetimeBounded
<1> QED
  BY Invariant, <1>1, PTL

\* A proof is accepted only for the session its challenge was issued to, and a
\* refresh only under a registered key of that session (AcceptedProofs).
THEOREM AcceptedProofsHold == Spec => AcceptedProofs
<1> DEFINE A == \A j \in Jtis :
       accepts'[j] # accepts[j] =>
         \E r \in Requests :
           /\ req[r].pc = "consume" /\ req[r].jti = j
           /\ req[r].sid = issuedTo[j]
           /\ req[r].op \in {"refresh", "boundRefresh"} =>
                req[r].key \in registered[req[r].sid][KindOf(req[r].op)]
<1>1. ASSUME IInv, [Next]_vars
      PROVE  A
  <2> SUFFICES ASSUME NEW j \in Jtis, accepts'[j] # accepts[j]
               PROVE  AcceptOver(j)
    BY DEF AcceptOver
  <2>1. ChallengesStep
    BY <1>1, StepSafe DEF SafeStep
  <2>2. PICK i \in Jtis : AcceptOver(i)
    BY <2>1 DEF ChallengesStep, LoseChallenges, IssueTo
  <2>3. i = j
    BY <1>1, <2>2 DEF AcceptOver, IInv, TypeOK
  <2> QED
    BY <2>2, <2>3
<1>2. IInv /\ [Next]_vars => [A]_vars
  BY <1>1
<1> QED
  BY Invariant, <1>2, PTL DEF Spec, AcceptedProofs

-----------------------------------------------------------------------------
\* The server implements the challenge ledger.

\* A challenge that goes is a challenge that dies, unless it was accepted.
LEMMA LosingDies ==
  ASSUME IInv, IInv', LoseChallenges
  PROVE  Ledger!Next \/ UNCHANGED <<LedgerPhase, issuedTo, accepts>>
<1> DEFINE J == {j \in Jtis : LedgerPhase[j] = "open" /\ challenges'[j] = Null}
<1>1. \A j \in J : LedgerPhase[j] = "open"
  OBVIOUS
<1>2. LedgerPhase' = [j \in Jtis |-> IF j \in J THEN "dead" ELSE LedgerPhase[j]]
  <2> SUFFICES ASSUME NEW j \in Jtis
               PROVE  LedgerPhase'[j] = IF j \in J THEN "dead" ELSE LedgerPhase[j]
    BY DEF LedgerPhase
  <2>1. CASE challenges'[j] = challenges[j]
    BY <2>1 DEF LoseChallenges, LedgerPhase, Consumable
  <2>2. CASE challenges'[j] = Null
    BY <2>2 DEF LoseChallenges, LedgerPhase, Consumable
  <2> QED
    BY <2>1, <2>2 DEF LoseChallenges
<1>3. Ledger!Die(J)
  BY <1>1, <1>2 DEF Ledger!Die, LoseChallenges
<1>4. J \in SUBSET Jtis
  OBVIOUS
<1> QED
  BY <1>3, <1>4 DEF Ledger!Next

\* Issuing a challenge is the ledger's Issue.
LEMMA IssuingIssues ==
  ASSUME IInv, IInv', NEW j \in Jtis, NEW s \in SessionIds, IssueTo(j, s)
  PROVE  Ledger!Issue(j, s)
<1>1. /\ accepts[j] = 0 /\ issuedTo'[j] = s /\ s # Null
      /\ challenges'[j] # Null /\ ~challenges'[j].consumed
  BY NullAssumption DEF IssueTo, IInv, TypeOK, StorageTypeOK, ChallengesInv
<1>2. LedgerPhase[j] = "fresh" /\ LedgerPhase'[j] = "open"
  BY <1>1 DEF IssueTo, LedgerPhase, Consumable
<1>3. \A i \in Jtis : i # j => LedgerPhase'[i] = LedgerPhase[i]
  BY DEF IssueTo, LedgerPhase, Consumable, IInv, TypeOK, StorageTypeOK
<1>4. LedgerPhase' = [LedgerPhase EXCEPT ![j] = "open"]
  BY <1>2, <1>3 DEF LedgerPhase
<1> QED
  BY <1>2, <1>4 DEF Ledger!Issue, IssueTo

\* What both ways of consuming have in common.
LEMMA ConsumedPhase ==
  ASSUME IInv, NEW j \in Jtis, Consume(j)
  PROVE  /\ LedgerPhase[j] = "open" /\ accepts[j] = 0
         /\ issuedTo[j] \in SessionIds /\ ~(Consumable(j))'
         /\ \A i \in Jtis : i # j => challenges'[i] = challenges[i]
<1>1. /\ challenges[j] # Null /\ ~challenges[j].consumed /\ challenges[j] \in Challenge
      /\ challenges[j].sessionId = issuedTo[j]
  BY DEF Consume, Consumable, IInv, TypeOK, StorageTypeOK, ChallengesInv, Optional
<1>2. issuedTo[j] \in SessionIds /\ issuedTo[j] # Null
  BY <1>1, NullAssumption DEF Challenge
<1>3. accepts[j] = 0
  BY DEF Consume, IInv, TypeOK, ChallengesInv
<1>4. challenges'[j] = [challenges[j] EXCEPT !.consumed = TRUE]
  BY DEF Consume, IInv, TypeOK, StorageTypeOK
<1>5. ~(Consumable(j))'
  BY <1>1, <1>4 DEF Consumable, Challenge
<1>6. \A i \in Jtis : i # j => challenges'[i] = challenges[i]
  BY DEF Consume, IInv, TypeOK, StorageTypeOK
<1>7. LedgerPhase[j] = "open"
  BY <1>2, <1>3 DEF LedgerPhase, Consume
<1> QED
  BY <1>2, <1>3, <1>5, <1>6, <1>7

\* Consuming a challenge without accepting is the ledger's Die.
LEMMA BurningDies ==
  ASSUME IInv, NEW j \in Jtis, Consume(j), UNCHANGED accepts
  PROVE  Ledger!Die({j})
<1>1. /\ LedgerPhase[j] = "open" /\ accepts[j] = 0 /\ issuedTo[j] # Null
      /\ ~(Consumable(j))'
      /\ \A i \in Jtis : i # j => challenges'[i] = challenges[i]
  BY ConsumedPhase, NullAssumption
<1>2. LedgerPhase'[j] = "dead"
  BY <1>1 DEF LedgerPhase, Consume
<1>3. \A i \in Jtis : i # j => LedgerPhase'[i] = LedgerPhase[i]
  BY <1>1 DEF LedgerPhase, Consume, Consumable
<1>4. LedgerPhase' = [i \in Jtis |-> IF i \in {j} THEN "dead" ELSE LedgerPhase[i]]
  BY <1>2, <1>3 DEF LedgerPhase
<1> QED
  BY <1>1, <1>4 DEF Ledger!Die, Consume

\* Accepting a proof is the ledger's Accept, for the owner of the challenge.
LEMMA AcceptingAccepts ==
  ASSUME IInv, NEW j \in Jtis, AcceptOver(j)
  PROVE  issuedTo[j] \in SessionIds /\ Ledger!Accept(j, issuedTo[j])
<1>1. Consume(j) /\ accepts' = [accepts EXCEPT ![j] = @ + 1]
  BY DEF AcceptOver
<1>2. /\ LedgerPhase[j] = "open" /\ accepts[j] = 0
      /\ issuedTo[j] \in SessionIds /\ issuedTo[j] # Null
      /\ \A i \in Jtis : i # j => challenges'[i] = challenges[i]
  BY <1>1, ConsumedPhase, NullAssumption
<1>3. accepts' = [accepts EXCEPT ![j] = 1] /\ accepts'[j] = 1
  BY <1>1, <1>2 DEF IInv, TypeOK
<1>4. LedgerPhase'[j] = "accepted"
  BY <1>1, <1>2, <1>3 DEF LedgerPhase, Consume
<1>5. \A i \in Jtis : i # j => LedgerPhase'[i] = LedgerPhase[i]
  BY <1>1, <1>2 DEF LedgerPhase, Consume, Consumable, IInv, TypeOK
<1>6. LedgerPhase' = [LedgerPhase EXCEPT ![j] = "accepted"]
  BY <1>4, <1>5 DEF LedgerPhase
<1> QED
  BY <1>1, <1>2, <1>3, <1>6 DEF Ledger!Accept, Consume

\* Whatever the requests do, challenges live as the ledger says: issued once,
\* accepted at most once and for their session, never open again (LedgerSpec).
THEOREM LedgerImplemented == Spec => LedgerSpec
<1>1. Init => Ledger!Init
  BY DEF Init, Ledger!Init, LedgerPhase
<1>2. ASSUME IInv, [Next]_vars
      PROVE  [Ledger!Next]_(Ledger!ledgerVars)
  <2>1. ChallengesStep /\ IInv'
    BY <1>2, StepSafe DEF SafeStep
  <2>2. CASE LoseChallenges
    BY <1>2, <2>1, <2>2, LosingDies DEF Ledger!ledgerVars
  <2>3. CASE \E j \in Jtis, s \in SessionIds : IssueTo(j, s)
    BY <1>2, <2>1, <2>3, IssuingIssues DEF Ledger!Next
  <2>4. CASE \E j \in Jtis : Consume(j) /\ UNCHANGED accepts
    <3> PICK j \in Jtis : Consume(j) /\ UNCHANGED accepts
      BY <2>4
    <3>1. {j} \in SUBSET Jtis /\ Ledger!Die({j})
      BY <1>2, BurningDies
    <3> QED
      BY <3>1 DEF Ledger!Next
  <2>5. CASE \E j \in Jtis : AcceptOver(j)
    BY <1>2, <2>5, AcceptingAccepts DEF Ledger!Next
  <2> QED
    BY <2>1, <2>2, <2>3, <2>4, <2>5 DEF ChallengesStep
<1> QED
  BY Invariant, <1>1, <1>2, PTL DEF Spec, LedgerSpec, Ledger!Spec
=============================================================================
