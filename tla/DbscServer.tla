----------------------------- MODULE DbscServer ----------------------------
(***************************************************************************)
(* The server: the four protocol handlers of src/core, and the routes, the *)
(* middleware and bindSession of src/express/index.ts that call them.      *)
(*                                                                         *)
(* A request is a thread of one Node process.  It yields at every `await`  *)
(* of a storage call, so the actions below are one storage call each, with *)
(* the code that runs from its answer to the next call; the requests       *)
(* interleave at that grain.  What the client sent is chosen in the step   *)
(* that first looks at it: the session and challenge cookies by the first  *)
(* step of a handler, the proof by the step that verifies it.  Signature   *)
(* checks await too, but touch no state.                                   *)
(*                                                                         *)
(* Left out, because they change no state: requests rejected before the    *)
(* first storage call (no header, malformed JWS, rate limit, a timestamp   *)
(* out of the window), and the read of the keys by which a catch block     *)
(* decides on the session_stolen event.                                    *)
(***************************************************************************)
EXTENDS MemoryStorage, FiniteSets

CONSTANT Requests    \* BOUND: requests in flight at once

VARIABLES
  req,          \* where the handler of each request is, and its locals
  \* History, read by no action:
  issuedTo,     \* the session each challenge was issued to
  accepts,      \* how many proofs were accepted over each challenge
  registered,   \* the keys accepted registrations introduced, per session and kind
  provenAt,     \* last clock reading of a handler that had accepted a proof
  boundAt       \* last clock reading of a bindSession that found no session

history == <<issuedTo, accepts, registered, provenAt, boundAt>>
vars == <<now, sessions, keys, challenges, req, history>>

-----------------------------------------------------------------------------
\* Requests.

Ops == {"none", "bind", "state", "answer", "registration", "refresh",
        "boundRegistration", "boundRefresh"}

\* The storage call the handler makes next.
Steps == {"idle", "readSession", "readKey", "readChallenge", "consume",
          "writeKey", "readNative", "writeSession", "burn", "readDemoted",
          "writeDemoted", "issue"}

RequestState ==
  [op : Ops, pc : Steps,
   sid : Optional(SessionIds),   \* the session cookie
   jti : Optional(Jtis),         \* the challenge cookie, or body.challenge
   key : Optional(Keys),         \* local `key`, and the key to register
   draft : Optional(Session),    \* local `session`, then the row to write
   at : Time]                    \* local `now`

Idle ==
  [op |-> "none", pc |-> "idle", sid |-> Null, jti |-> Null, key |-> Null,
   draft |-> Null, at |-> 0]

TypeOK ==
  /\ StorageTypeOK
  /\ req \in [Requests -> RequestState]
  /\ issuedTo \in [Jtis -> Optional(SessionIds)]
  /\ accepts \in [Jtis -> Nat]
  /\ registered \in [SessionIds -> [Kinds -> SUBSET Keys]]
  /\ provenAt \in [SessionIds -> Time]
  /\ boundAt \in [SessionIds -> Time]

Init ==
  /\ now = 0
  /\ StorageInit
  /\ req = [r \in Requests |-> Idle]
  /\ issuedTo = [j \in Jtis |-> Null]
  /\ accepts = [j \in Jtis |-> 0]
  /\ registered = [s \in SessionIds |-> [k \in Kinds |-> {}]]
  /\ provenAt = [s \in SessionIds |-> 0]
  /\ boundAt = [s \in SessionIds |-> 0]

At(r, op, step) == req[r].op = op /\ req[r].pc = step

\* The next step of r, with the locals it still needs.
Goto(r, op, step, s, j, k, row, time) ==
  req' = [req EXCEPT ![r] =
    [op |-> op, pc |-> step, sid |-> s, jti |-> j, key |-> k, draft |-> row,
     at |-> time]]

\* A handler verifies a proof over challenge j, under key k where it knows it.
Prove(r, op, step, s, j, k) == Goto(r, op, step, s, j, k, Null, 0)

\* A handler is done with the proof: a row and a clock reading are left.
Store(r, step, row, time) ==
  Goto(r, req[r].op, step, req[r].sid, Null, Null, row, time)

\* The answer of the route carries a new challenge.
Answer(r, s) == Goto(r, "answer", "issue", s, Null, Null, Null, 0)

Finish(r) == req' = [req EXCEPT ![r] = Idle]

Arrives(r) == req[r] = Idle

\* Any challenge ever issued may come back, with any session cookie: cookies
\* outlive what the server knows of them.
Presentable(j) == issuedTo[j] # Null

-----------------------------------------------------------------------------
\* What the handlers share.

\* Bug: whose challenge it is is not looked at.
ChallengeLive(s, j) ==
  LET c == StoredChallenge(j) IN c # Null /\ ~c.consumed

\* The challenge exists, is unconsumed, unexpired and belongs to the session.
\* (MemoryStorage answers null for an expired one, so the handler's own expiry
\* test sees a challenge that expires between the two readings of the clock.)
ChallengeValid(s, j) ==
  LET c == StoredChallenge(j) IN
  /\ c # Null
  /\ ~c.consumed
  /\ c.sessionId = s

\* The proof of r is accepted: consumeChallenge answered true.
Accept(r) ==
  /\ Consumable(req[r].jti)
  /\ accepts' = [accepts EXCEPT ![req[r].jti] = @ + 1]

Register(s, kind, k) ==
  registered' = [registered EXCEPT ![s][kind] = @ \cup {k}]

Proven(s) == provenAt' = [provenAt EXCEPT ![s] = now]

\* Bug: a refresh also prolongs the session.
PromotedSliding(row, tier, time) ==
  [row EXCEPT !.tier = tier, !.lastRefreshAt = time, !.expiresAt = time + SessionTtl]

Promoted(row, tier, time) == [row EXCEPT !.tier = tier, !.lastRefreshAt = time]

Demoted(row) == [row EXCEPT !.tier = "none"]

\* issueChallenge: generateJti never draws an id twice.
Issue(s, j) ==
  /\ issuedTo[j] = Null
  /\ SetChallenge(j, [sessionId |-> s, expiresAt |-> now + ChallengeTtl,
                      consumed |-> FALSE])
  /\ issuedTo' = [issuedTo EXCEPT ![j] = s]
  /\ UNCHANGED <<now, sessions, keys, accepts, registered, provenAt, boundAt>>

\* The last step of the routes that answer with a challenge.
IssueChallenge(r, j) ==
  /\ At(r, "answer", "issue")
  /\ Issue(req[r].sid, j)
  /\ Finish(r)

-----------------------------------------------------------------------------
\* bindSession: a session row is written only when there is none; a challenge
\* is issued in either case.

\* Bug: "never refreshed" is no time.
UnboundRowNever ==
  [tier |-> "none", lastRefreshAt |-> -1, expiresAt |-> now + SessionTtl]

UnboundRow ==
  [tier |-> "none", lastRefreshAt |-> 0, expiresAt |-> now + SessionTtl]

BindReadSession(r, s) ==
  /\ Arrives(r)
  /\ GetSession(s)
  /\ \/ /\ StoredSession(s) = Null
        /\ Goto(r, "bind", "writeSession", s, Null, Null, UnboundRow, 0)
        /\ boundAt' = [boundAt EXCEPT ![s] = now]
     \/ /\ StoredSession(s) # Null
        /\ Answer(r, s)
        /\ UNCHANGED boundAt
  /\ UNCHANGED <<now, keys, challenges, issuedTo, accepts, registered, provenAt>>

BindWriteSession(r) ==
  /\ At(r, "bind", "writeSession")
  /\ SetSession(req[r].sid, req[r].draft)
  /\ Answer(r, req[r].sid)
  /\ UNCHANGED <<now, keys, challenges, history>>

BindSession(r) ==
  BindWriteSession(r) \/ \E s \in SessionIds : BindReadSession(r, s)

-----------------------------------------------------------------------------
\* handleRegistration: the native key.

\* The signed jti may be another one: rejected, like an invalid challenge.
RegistrationReadChallenge(r, s, j) ==
  /\ Arrives(r) /\ Presentable(j)
  /\ GetChallenge(j)
  /\ \/ ChallengeValid(s, j) /\ Prove(r, "registration", "readKey", s, j, Null)
     \/ UNCHANGED req
  /\ UNCHANGED <<now, sessions, keys, history>>

RegistrationReadKey(r) ==
  /\ At(r, "registration", "readKey")
  /\ IF keys[req[r].sid]["native"] = Null
     THEN Prove(r, "registration", "consume", req[r].sid, req[r].jti, Null)
     ELSE Finish(r)
  /\ UNCHANGED <<now, storageVars, history>>

RegistrationConsume(r) ==
  /\ At(r, "registration", "consume")
  /\ ConsumeChallenge(req[r].jti)
  /\ \/ \E k \in Keys :
          /\ Accept(r) /\ Register(req[r].sid, "native", k) /\ Proven(req[r].sid)
          /\ Goto(r, "registration", "writeKey", req[r].sid, Null, k, Null, now)
     \/ /\ ~Consumable(req[r].jti)
        /\ Finish(r) /\ UNCHANGED <<accepts, registered, provenAt>>
  /\ UNCHANGED <<now, sessions, keys, issuedTo, boundAt>>

RegistrationWriteKey(r) ==
  /\ At(r, "registration", "writeKey")
  /\ SetBoundKey(req[r].sid, "native", req[r].key)
  /\ Store(r, "readSession", Null, req[r].at)
  /\ UNCHANGED <<now, sessions, challenges, history>>

RegistrationReadSession(r) ==
  /\ At(r, "registration", "readSession")
  /\ GetSession(req[r].sid)
  /\ LET row == StoredSession(req[r].sid) IN
     IF row = Null THEN Finish(r)
     ELSE Store(r, "writeSession", Promoted(row, "dbsc", req[r].at), 0)
  /\ UNCHANGED <<now, keys, challenges, history>>

RegistrationWriteSession(r) ==
  /\ At(r, "registration", "writeSession")
  /\ SetSession(req[r].sid, req[r].draft)
  /\ Finish(r)
  /\ UNCHANGED <<now, keys, challenges, history>>

HandleRegistration(r) ==
  \/ \E s \in SessionIds, j \in Jtis : RegistrationReadChallenge(r, s, j)
  \/ RegistrationReadKey(r) \/ RegistrationConsume(r)
  \/ RegistrationWriteKey(r)
  \/ RegistrationReadSession(r) \/ RegistrationWriteSession(r)

-----------------------------------------------------------------------------
\* handleRefresh; the catch block of its route answers every failure with a
\* new challenge.

\* Without a proof, or without a challenge cookie, the route only issues one;
\* whether there is such a session is not looked at.
RefreshFirstLeg(s, j) == Issue(s, j) /\ UNCHANGED req

\* Bug: a refresh under whichever key the session has.
RefreshReadAnyKey(r, s, j) ==
  /\ Arrives(r) /\ Presentable(j)
  /\ LET kind == IF keys[s]["native"] # Null THEN "native" ELSE "bound" IN
     IF keys[s][kind] = Null THEN Answer(r, s)
     ELSE Prove(r, "refresh", "readChallenge", s, j, keys[s][kind])
  /\ UNCHANGED <<now, storageVars, history>>

RefreshReadKey(r, s, j) ==
  /\ Arrives(r) /\ Presentable(j)
  /\ LET key == keys[s]["native"] IN
     IF key = Null THEN Answer(r, s)
     ELSE Prove(r, "refresh", "readChallenge", s, j, key)
  /\ UNCHANGED <<now, storageVars, history>>

\* The signature is verified before the signed jti is compared: a signature by
\* another key burns the challenge, a jti that differs only fails.
RefreshReadChallenge(r) ==
  /\ At(r, "refresh", "readChallenge")
  /\ GetChallenge(req[r].jti)
  /\ \/ /\ ChallengeValid(req[r].sid, req[r].jti)
        /\ \/ Prove(r, "refresh", "consume", req[r].sid, req[r].jti, req[r].key)
           \/ Prove(r, "refresh", "burn", req[r].sid, req[r].jti, Null)
     \/ Answer(r, req[r].sid)
  /\ UNCHANGED <<now, sessions, keys, history>>

RefreshConsume(r) ==
  /\ At(r, "refresh", "consume")
  /\ ConsumeChallenge(req[r].jti)
  /\ \/ Accept(r) /\ Store(r, "readSession", Null, 0)
     \/ ~Consumable(req[r].jti) /\ Answer(r, req[r].sid) /\ UNCHANGED accepts
  /\ UNCHANGED <<now, sessions, keys, issuedTo, registered, provenAt, boundAt>>

RefreshReadSession(r) ==
  /\ At(r, "refresh", "readSession")
  /\ GetSession(req[r].sid)
  /\ LET row == StoredSession(req[r].sid) IN
     IF row = Null THEN Finish(r) /\ UNCHANGED provenAt
     ELSE /\ Store(r, "writeSession", Promoted(row, "dbsc", now), 0)
          /\ Proven(req[r].sid)
  /\ UNCHANGED <<now, keys, challenges, issuedTo, accepts, registered, boundAt>>

RefreshWriteSession(r) ==
  /\ At(r, "refresh", "writeSession")
  /\ SetSession(req[r].sid, req[r].draft)
  /\ Finish(r)
  /\ UNCHANGED <<now, keys, challenges, history>>

\* The failing signature: consume (the answer is ignored), read, demote.
RefreshBurn(r) ==
  /\ At(r, "refresh", "burn")
  /\ ConsumeChallenge(req[r].jti)
  /\ Store(r, "readDemoted", Null, 0)
  /\ UNCHANGED <<now, sessions, keys, history>>

RefreshReadDemoted(r) ==
  /\ At(r, "refresh", "readDemoted")
  /\ GetSession(req[r].sid)
  /\ LET row == StoredSession(req[r].sid) IN
     IF row = Null THEN Answer(r, req[r].sid)
     ELSE Store(r, "writeDemoted", Demoted(row), 0)
  /\ UNCHANGED <<now, keys, challenges, history>>

RefreshWriteDemoted(r) ==
  /\ At(r, "refresh", "writeDemoted")
  /\ SetSession(req[r].sid, req[r].draft)
  /\ Answer(r, req[r].sid)
  /\ UNCHANGED <<now, keys, challenges, history>>

HandleRefresh(r) ==
  \/ \E s \in SessionIds, j \in Jtis : RefreshReadKey(r, s, j)
  \/ RefreshReadChallenge(r)
  \/ RefreshConsume(r) \/ RefreshReadSession(r) \/ RefreshWriteSession(r)
  \/ RefreshBurn(r) \/ RefreshReadDemoted(r) \/ RefreshWriteDemoted(r)

-----------------------------------------------------------------------------
\* handleBoundRegistration: the polyfill key.

\* The signed jti may be another one: rejected, like an invalid challenge.
BoundRegistrationReadChallenge(r, s, j) ==
  /\ Arrives(r) /\ Presentable(j)
  /\ GetChallenge(j)
  /\ \/ ChallengeValid(s, j) /\ Prove(r, "boundRegistration", "readKey", s, j, Null)
     \/ UNCHANGED req
  /\ UNCHANGED <<now, sessions, keys, history>>

BoundRegistrationReadKey(r) ==
  /\ At(r, "boundRegistration", "readKey")
  /\ IF keys[req[r].sid]["bound"] = Null
     THEN Prove(r, "boundRegistration", "consume", req[r].sid, req[r].jti, Null)
     ELSE Finish(r)
  /\ UNCHANGED <<now, storageVars, history>>

BoundRegistrationConsume(r) ==
  /\ At(r, "boundRegistration", "consume")
  /\ ConsumeChallenge(req[r].jti)
  /\ \/ \E k \in Keys :
          /\ Accept(r) /\ Register(req[r].sid, "bound", k) /\ Proven(req[r].sid)
          /\ Goto(r, "boundRegistration", "writeKey", req[r].sid, Null, k, Null, now)
     \/ /\ ~Consumable(req[r].jti)
        /\ Finish(r) /\ UNCHANGED <<accepts, registered, provenAt>>
  /\ UNCHANGED <<now, sessions, keys, issuedTo, boundAt>>

\* Bug: the polyfill key lands in the slot of the native key.
BoundRegistrationWriteNative(r) ==
  /\ At(r, "boundRegistration", "writeKey")
  /\ SetBoundKey(req[r].sid, "native", req[r].key)
  /\ Store(r, "readSession", Null, req[r].at)
  /\ UNCHANGED <<now, sessions, challenges, history>>

BoundRegistrationWriteKey(r) ==
  /\ At(r, "boundRegistration", "writeKey")
  /\ SetBoundKey(req[r].sid, "bound", req[r].key)
  /\ Store(r, "readSession", Null, req[r].at)
  /\ UNCHANGED <<now, sessions, challenges, history>>

BoundRegistrationReadSession(r) ==
  /\ At(r, "boundRegistration", "readSession")
  /\ GetSession(req[r].sid)
  /\ LET row == StoredSession(req[r].sid) IN
     IF row = Null THEN Finish(r) ELSE Store(r, "readNative", row, req[r].at)
  /\ UNCHANGED <<now, keys, challenges, history>>

\* Bug: any key of the session counts as its native key.
TierBesideAny(s, row) ==
  IF \E kind \in Kinds : keys[s][kind] # Null THEN "dbsc" ELSE "bound"

\* A session that holds a native key keeps its tier.
TierBesideNative(s, row) ==
  IF keys[s]["native"] # Null THEN row.tier ELSE "bound"

\* The row read before this await is the one written after it.
BoundRegistrationReadNative(r) ==
  /\ At(r, "boundRegistration", "readNative")
  /\ LET row == req[r].draft IN
     Store(r, "writeSession",
           Promoted(row, TierBesideNative(req[r].sid, row), req[r].at), 0)
  /\ UNCHANGED <<now, storageVars, history>>

BoundRegistrationWriteSession(r) ==
  /\ At(r, "boundRegistration", "writeSession")
  /\ SetSession(req[r].sid, req[r].draft)
  /\ Finish(r)
  /\ UNCHANGED <<now, keys, challenges, history>>

HandleBoundRegistration(r) ==
  \/ \E s \in SessionIds, j \in Jtis : BoundRegistrationReadChallenge(r, s, j)
  \/ BoundRegistrationReadKey(r) \/ BoundRegistrationConsume(r)
  \/ BoundRegistrationWriteKey(r) \/ BoundRegistrationReadSession(r)
  \/ BoundRegistrationReadNative(r) \/ BoundRegistrationWriteSession(r)

-----------------------------------------------------------------------------
\* handleBoundRefresh: a failure is answered without a challenge.

BoundRefreshReadKey(r, s, j) ==
  /\ Arrives(r) /\ Presentable(j)
  /\ keys[s]["bound"] # Null
  /\ Prove(r, "boundRefresh", "readChallenge", s, j, keys[s]["bound"])
  /\ UNCHANGED <<now, storageVars, history>>

\* The jti is part of the signed message: another jti is a failed signature.
BoundRefreshReadChallenge(r) ==
  /\ At(r, "boundRefresh", "readChallenge")
  /\ GetChallenge(req[r].jti)
  /\ IF ChallengeValid(req[r].sid, req[r].jti)
     THEN \/ Prove(r, "boundRefresh", "consume", req[r].sid, req[r].jti, req[r].key)
          \/ Prove(r, "boundRefresh", "burn", req[r].sid, req[r].jti, Null)
     ELSE Finish(r)
  /\ UNCHANGED <<now, sessions, keys, history>>

BoundRefreshConsume(r) ==
  /\ At(r, "boundRefresh", "consume")
  /\ ConsumeChallenge(req[r].jti)
  /\ \/ Accept(r) /\ Store(r, "readSession", Null, 0)
     \/ ~Consumable(req[r].jti) /\ Finish(r) /\ UNCHANGED accepts
  /\ UNCHANGED <<now, sessions, keys, issuedTo, registered, provenAt, boundAt>>

BoundRefreshReadSession(r) ==
  /\ At(r, "boundRefresh", "readSession")
  /\ GetSession(req[r].sid)
  /\ LET row == StoredSession(req[r].sid) IN
     IF row = Null THEN Finish(r) ELSE Store(r, "readNative", row, 0)
  /\ UNCHANGED <<now, keys, challenges, history>>

BoundRefreshReadNative(r) ==
  /\ At(r, "boundRefresh", "readNative")
  /\ LET row == req[r].draft IN
     Store(r, "writeSession",
           Promoted(row, TierBesideNative(req[r].sid, row), now), 0)
  /\ Proven(req[r].sid)
  /\ UNCHANGED <<now, storageVars, issuedTo, accepts, registered, boundAt>>

BoundRefreshWriteSession(r) ==
  /\ At(r, "boundRefresh", "writeSession")
  /\ SetSession(req[r].sid, req[r].draft)
  /\ Finish(r)
  /\ UNCHANGED <<now, keys, challenges, history>>

BoundRefreshBurn(r) ==
  /\ At(r, "boundRefresh", "burn")
  /\ ConsumeChallenge(req[r].jti)
  /\ Store(r, "readDemoted", Null, 0)
  /\ UNCHANGED <<now, sessions, keys, history>>

BoundRefreshReadDemoted(r) ==
  /\ At(r, "boundRefresh", "readDemoted")
  /\ GetSession(req[r].sid)
  /\ LET row == StoredSession(req[r].sid) IN
     IF row = Null THEN Finish(r) ELSE Store(r, "writeDemoted", Demoted(row), 0)
  /\ UNCHANGED <<now, keys, challenges, history>>

BoundRefreshWriteDemoted(r) ==
  /\ At(r, "boundRefresh", "writeDemoted")
  /\ SetSession(req[r].sid, req[r].draft)
  /\ Finish(r)
  /\ UNCHANGED <<now, keys, challenges, history>>

HandleBoundRefresh(r) ==
  \/ \E s \in SessionIds, j \in Jtis : BoundRefreshReadKey(r, s, j)
  \/ BoundRefreshReadChallenge(r)
  \/ BoundRefreshConsume(r) \/ BoundRefreshReadSession(r)
  \/ BoundRefreshReadNative(r) \/ BoundRefreshWriteSession(r)
  \/ BoundRefreshBurn(r) \/ BoundRefreshReadDemoted(r)
  \/ BoundRefreshWriteDemoted(r)

-----------------------------------------------------------------------------
\* GET /dbsc-bound/state and GET /dbsc-bound/challenge.

StateReadSession(r, s) ==
  /\ Arrives(r)
  /\ GetSession(s)
  /\ IF StoredSession(s) = Null THEN UNCHANGED req
     ELSE Goto(r, "state", "readKey", s, Null, Null, Null, 0)
  /\ UNCHANGED <<now, keys, challenges, history>>

\* Without a bound key the client is told to register one, with a challenge;
\* the native key, read just before, only chooses the wording.
StateReadKeys(r) ==
  /\ At(r, "state", "readKey")
  /\ IF keys[req[r].sid]["bound"] = Null THEN Answer(r, req[r].sid)
     ELSE Finish(r)
  /\ UNCHANGED <<now, storageVars, history>>

ChallengeReadSession(r, s) ==
  /\ Arrives(r)
  /\ GetSession(s)
  /\ IF StoredSession(s) = Null THEN UNCHANGED req ELSE Answer(r, s)
  /\ UNCHANGED <<now, keys, challenges, history>>

HandleQueries(r) ==
  \/ StateReadKeys(r)
  \/ \E s \in SessionIds : StateReadSession(r, s) \/ ChallengeReadSession(r, s)

-----------------------------------------------------------------------------
\* The middleware on every other request: the tier it hands the application.

\* Bug: a polyfill session never goes stale.
EffectiveTierNative(s) ==
  LET row == StoredSession(s) IN
  IF row = Null THEN "none"
  ELSE IF /\ row.tier = "dbsc"
          /\ now > row.lastRefreshAt + BoundCookieTtl + RefreshGrace
       THEN "none" ELSE row.tier

EffectiveTier(s) ==
  LET row == StoredSession(s) IN
  IF row = Null THEN "none"
  ELSE IF /\ row.tier # "none"
          /\ now > row.lastRefreshAt + BoundCookieTtl + RefreshGrace
       THEN "none" ELSE row.tier

Middleware(s) ==
  /\ GetSession(s)
  /\ UNCHANGED <<now, keys, challenges, req, history>>

\* locals.dbsc.revoke(), and the application's own call for a whole user.
Revoke(s) ==
  /\ RevokeSession(s)
  /\ UNCHANGED <<now, req, history>>

RevokeUser(u) ==
  /\ RevokeAllForUser(u)
  /\ UNCHANGED <<now, req, history>>

\* The application takes keys away from a session that goes on.
DeleteKeys(s, kinds) ==
  /\ DeleteBoundKey(s, kinds)
  /\ UNCHANGED <<now, sessions, challenges, req, history>>

\* The application sweeps the maps.
CollectExpired ==
  /\ Gc
  /\ UNCHANGED <<now, keys, req, history>>

\* A storage call rejects: the rest of the handler never runs.
Abort(r) ==
  /\ ~Arrives(r)
  /\ Finish(r)
  /\ UNCHANGED <<now, storageVars, history>>

\* The process restarts: its maps are gone, and so is every request.
Restart ==
  /\ StorageLost
  /\ req' = [r \in Requests |-> Idle]
  /\ UNCHANGED <<now, history>>

Tick ==
  /\ now < MaxTime
  /\ now' = now + 1
  /\ UNCHANGED <<storageVars, req, history>>

Handle(r) ==
  \/ \E j \in Jtis : IssueChallenge(r, j)
  \/ BindSession(r) \/ HandleRegistration(r) \/ HandleRefresh(r)
  \/ HandleBoundRegistration(r) \/ HandleBoundRefresh(r) \/ HandleQueries(r)

Next ==
  \/ \E r \in Requests : Handle(r) \/ Abort(r)
  \/ \E s \in SessionIds, j \in Jtis : RefreshFirstLeg(s, j)
  \/ \E s \in SessionIds : Middleware(s) \/ Revoke(s)
  \/ \E u \in Users : RevokeUser(u)
  \/ \E s \in SessionIds, kinds \in {{"native"}, {"bound"}, Kinds} : DeleteKeys(s, kinds)
  \/ CollectExpired
  \/ Restart
  \/ Tick

Spec == Init /\ [][Next]_vars

-----------------------------------------------------------------------------
\* Properties.

\* A challenge never lets a second proof in, however many handlers hold it and
\* whatever is read, dropped or restarted in between (consumeChallenge is the
\* race guard of all four handlers).
SingleUse == \A j \in Jtis : accepts[j] <= 1

\* The key under which a handler verifies refreshes of that operation.
KindOf(op) == IF op \in {"registration", "refresh"} THEN "native" ELSE "bound"

\* Every stored key goes back to an accepted registration of the same session
\* and kind, also when registrations and revocations overlap.
KeyProvenance ==
  \A s \in SessionIds, kind \in Kinds :
    keys[s][kind] # Null => keys[s][kind] \in registered[s][kind]

\* A proof is accepted only for the session its challenge was issued to (the
\* owner is compared in one storage call, the challenge consumed by jti alone
\* in a later one), and a refresh only under a key that a registration of that
\* session introduced before (the key is read two storage calls earlier).
AcceptedProofs ==
  [][\A j \in Jtis :
       accepts'[j] # accepts[j] =>
         \E r \in Requests :
           /\ req[r].pc = "consume" /\ req[r].jti = j
           /\ req[r].sid = issuedTo[j]
           /\ req[r].op \in {"refresh", "boundRefresh"} =>
                req[r].key \in registered[req[r].sid][KindOf(req[r].op)]]_vars

TierProven(s, row) ==
  /\ row.tier = "dbsc" => registered[s]["native"] # {}
  /\ row.tier = "bound" => registered[s]["bound"] # {}

\* No session row claims a tier that its device never proved a key for, even
\* when handlers overwrite the row with copies they read before.
TierBacked ==
  \A s \in SessionIds : sessions[s] # Null => TierProven(s, sessions[s])

\* The application sees a session as bound only while a handler that had
\* accepted a proof for it read the clock within the cookie's lifetime plus the
\* grace: no failing, stale or repeated request keeps a session fresh.
Freshness ==
  \A s \in SessionIds :
    EffectiveTier(s) # "none" => now <= provenAt[s] + BoundCookieTtl + RefreshGrace

\* Refreshing never keeps a session alive past the lifetime its login gave it.
LifetimeBounded ==
  \A s \in SessionIds :
    sessions[s] # Null => sessions[s].expiresAt <= boundAt[s] + SessionTtl

\* spec/01-overview.md of a session that holds a native key: "the tier stays
\* `dbsc`" when a bound registration or refresh is verified.
NativeTierKept ==
  [][\A s \in SessionIds :
       /\ sessions[s] # Null /\ sessions[s].tier = "dbsc"
       /\ sessions'[s] # Null /\ sessions'[s].tier = "bound"
       => keys[s]["native"] = Null]_vars

\* spec/01-overview.md: a failed signature "MUST demote the session to `none`";
\* spec/03-bound-protocol.md: a bound refresh of a session that also holds a
\* native key "keeps its tier".  So only a native proof raises none to dbsc.
\* (lastRefreshAt tells a demoted row from one that was never bound.)
DemotionKept ==
  [][\A s \in SessionIds :
       /\ sessions[s] # Null
       /\ sessions[s].tier = "none" /\ sessions[s].lastRefreshAt > 0
       /\ sessions'[s] # Null /\ sessions'[s].tier = "dbsc"
       => \E r \in Requests :
            req[r].op \in {"registration", "refresh"} /\ req[r].sid = s]_vars

\* docs/guide.md: "`revoke()` deletes the DBSC session row and bound key".  A
\* session without a row has to be bound again before it can have a tier.
RevokedStaysRevoked ==
  [][\A s \in SessionIds :
       sessions[s] = Null => (EffectiveTier(s))' = "none"]_vars

\* Every step of the server is a step of the challenge ledger, or none.
LedgerPhase ==
  [j \in Jtis |->
     IF issuedTo[j] = Null THEN "fresh"
     ELSE IF accepts[j] > 0 THEN "accepted"
     ELSE IF Consumable(j) THEN "open" ELSE "dead"]

Ledger == INSTANCE ChallengeLedger WITH phase <- LedgerPhase, owner <- issuedTo

LedgerSpec == Ledger!Spec
=============================================================================
