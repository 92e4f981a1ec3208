---------------------------- MODULE ReplayGuard ----------------------------
(***************************************************************************)
(* Per-request proofs and their replay cache: requireProof and             *)
(* verifyBoundProof (src/express, src/core/bound/proof.ts), requireDpop    *)
(* and verifyDpopProof (src/core/dpop), and the two caches that share      *)
(* `checkAndRecord` (src/storage/{memory,redis}/replay-cache.ts).          *)
(*                                                                         *)
(* Both guards check the timestamp of a proof, await (the stored key, the  *)
(* signature, the hashes), and only then record it.  Requests rejected     *)
(* without a change of state - no tier, no or malformed header, timestamp  *)
(* out of the window, wrong body hash, method, URL or token - never enter. *)
(***************************************************************************)
EXTENDS Integers

CONSTANTS
  Proofs,        \* signed proofs a client has made, sent any number of times
  Keys,          \* polyfill key pairs
  CacheKeys,     \* `${sessionId}.${ts}.${sigPrefix}` and `dpop:${jti}`
  KindOf,        \* "bound" (X-Dbsc-Bound-Proof) or "dpop"
  Stamp,         \* the ts or iat of a proof
  SignerOf,      \* the key a proof is signed with
  ReplayKeyOf,   \* the key it is recorded under; DPoP proofs may share a jti
  Window,        \* timestampWindowMs, iatWindowMs
  Null,
  Requests,      \* BOUND: requests in flight at once
  MaxTime        \* BOUND: Date.now() stops here

Time == 0..MaxTime
Optional(S) == S \cup {Null}

ASSUME ProofAssumption ==
  /\ KindOf \in [Proofs -> {"bound", "dpop"}]
  /\ Stamp \in [Proofs -> Int]
  /\ SignerOf \in [Proofs -> Keys]
  /\ ReplayKeyOf \in [Proofs -> CacheKeys]

ASSUME TimeAssumption == Window \in Nat /\ MaxTime \in Nat

ASSUME NullAssumption == Null \notin Int /\ Null \notin Proofs /\ Null \notin Keys

VARIABLES
  now,          \* Date.now()
  boundKey,     \* the session's stored polyfill key
  cache,        \* when the entry of a cache key may go, Null when there is none
  req,          \* where the guard of each request is
  acceptedAt    \* history: when each proof was last accepted by this cache

vars == <<now, boundKey, cache, req, acceptedAt>>

RequestState ==
  [pc : {"idle", "readKey", "record"}, proof : Optional(Proofs),
   at : Time]                   \* Date.now() at the timestamp check

Idle == [pc |-> "idle", proof |-> Null, at |-> 0]

TypeOK ==
  /\ now \in Time
  /\ boundKey \in Optional(Keys)
  /\ cache \in [CacheKeys -> Optional(Nat)]
  /\ req \in [Requests -> RequestState]
  /\ acceptedAt \in [Proofs -> Optional(Time)]

Init ==
  /\ now = 0
  /\ boundKey = Null
  /\ cache = [c \in CacheKeys |-> Null]
  /\ req = [r \in Requests |-> Idle]
  /\ acceptedAt = [p \in Proofs |-> Null]

Finish(r) == req' = [req EXCEPT ![r] = Idle]

-----------------------------------------------------------------------------
\* Math.abs(Date.now() - ts) <= windowMs
InWindow(p) == now - Stamp[p] <= Window /\ Stamp[p] - now <= Window

\* What both guards pass to checkAndRecord.
Ttl == 2 * Window

\* Bug: a proof ages out one window after it was accepted.
RecordOneWindow(c) == cache' = [cache EXCEPT ![c] = now + Window]

\* Bug: the ttl is taken off instead of added.
RecordPast(c) == cache' = [cache EXCEPT ![c] = now - Ttl]

\* checkAndRecord on a key that is not there.  setTimeout fires at the end of
\* the ttl or later, Redis rounds it up to seconds: Expire says "not before".
RecordKey(c) == cache' = [cache EXCEPT ![c] = now + Ttl]

\* Bug: the proof is recorded when it arrives, before its signature is checked.
CheckAndRecordProof(r, p) ==
  /\ req[r] = Idle
  /\ KindOf[p] = "bound"
  /\ InWindow(p)
  /\ req' = [req EXCEPT ![r] = [pc |-> "readKey", proof |-> p, at |-> now]]
  /\ RecordKey(ReplayKeyOf[p])
  /\ UNCHANGED <<now, boundKey, acceptedAt>>

\* verifyBoundProof up to getBoundKey.
CheckProof(r, p) ==
  /\ req[r] = Idle
  /\ KindOf[p] = "bound"
  /\ InWindow(p)
  /\ req' = [req EXCEPT ![r] = [pc |-> "readKey", proof |-> p, at |-> now]]
  /\ UNCHANGED <<now, boundKey, cache, acceptedAt>>

\* No key, or a signature that is not by that key: 403.
ReadKey(r) ==
  /\ req[r].pc = "readKey"
  /\ IF boundKey = SignerOf[req[r].proof]
     THEN req' = [req EXCEPT ![r].pc = "record"]
     ELSE Finish(r)
  /\ UNCHANGED <<now, boundKey, cache, acceptedAt>>

\* verifyDpopProof: the key is in the proof, so nothing is read before the
\* record; the iat check is followed by awaited hashes.
CheckDpop(r, p) ==
  /\ req[r] = Idle
  /\ KindOf[p] = "dpop"
  /\ InWindow(p)
  /\ req' = [req EXCEPT ![r] = [pc |-> "record", proof |-> p, at |-> now]]
  /\ UNCHANGED <<now, boundKey, cache, acceptedAt>>

\* First sighting: the request goes on to the application.
Admit(r) ==
  /\ req[r].pc = "record"
  /\ cache[ReplayKeyOf[req[r].proof]] = Null
  /\ RecordKey(ReplayKeyOf[req[r].proof])
  /\ acceptedAt' = [acceptedAt EXCEPT ![req[r].proof] = now]
  /\ Finish(r)
  /\ UNCHANGED <<now, boundKey>>

\* PROOF_REPLAY, DPOP_JTI_REPLAY.
Refuse(r) ==
  /\ req[r].pc = "record"
  /\ cache[ReplayKeyOf[req[r].proof]] # Null
  /\ Finish(r)
  /\ UNCHANGED <<now, boundKey, cache, acceptedAt>>

\* The timer of the entry fires, or Redis drops it.
Expire(c) ==
  /\ cache[c] # Null
  /\ now >= cache[c]
  /\ cache' = [cache EXCEPT ![c] = Null]
  /\ UNCHANGED <<now, boundKey, req, acceptedAt>>

-----------------------------------------------------------------------------
\* Around the guards: DbscServer's registrations and revocations, failing
\* storage calls, restarts, the clock.
StoreKey(k) ==
  /\ boundKey = Null
  /\ boundKey' = k
  /\ UNCHANGED <<now, cache, req, acceptedAt>>

DropKey ==
  /\ boundKey # Null
  /\ boundKey' = Null
  /\ UNCHANGED <<now, cache, req, acceptedAt>>

Abort(r) ==
  /\ req[r] # Idle
  /\ Finish(r)
  /\ UNCHANGED <<now, boundKey, cache, acceptedAt>>

\* The process restarts with the cache it kept in its memory, and what was
\* accepted before is forgotten.  A cache in Redis outlives it: then a restart
\* is an Abort of every request.
Restart ==
  /\ cache' = [c \in CacheKeys |-> Null]
  /\ req' = [r \in Requests |-> Idle]
  /\ acceptedAt' = [p \in Proofs |-> Null]
  /\ UNCHANGED <<now, boundKey>>

Tick ==
  /\ now < MaxTime
  /\ now' = now + 1
  /\ UNCHANGED <<boundKey, cache, req, acceptedAt>>

Next ==
  \/ \E r \in Requests, p \in Proofs : CheckProof(r, p) \/ CheckDpop(r, p)
  \/ \E r \in Requests : ReadKey(r) \/ Admit(r) \/ Refuse(r) \/ Abort(r)
  \/ \E c \in CacheKeys : Expire(c)
  \/ \E k \in Keys : StoreKey(k)
  \/ DropKey
  \/ Restart
  \/ Tick

Spec == Init /\ [][Next]_vars

-----------------------------------------------------------------------------
\* Properties.

\* Only an accepted proof occupies its replay key, and for no longer than its
\* acceptance justifies: proofs that fail verification never lock a client out
\* (the order the comment at proof.ts:87-91 explains).
OnlyAcceptedRecorded ==
  \A c \in CacheKeys : cache[c] # Null =>
    \E p \in Proofs :
      /\ ReplayKeyOf[p] = c
      /\ acceptedAt[p] # Null
      /\ cache[c] = acceptedAt[p] + Ttl

Admits(r) ==
  /\ req[r].pc = "record"
  /\ cache[ReplayKeyOf[req[r].proof]] = Null
  /\ cache'[ReplayKeyOf[req[r].proof]] # Null

\* How far a replay can get of a proof that this cache has seen: the proof is
\* accepted again only by a handler that has been in flight since its timestamp
\* check for at least as long as the earlier acceptance came after the first
\* moment the proof was acceptable.  For a proof stamped by a correct clock that
\* is a whole window.
ReplayNeedsDelay ==
  [][\A r \in Requests :
       LET p == req[r].proof IN
       Admits(r) /\ acceptedAt[p] # Null =>
         now - req[r].at >= acceptedAt[p] - (Stamp[p] - Window)]_vars

\* docs/request-signing.md of the proofs of the polyfill key: the cache "rejects
\* any second arrival of the same tuple"; here only of handlers that take no time.
AcceptedOnce ==
  [][\A r \in Requests :
       Admits(r) /\ KindOf[req[r].proof] = "bound" /\ req[r].at = now =>
         acceptedAt[req[r].proof] = Null]_vars
=============================================================================
