----------------------------- MODULE DbscTypes -----------------------------
(***************************************************************************)
(* The records that the protocol handlers and the storage exchange, and    *)
(* the parameters of a deployment (src/core/types.ts).                     *)
(*                                                                         *)
(* Key material, challenge ids and session ids are opaque values: the      *)
(* protocol only ever compares them.  Null is the `null` a storage read    *)
(* answers when there is no row.                                           *)
(***************************************************************************)
EXTENDS Integers

CONSTANTS
  SessionIds,        \* values of the session cookie
  Users,             \* application users
  UserOf,            \* the user each session is bound for (bindSession's userId)
  Keys,              \* device key pairs; a proof is identified with its signing key
  Jtis,              \* challenge ids that generateJti can draw
  Null,              \* no row
  ChallengeTtl,      \* issueChallenge's ttlMs
  SessionTtl,        \* bindSession's sessionTtl
  BoundCookieTtl,    \* dbsc({ boundCookieTtl })
  RefreshGrace,      \* dbsc({ refreshGraceMs })
  MaxTime            \* BOUND: Date.now() stops here

ASSUME TimesAssumption ==
  /\ ChallengeTtl \in Nat
  /\ SessionTtl \in Nat
  /\ BoundCookieTtl \in Nat
  /\ RefreshGrace \in Nat
  /\ MaxTime \in Nat

ASSUME UserAssumption == UserOf \in [SessionIds -> Users]

Time == 0..MaxTime

\* BoundKey.kind: the TPM key of native DBSC, or the Web Crypto polyfill key.
Kinds == {"native", "bound"}

Tiers == {"dbsc", "bound", "none"}

\* `id` and `userId` are the index of the row and UserOf of it; createdAt is
\* read by telemetry only.
Session ==
  [tier : Tiers, lastRefreshAt : Time, expiresAt : Nat]

Challenge ==
  [sessionId : SessionIds, expiresAt : Nat, consumed : BOOLEAN]

ASSUME NullAssumption ==
  /\ Null \notin SessionIds
  /\ Null \notin Keys
  /\ Null \notin Jtis
  /\ Null \notin Session
  /\ Null \notin Challenge

Optional(S) == S \cup {Null}
=============================================================================
