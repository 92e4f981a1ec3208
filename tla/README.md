# Verification of dbsc-toolkit

TLA+ models of the DBSC server toolkit and its browser SDK, the TLC configurations that check them
on small instances, and TLAPS proofs of the safety properties for every value
of the parameters. Paths below are relative to the repository root; line
numbers are those of the modelled commit.

## What the toolkit does

A server that holds a session cookie also wants the device that got the cookie
to prove, again and again, that it still has a private key. Two kinds of key
exist side by side for one session:

* the **native** key, in the TPM, handled by the browser (Chrome's DBSC): a
  registration and refreshes under the names `/dbsc/registration`,
  `/dbsc/refresh`;
* the **bound** key, a Web Crypto key held in IndexedDB by the client SDK (the
  polyfill): `/dbsc-bound/{state,challenge,registration,refresh}`.

Every proof signs a server-issued, single-use, expiring challenge. The session
row carries a *tier*: `dbsc` (native), `bound` (polyfill), `none`. On top of the
tier, single requests can carry a proof of their own (`requireProof`, DPoP),
guarded by a replay cache.

## Inventory

| Part | State | Operations | Modelled in |
|---|---|---|---|
| Records (`src/core/types.ts`) | - | `Session`, `BoundKey`, `Challenge`, tiers, the `StorageAdapter` contract | `DbscTypes`, `StorageCalls` |
| Storage, memory (`src/storage/memory`) | three maps, a `revoked` set nothing reads | get/set/delete of session, key, challenge; `consumeChallenge`; `revokeSession`, `revokeAllForUser`; `gc` | `MemoryStorage` |
| Storage, Redis (`src/storage/redis`) | strings, one set per user, key rows of v2.6 | the same methods, several commands each | `RedisStorage` |
| Storage, PostgreSQL (`src/storage/postgres`) | three tables with references | one statement per method, one transaction | `PostgresStorage` |
| Schema migrations (`runMigrations`, `migrations/*.sql`) | `dbsc_migrations` | three scripts, in order, on every start | `Migrations` |
| Storage, Better Auth (`packages/better-auth/src/adapter.ts`) | two tables and the verification table | the same methods over find, create, update, delete | `BetterAuthStorage` |
| Protocol handlers (`src/core/protocol`, `src/core/bound`) | none of their own: locals across awaits | `issueChallenge`, `handleRegistration`, `handleRefresh`, `handleBoundRegistration`, `handleBoundRefresh` | `DbscServer` |
| Express adapter (`src/express/index.ts`) | none of its own | six routes, middleware (effective tier, `revoke`), `bindSession` | `DbscServer`, `AdapterRoutes` |
| Adapters (express, hono, fastify, node, koa, nestjs, nextjs, sveltekit, the Better Auth plugin) | the set of warned sessions | the routes, `bindSession`, `autoBind`, `revoke`, `requireProof` over each framework's request | `RouteCore`, `AdapterRoutes`, `Adapters` |
| Rate limiting (`src/core/ratelimit`) | the limiter's own | `checkRegistration`, `checkRefresh`, `recordFailure` | its calls, in `AdapterRoutes` |
| Telemetry (`src/core/telemetry`) | emitted-once set | `polyfill_missing`; events of the routes | `PolyfillMissing`, `AdapterRoutes` |
| Per-request proof (`src/core/bound/proof.ts`, `src/express/{proof,require-proof}.ts`) | replay cache | `verifyBoundProof`, `requireProof` | `ReplayGuard` |
| DPoP (`src/core/dpop`, `src/express/require-dpop.ts`) | replay cache | `verifyDpopProof`, `requireDpop` | `ReplayGuard` |
| Replay caches (`src/storage/{memory,redis}/replay-cache.ts`) | key -> expiry | `checkAndRecord` | `ReplayGuard` |
| Client SDK (`src/client`) | IndexedDB key record, clock offset, one timer per tab | `initBoundDbsc`, registration, refresh loop, signed fetch | `ClientSdk` (all but the signed fetch) |
| JWS/JWK, signatures (`src/core/crypto`, `src/core/bound/verify.ts`) | none | pure functions over strings and keys | no: a proof is identified with its key |
| Headers, cookies, session-id derivation, route policy | none | formatting, parsing, hashing | no |
| `create-dbsc` kits, electron, examples | a per-device cookie | wiring of the parts above | no |

How they interact: a route reads cookies, calls one handler; the handler makes
between one and six calls of the `StorageAdapter`, each an `await`; the answer
may carry a fresh challenge. The middleware on every other request reads the
session row and computes the tier the application sees. The application calls
`bindSession` after its own login and `revoke` after its own logout. The guards
read the session row and the bound key and then the replay cache. Handlers share
nothing but the storage, and with a storage behind a network the commands of their
calls interleave too.

What makes each part correct:

* storage: `consumeChallenge` says `true` to one caller; an expired row is no row; a
  finished revocation leaves nothing behind; a stored key is found; a session has one
  key of each kind; Redis finds a user's sessions through the index; the schema is the
  scripts in order;
* handlers: a challenge accepts one proof, for the session it was issued to; a key
  is stored only after a proof with that key; a tier is set only with such a key
  behind it; failing proofs demote;
* routes and middleware: the application never sees a bound tier that is not
  backed by a recent accepted proof; refreshing does not prolong a login;
* adapters: all answer alike; the limiter is asked first; a theft alarm means a
  demotion; a session that was demoted or went stale has a way back;
* client: the key record is one the server accepted for that session; a browser ends
  up with the server's key; an honest browser is not taken for a thief;
* guards: a proof is admitted once; proofs that fail do not lock out those that
  verify.

Hard behaviours: the interleaving of handlers at every storage call, row copies
written back after an await, expiry between two calls of one handler, a call that
fails after the challenge is consumed, a restart of an in-memory server while the
clients keep their cookies, revocation in the middle of a handler, clock edges,
storage methods of several commands that are cut or overlap, instances that migrate
one schema at once, nine ports of one set of routes.
`PROJECT.json` lists these hazards at the lines where they bite.

## Modules

| Module | Role |
|---|---|
| `DbscTypes` | constants, record sets, assumptions on the parameters |
| `MemoryStorage` | state of the storage and one operator per method |
| `ChallengeLedger` | abstract specification: what is promised of challenges |
| `DbscServer` | handlers, routes, middleware, environment; properties; refinement mapping |
| `DbscServerProofs` | inductive invariant and theorems about `DbscServer` |
| `MCDbscServer` | instances of `DbscServer` |
| `Migrations` | `runMigrations` by concurrent instances |
| `StorageCalls` | the durable storages: tables, calls in flight, what ran beside what |
| `RedisStorage`, `PostgresStorage`, `BetterAuthStorage` | one action per command of each storage |
| `StorageBackends` | a deployment on one of them; properties |
| `StorageProofs` | theorems about `StorageBackends` and `Migrations`: types, tables, schema |
| `StorageReturnProofs` | theorems about the calls of `StorageBackends` that return |
| `StorageLedgerProofs` | the durable storages implement `ChallengeLedger`: mapping and proof |
| `MCStorageBackends` | instance of `StorageBackends` |
| `RouteCore` | what all adapters share: handlers in one step, tests, answers |
| `AdapterRoutes` | the table of each route of each adapter |
| `PolyfillMissing` | the emit-once check of `polyfill_missing` |
| `Adapters` | an application on an adapter, its browser; safety and liveness |
| `RouteProofs` | lemmas: what each table of `AdapterRoutes` answers to each kind of request |
| `AdaptersProofs` | inductive invariant and theorems about `Adapters` |
| `MCAdapters` | instance of `Adapters` |
| `ReplayGuard` | per-request proofs, DPoP, replay cache; properties |
| `ReplayGuardProofs` | theorems about `ReplayGuard` |
| `MCReplayGuard` | instance of `ReplayGuard` |
| `ClientSdk` | tabs, IndexedDB record, cookies, network, against the bound routes; safety and liveness |
| `ClientSdkProofs` | inductive invariant and theorems about `ClientSdk` |
| `MCClientSdk` | instances of `ClientSdk` |

`DbscServer` EXTENDS `MemoryStorage`, which EXTENDS `DbscTypes`; it
instantiates `ChallengeLedger` with a refinement mapping. `StorageBackends` EXTENDS
the three storages, they EXTEND `StorageCalls`, and that EXTENDS `Migrations`. `StorageLedgerProofs` maps them to the same `ChallengeLedger`.
`Adapters` EXTENDS `AdapterRoutes` (over `RouteCore`) and `PolyfillMissing`.

### DbscServer and the code

`req[r]` is the handler of one request: `op` which handler, `pc` the storage call
it makes next, the other fields its locals. One action is one storage call with
the code from its answer to the next call:

| Handler | Actions, in order |
|---|---|
| `handleRegistration` | `RegistrationReadChallenge`, `...ReadKey`, `...Consume`, `...WriteKey`, `...ReadSession`, `...WriteSession` |
| `handleRefresh` | `RefreshReadKey`, `...ReadChallenge`, then `...Consume`, `...ReadSession`, `...WriteSession`, or after a failing signature `...Burn`, `...ReadDemoted`, `...WriteDemoted`; then the route's challenge |
| `handleBoundRegistration` | `BoundRegistrationReadChallenge`, `...ReadKey`, `...Consume`, `...WriteKey`, `...ReadSession`, `...ReadNative`, `...WriteSession` |
| `handleBoundRefresh` | `BoundRefreshReadKey`, `...ReadChallenge`, then `...Consume`, `...ReadSession`, `...ReadNative`, `...WriteSession`, or `...Burn`, `...ReadDemoted`, `...WriteDemoted` |
| `bindSession` | `BindReadSession`, `BindWriteSession`, `IssueChallenge` |
| `/dbsc/refresh` without a proof | `RefreshFirstLeg` |
| `/dbsc-bound/state` | `StateReadSession`, `StateReadKeys`, `IssueChallenge` |
| `/dbsc-bound/challenge` | `ChallengeReadSession`, `IssueChallenge` |
| middleware | `Middleware`, `EffectiveTier`, `Revoke`, `RevokeUser` |
| application | `DeleteKeys` (`deleteBoundKey`), `CollectExpired` (`gc`) |
| environment | `Abort` (a storage call rejects), `Restart` (the process and its maps), `Tick` |

Abstractions:

* A proof is its signing key; whether the signature verifies is a choice of the
  step that verifies it. Requests rejected before the first storage call change
  nothing and are not actions.
* Any challenge ever issued may be presented with any session cookie: cookies
  outlive what the server knows.
* Awaits are interleaving points, as the asynchronous `StorageAdapter` contract
  has them. Over `MemoryStorage` alone the interleavings are confined to
  microtasks and the awaits of the signature checks; a storage behind a network
  shows all of them. The per-method semantics here are those of `MemoryStorage`
  in either case; those of the other storages are `StorageBackends`' matter.
* Variables after `req` are history (which session a challenge went to, accepted
  proofs, registered keys, clock readings); no action reads them, except that
  a challenge must have been issued before it can be presented and that ids are
  never drawn twice.

### The storages and the code

`call[c]` is one call of a `StorageAdapter` method: its arguments, the command it
sends next (`at`) and what it keeps meanwhile. A method of one command is one action; a
longer one is entered (`Enters`), goes on (`At`, `GoesTo`) and answers (`Answers`), and
may fail before any of its commands (`RedisFails`, `RollsBack`, `DatabaseFails`; the
commands sent so far stand, but for a rolled back transaction). No method retries. The one
method that does not throw when a command fails is Redis's `revokeAllForUser` after
SMEMBERS: `exec()` of its pipeline resolves with an error and a result for each DEL and the
method looks at neither, so each DEL comes through or not by itself (`PipelineDel...`,
`PipelineKeeps...`; a lost connection fails all that are left) and the call returns.

| Method | Redis | PostgreSQL | Better Auth |
|---|---|---|---|
| `setSession` | `SetRow`, `AddToIndex` | `UpsertSession` | `FindSession`, `UpdateSession` or `CreateSession` |
| `deleteSession` | as `revokeSession` | as `revokeSession` | `DeleteSessionRow` |
| `revokeSession` | `GetRow`, `RemoveFromIndex`, `DelSession` | `DeleteSession` | `RevokeKeys`, `RevokeRow` |
| `revokeAllForUser` | `SMembers`, `PipelineDel...` or `PipelineKeeps...` | `DeleteUserChallenges`, `...Keys`, `...Sessions`, `Commit` | `FindUserSessions`, `RevokeUserKeys`, `RevokeUserSessions` |
| `getBoundKey` | `GetKey`, `GetLegacyKey` | one statement | `FindNativeKey`, `FindBoundKey` |
| `setBoundKey` | `SetNativeKey`, `DelLegacyKey`; `SetPolyfillKey` | `UpsertKey` | `FindKeyToSet`, `UpdateKey` or `CreateKey` |
| `deleteBoundKey` | `DelKeys`; `DelNativeKey`, `DelLegacyKey` | `DeleteKeys` | `DeleteKeyRows` |
| `setChallenge` | `SetChallengeRow` | `InsertChallenge` | `CreateVerification` |
| `consumeChallenge` | `EvalConsume` | `UpdateChallenge` | `ConsumeVerification`; `FindVerification`, `DeleteVerification` |

`backend` is one of six: `redis`; `postgres`, and `postgres002` brought up by hand without
the third script; `betterAuth`, and the same where Better Auth's internal adapter lacks
`consumeVerificationValue` (`betterAuthDelete`) or the delete as well (`betterAuthFind`).
Reads of one command change nothing and are no actions. Which values a row holds besides
its key is left out; so are whole-second roundings of `EX` (`Evicts` may come any time).
In `PostgresStorage` the rows an open `revokeAllForUser` is to delete (tagged with their
table) are locked and stay visible to the others; a deadlock is a call that fails. Enforced references of a Better
Auth database are a choice of the step.

`overlaps`, `rivals`, `strays` and `told` are history: which calls ran beside a call that a
property asks about, and which Redis rows lost their place in the index; so is `refused` in
a `revokeAllForUser`, the rows and keys whose DEL failed. No action reads them but to keep
them. They let a property name the circumstance in which the code cannot
keep a promise, instead of leaving out the circumstance.

`Migrations` is `runMigrations`: `ReadApplied`, then for each script `RunScript` and `Record`.
002 and 003 bring a COMMIT that ends the transaction `runMigrations` opened, so their
effect stands before the name is recorded.

### The adapters and the code

An adapter is a table (`AdapterRoutes`): for each route the tests it makes, in their order
(`gates`: polyfill off, rate limit, cookies, row, body, signature present, tier, proof), the
status and the calls and events of a rejected proof (`fails`), the event of an accepted one,
and whether the answer clears the challenge cookie as a browser understands it.
`RouteCore!Serve` reads a table: the first test that stops a request decides; past the
tests the handler of `src/core` runs in one step, as `DbscServer` has its interleavings.
`koa` uses `node`'s routes and `nestjs` those of `express`; each has its own guard.

`Adapters` lets one of nine adapters, with or without the polyfill, meet every request
(`Requests`) a browser or another client can send: proofs good, forged, malformed, out of
their time window or missing, under the new or the old header, allowed by the limiter or
not. Around the requests: `Login` (`bindSession`), `AutoBind`, `Revoke`, `RowExpires`,
`GoesStale`, `CookieExpires`, `ChallengeExpires`, `Warn` (the `polyfill_missing` check at
its awaits) and `Restart`. The cookie jar is the browser's; `sdk` is the challenge the
client SDK was last given. A login may come again under the same session id, as the ids
derived from user and device are the same each time; keys then outlive the row that
expired.

Most properties of `Adapters` look at every request that could be made in a state, not
only at steps: `Alike` compares the answer of the adapter with that of express to what the
adapter takes the request for (`Meant`: the plugin reads a registration under one header
only, and lets the registration cookie name the session of a refresh). The plugin has no
limiter, so it is offered no request that one refuses.

Left out: cookie names, attributes and domains, but for what decides whether a browser
removes a cookie (`clears`, `revokes`); bodies and headers of answers; a fastify hook that
also runs on the protocol routes and changes nothing; the guards for DPoP. The guards of
hono and koa run the next handler inside their `try`, so a `DbscVerificationError` thrown
by the application becomes their 403: not modelled.

### ReplayGuard and the code

`CheckProof`/`ReadKey`/`Admit`/`Refuse` are `verifyBoundProof` cut at its awaits
(timestamp window; key and signature; `checkAndRecord`); `CheckDpop` is
`verifyDpopProof` up to `checkAndRecord`. `Expire` removes a cache entry no earlier
than its time: a `setTimeout` may fire late, Redis rounds up to seconds. `Restart` is
that of a process with the in-memory cache, which forgets everything, as its comment
says; the history `acceptedAt` is forgotten with it, so the properties are about the life
of one cache. The default `NoopReplayCache` keeps no state and promises nothing.
`StoreKey` and `DropKey` stand for the registrations and revocations of `DbscServer`.

### ClientSdk and the code

`call[<<t, "init">>]` is `initBoundDbsc` of tab t, `call[<<t, "refresh">>]` the refresh
its timer starts. `pc` is the fetch or IndexedDB transaction that comes next, `stage`
the place in `initBoundDbsc` the answer belongs to: the first state request, the
second one after a mismatch (`fresh`), the probe loop (`poll`), and what follows a
registration (`native`, `last`, `final`, then `after`).

| Code | Actions |
|---|---|
| `fetchState`, `recordServerTime` | `FetchState`, `SyncRead`, `SyncWrite` |
| branches of `initBoundDbsc` | `Decide...`, `CompareRecord`, `DropRecord` |
| `runRegistration` | `DecideRegister` (clears the record), `SendRegistration`, `SendLost`, `Answer`, `StoreRecord` |
| `scheduleRefresh`, `runRefresh` | `Fire`, `FetchChallenge`, `RefreshAccepted`, `RefreshMismatch`, `RefreshRefused`, `RefreshDone` |
| registration route | `PostCheck`, `PostWrite`, `PostPromote`, `PostDropped` |
| `clearBoundKey`, `stopBoundDbsc` | `ClearBoundKey`, `StopBoundDbsc` |
| environment | `Load`, `Login`, `Native`, `Logout`, `CookieExpires`, `Close` |

Abstractions: a challenge is the session it was issued to (that it is used once is
`DbscServer`'s matter); the server's routes are one step each, but for the
registration, whose test for a key and two writes two tabs can be in between. The
`Secure-Session-Skipped` header and the deadline are a choice: the client may register
after any poll, and must after `MaxPolls`. IndexedDB transactions succeed. A tab has
one `initBoundDbsc` and one refresh in progress. `ClearBoundKey` comes when no session
is left, as `docs/polyfill.md:157` asks ("after a successful logout request"). A
refresh may be refused at any time, which covers expiry, rate limits and clocks.
`stored` (keys the server accepted) and `troubled` (something was lost, logged out,
or overlapped) are history. `Keys` bounds the keys something still remembers, not
the keys made: a forgotten key is made again.

## Runs

| Run | Instance | Checks |
|---|---|---|
| `server` | 2 sessions of one user, 2 keys, 2 challenges, 2 requests in flight, all lifetimes 0, clock 0..1, under `Instance` | `TypeOK`, `SingleUse`, `KeyProvenance`, `TierBacked`, `Freshness`, `LifetimeBounded`, `AcceptedProofs`, `LedgerSpec` |
| `native_tier` | 1 session, 1 key, 2 challenges, 2 requests | `NativeTierKept`: violated |
| `demotion` | the same, clock 0..1 | `DemotionKept`: violated |
| `revocation` | 1 session, 1 key, 1 challenge, 2 requests | `RevokedStaysRevoked`: violated |
| `replay` | 2 bound proofs (one stamped by a fast clock), 2 DPoP proofs with one jti, 2 requests, window 1, clock 0..4 | `TypeOK`, `OnlyAcceptedRecorded`, `ReplayNeedsDelay` |
| `replay_once` | the same | `AcceptedOnce`: violated |
| `storages` | 6 backends in turn, 2 sessions of one user, 2 keys, 1 challenge, 2 calls, 2 instances migrating, under `Family`, `RevokesApart` and `AllUp` | `TypeOK`, `ConsumedOnce`, `IndexComplete`, `OneKeyPerKind`, `SchemaSound`, `RevocationComplete`, `RevocationRepeatable`, `KeysAnswered` |
| `adapters` | 9 adapters, polyfill on and off, 1 session, 2 checks of `polyfill_missing`, under `ChecksApart` | `TypeOK`, `AlarmMatchesDemotion`, `LimiterFirst`, `PortsAgree`, `ReportBacked`, `GuardSound`, `AlarmOnce`, `Recovers` |
| `client` | 1 tab, 1 session, 5 keys, 1 poll, 2 POSTs at once, 2 failures | `TypeOK`, `RecordRegistered`, `AlarmExplained`, `Resolves`, `BindsWhenCalm` |
| `client_logins` | 1 tab, 2 sessions, 5 keys, 1 poll, 1 POST, 1 failure | `RecordRegistered`, `AlarmExplained` |
| `client_alarm` | 2 tabs, 1 session, no poll, no failure | `AlarmMeansTheft`: violated |
| `client_rebind` | 1 tab, 1 session, no poll, 1 failure | `Rebinds`: violated |

Why these bounds: the properties talk of one challenge or one session at a
time, so a violation needs at most two handlers that hold the same challenge or
write the same row, plus the environment. Two requests give every pair of
handlers at every pair of points; two challenges let both register or refresh
with different ones, which a lost update needs. With lifetimes of 0 everything
expires at the first tick, so each of the steps of a handler is seen before
and after expiry with a clock of two values. The second session is only needed
for a challenge that strays or for a cookie of another login, and that takes one
handler: `Instance` keeps a behaviour either to one session with two requests and a
moving clock, or to two sessions with one request at a time.

In `storages` two calls give every pair of methods at every pair of commands; two
sessions are what a shared index needs, two keys what a lost write needs, and a challenge
meets one caller more than may be told. `Family` keeps a behaviour to calls on sessions, to
calls on the keys of one session (two keys, or one and a call on the session), or to
challenges, since no command reads more than one of the three but where it deletes them
together. `RevokesApart` lets at most one DEL of a revokeAllForUser fail and keeps two of
those calls apart where two sessions are in play: a DEL touches one session, and a second
refusal excuses no more than the two would one by one. `AllUp` starts the calls when both
instances have migrated. `adapters` has every
request and every state of one session; `ChecksApart` leaves the challenges alone while
`polyfill_missing` is checked, which does not look at them. A constraint can hide a
behaviour but cannot make one up: `Recovers` is checked on the behaviours in which the
checks come to rest and the warning was not raised, or in which the challenges stay away.

`replay` needs the clock to pass over a whole cache lifetime (2) from the earliest
acceptance to the end of the window, and one unit of delay beyond it. In `client` a page
that is left in the middle lets its POST overlap with the next page's, and two failures
give every pair of losses; two logins put different sessions under the cookies, the
record and the challenge in hand. Passing runs have one tab: with two, each with two
calls, over three million states remain without any failure, so several tabs are left to
the proofs and to `client_alarm`. What the bounds leave open, the proofs close: none of
the theorems has any of them as a hypothesis (`MaxTime`, `Requests`, `Tabs`, `MaxPosts`,
`MaxFailures` are arbitrary).

What the violations show:

* `native_tier`: a bound handler reads "no native key", the native registration
  finishes, the bound handler writes tier `bound` over `dbsc`
  (`spec/01-overview.md:50-53`, comment at `src/core/bound/registration.ts:80-83`).
* `demotion`: a failing native refresh demotes the row between a bound handler's
  read and write; the copy undoes the demotion (`spec/01-overview.md:54`).
* `revocation`: a handler writes back the row of a session revoked between its
  `getSession` and `setSession` (`docs/guide.md:121`,
  `spec/06-storage-contract.md:78`).
* `replay_once`: window closed at both ends, cache entry of exactly two windows: a
  proof stamped one window ahead is admitted at the first and at the last instant
  of its window (`docs/request-signing.md:231`, `src/core/bound/proof.ts:90-91`).
* `client_alarm`: both tabs' registrations are accepted, the record keeps the key that
  the server replaced; an honest refresh raises `session_stolen`
  (`docs/telemetry.md:91`, `docs/guide.md:239`).
* `client_rebind`: one lost answer, and the browser has no key for as long as the user
  stays logged in (`docs/polyfill.md:130`, `:133`).

What the passing runs show besides, by the circumstances their properties name:

* `storages`: over Better Auth without an atomic consume two overlapping calls are both
  told `true`, and without a delete every call is; two overlapping first writes of a key
  leave two rows there; a Redis `setSession` cut before SADD, a `revokeSession` cut after
  SREM, or a `revokeAllForUser` that drops the index over a session just written, or over
  one whose own DEL failed, leave a session that the next `revokeAllForUser` misses; a
  `getBoundKey` beside the write that moves a v2.6 key can miss it; a `revokeAllForUser` of
  PostgreSQL or Better Auth that throws leaves every row, so that a repeat finds the
  sessions (Better Auth has then deleted keys and not the rows, whose tier stays); pending challenges outlive their session in Redis, in
  Better Auth, and in PostgreSQL's `revokeSession` before the third migration.
* `adapters`: rows, keys, cookies, challenges and phases are alike everywhere. What
  differs is listed at `Alike`: hono, fastify and nextjs do not report a rejected native
  registration, express (and nestjs) alone call a session with both keys `dbsc` in
  `/state` whatever its row says, a request the limiter refuses may have been refused by
  another test first, and the plugin has no limiter, reads one header only for a
  registration and accepts the registration cookie for a refresh. `session_stolen` is also
  raised over a session that is demoted already, over one without a row, and, as the one
  alarm that leaves a tier in place, on a polyfill refresh with a skewed clock.

Deadlock is checked in every run. No state of the models stops: in `DbscServer` the
middleware is always enabled, in `StorageBackends` a write of a session or a step of an
instance, in `Adapters` a login, in `ReplayGuard` a change of keys, in `ClientSdk` a page
load or, without a session, `clearBoundKey`.

Fairness is assumed in `ClientSdk` and in `Adapters`. In `ClientSdk` weakly: a call in
progress goes on (a fetch is answered or fails, an IndexedDB transaction completes, a timer
fires), the server's registration handler runs, and an idle page is loaded again some time.
Nothing is assumed of the user, of Chrome's native registration, or of expiry. `Resolves`
does not need the loads; `BindsWhenCalm` and `Rebinds` do, being about the next page load.
Failures are finitely many (`MaxFailures`), so a lost answer is not an excuse
for ever; `BindsWhenCalm` further asks that nothing is lost at all.
In `Adapters` it is that of a browser with a native key, which refreshes when its cookie
is gone and answers the challenge it is given: it goes on asking (`Asking`, weak), and
signs a live challenge if it holds one again and again (`Proving`, strong, as the
challenge may expire before each answer). The limiter lets these requests pass.

## Proofs

`tlapm` checks `DbscServerProofs`, `StorageProofs`, `StorageReturnProofs`,
`StorageLedgerProofs`, `RouteProofs`, `AdaptersProofs`, `ReplayGuardProofs` and
`ClientSdkProofs` completely. Every safety property that a passing run checks is a theorem.
Assumptions are those named in `DbscTypes`, `StorageCalls`, `ReplayGuard` and `ClientSdk`: times are natural numbers, each session has a user, `Null` is none of the
values it stands beside.

`DbscServerProofs`. None of the safety properties is inductive: a handler
writes rows and keys it read or received several storage calls earlier. `IInv`
adds what a handler may rely on across an await (`ReqInv`: the challenge it
checked was issued to its session, the key it verifies under was registered,
the row it will write satisfies what stored rows satisfy), that stored rows are
justified by history (`RowInv`), that an accepted challenge is consumed or gone
(`ChallengesInv`), and that history is not ahead of the clock (`ClocksInv`). The
history variables only grow, so other requests cannot disturb what one request
relies on. The argument is split: `SafeStep` says what any step may do to
history, handlers, rows, keys and challenges; a group of lemmas shows that a safe
step preserves `IInv`; one lemma per action shows the action is a safe step.
From this follow `TypeCorrect`, `SingleUseHolds`, `KeyProvenanceHolds`,
`TierBackedHolds`, `FreshnessHolds`, `LifetimeBoundedHolds`, `AcceptedProofsHold`.
`LedgerImplemented` shows that a safe step maps to a step of `ChallengeLedger`
or a stutter, under the mapping `LedgerPhase`.

`StorageProofs` is about `StorageBackends`, for any number of sessions, users, keys,
challenges, concurrent calls and instances. `SchemaHolds`: what an instance has read is
recorded, it runs a script only when those before it are recorded, and when it is about
to record 002 or 003 their effect is committed (`BootsKnow`). `TypeCorrect`: the types
of the tables and of a call's fields at each of its commands. `ChallengeConsumedOnce`: a
challenge that was told is no longer there to be told (its state is past `open` and
`expired`), and over a find and delete the calls that found it before are each other's
rivals. `KeysUnique`: a Better Auth call about to create a key row has no row before it,
and two that overlap are each other's rivals. `IndexFindsRows`: a row outside its index
is a stray or belongs to a call that is half done; the hard step is the last DEL of
`revokeAllForUser`, which needs that every row still in the index then was written
beside it or refused to go (`Cleared`), since the pipeline deleted the others. One lemma per command, and
one for the commands that leave a part alone.

`StorageReturnProofs` is about what a call has done when it returns, which its last command
does not show: what the earlier ones did may have been undone. `ReturnInv` has four parts.
`Noticed`: of two calls in flight each has been told of the other (`overlaps`). `OwnInv`: the
index of a user and what a `revokeAllForUser` has found are that user's sessions, rows and
keys. `LegacyInv`: only Redis has v2.6 rows. `ProgressInv`: a call is as far as its next
command says (the keys of a `revokeSession` about to delete the row are gone; a session that
`revokeAllForUser` was to delete is still to be reached, or gone as far as the pipeline has
come; in PostgreSQL, found by each DELETE so far; ...), or one it was told of did otherwise.
The argument is split as in `DbscServerProofs`: `StepSound` asks of a step that it tells every
call beside it (`Announces`) of all it changes (`Changes`), and that the call that takes
it has done its work when it returns; `SoundStep` shows once that such a step keeps
`ProgressInv`, since what is changed beside a call is marked in it; one lemma per command
shows it sound. `RevocationHolds`, `RevocationRepeats` and `KeysAreAnswered` are read off the last
part of `SoundStep`. What a revocation owes when it returns is asked up to what ran beside it
and, in Redis, what its pipeline was refused; what it owes when it throws, that the rows are
there, needs that Better Auth's last command is the one that deletes them and that a
PostgreSQL transaction has deleted nothing before its COMMIT.

`StorageLedgerProofs` is about the other side of what `DbscServer` takes for granted of its
storage. `ChallengesStored`: a storage whose `consumeChallenge` is one atomic command (Redis,
PostgreSQL, Better Auth with `consumeVerificationValue`) implements `ChallengeLedger`, under
the mapping `StoredPhase`, whatever else is in flight. What counts as open differs: an expired
row of Redis or Better Auth is still consumed as long as it is there (`Live`). A step answers
no `consumeChallenge` and at most lets challenges go (`Quiet`, a `Die` of the ledger), stores
one (`Issues`), or answers one (`Tells`). `LedgerInv` adds to what `ChallengeConsumedOnce`
rests on that an issued challenge is of a session and that a PostgreSQL `revokeAllForUser`
has found no challenge that is yet to be issued (`HoldsIssued`), so that its COMMIT drops
none. Over a Better Auth without an atomic consume the refinement is false:
`ConsumedOnce` says when two proofs are accepted.

`AdaptersProofs`. The properties of `Adapters` quantify over every request that could be made
in a state and compare nine tables, so the work is in `RouteProofs`: it unfolds
`RouteCore!Serve` for each adapter and route once, and says which test stops a request, what
events and storage calls an answer carries and what it leaves of the row, for any row, keys,
cookies and request. `PortsAlike`, `LimiterAsked`, `AlarmRaised` and `ReportTrue` follow from
these lemmas and the types of the state; `AlarmRaised` and `PortsAlike` hold up to what
`AlarmMatchesDemotion` and `Alike` name, and `ReportTrue` is about `/state` alone.
`PortsAlike` pairs the request with what the adapter takes it for (`SameMeaning`). `GuardHeld` and `TierBacked` need that a stored
tier has its key (`Backed`), which the routes keep. `WarnedOnce`: as long as no check began
beside another, one check is active at most, and none once the warning was raised
(`MissingInv`).

`ReplayGuardProofs`. `GuardInv` adds that a handler past its timestamp check made
it inside the window at a moment not after now, and that an accepted
proof is either still recorded or its entry's time has passed; a restart forgets the
proof, the entry and the requests together. `TypeCorrect`, `OnlyAcceptedRecordedHolds` and
`ReplayNeedsDelayHolds` follow, for every window.

`ClientSdkProofs`. A record is written from a copy read before an await, or from a key
whose registration was answered before. `CallInv` says what a call may rely on (a copy
was registered when read, a POST of the awaited key carries the challenge of the call's
session, a key about to be kept was accepted), `PostInv` what a server handler has
checked, `ServerInv` that a session's key is among those accepted for it. Most steps
are instances of three lemmas on a call that returns, goes on, or is not touched.
`ClientTypeCorrect`, `RecordRegisteredHolds` and `AlarmExplainedHolds` follow; they
are about `SafetySpec`, hence about `Spec`.

Only model-checked: the liveness properties `Resolves`, `BindsWhenCalm` and `Recovers`, and
the violation runs, by their nature. Out of the provers' reach: liveness under fairness,
`ENABLED`, and induction over data.

What the proofs found in the models, all of it put right: the answers of `RouteCore` were
CASE expressions whose guards overlap, which mean the first that holds only as TLC evaluates
them; they are nested conditionals now, in the order of the code. The rows a PostgreSQL
`revokeAllForUser` holds were told apart by their shape, which says nothing of sessions
that are themselves tuples; they are tagged. `Null` was assumed to be no session call, while a
free slot must differ from every call, a failed one as well. And `RevocationComplete` excused
the strays of Redis, which it need not: `revokeAllForUser` owes nothing to a session it
could not find in the index, and `IndexComplete` says which these are.

## Where documents and code differ, without a run

* `docs/storage.md:214` says `revokeSession` deletes pending challenges; the memory
  and redis storages do not (the properties hold without it).
* `docs/storage.md:212` has `consumeChallenge` look at expiry; memory and redis do not.
* `docs/storage.md:208` has `getChallenge` answer expired challenges; memory drops them.
* `docs/storage.md:204` says `setBoundKey` is "called once"; two registrations with
  two challenges can both pass the existing-key check, and the second replaces the
  key of the first.
* `docs/polyfill.md:108` ("+-60s") and `docs/adapters.md:552` give other clock
  windows than the five minutes in the code.
* `docs/guide.md:193`: a session is stale only strictly after the boundary.
* `docs/polyfill.md:110`: a failed signature demotes, but an old timestamp answers
  with the same `SIGNATURE_INVALID` and does not.
* `src/core/types.ts:153`: `polyfill_missing` can be emitted twice by concurrent requests
  (`AlarmOnce` names the case).
* `docs/telemetry.md:67`: `verification_failure` is said to follow a failed registration;
  hono, fastify and nextjs emit none for a native one.
* `migrations/003_v2_tier_and_challenge_cascade.sql:11`: memory and redis are said to clear
  challenges with the session; they do not.
* `docs/storage.md:216` has `revokeAllForUser` "delete every session belonging to the user"
  and `docs/security/best-practices.md:210` says that it "nukes every session". Redis's
  awaits the `exec()` of a pipeline and drops the result of each DEL (`index.ts:149`): it
  returns as well when a DEL has failed and the session is stored with its tier, and if
  the DEL of the index came through, no later call finds the session. `Refused` in
  `RevocationComplete` and `strays` in `IndexComplete` are these rows; that nothing else
  is left is proved.
* `docs/storage.md:50`: redis keys expire with the session; `setBoundKey` sets no expiry.

## Not modelled

The signed-fetch wrappers of the client, and the outcomes `initBoundDbsc` reports.
Strings: JWS and JWK parsing, header and cookie formats, URL normalisation of DPoP, session-id
derivation, the route policy. Cryptography. The wording of events and answers, cookie
attributes, the `X-Server-Time` header (some answers of nextjs lack it). The `create-dbsc`
kits, the electron shim and the examples: wiring of the modelled parts. The DPoP guards of
the adapters other than express. The order in which PostgreSQL takes locks, and rows
that predate the third migration. The 32-bit limit of `setTimeout` delays in the memory
replay cache.

## Plan

Done, in this order: 1. `DbscTypes`, `MemoryStorage`, `DbscServer`. 2. `ChallengeLedger` and
the refinement. 3. `DbscServerProofs`. 4. `ReplayGuard` and its proofs. 5. `ClientSdk` and its
proofs. 6. The durable storages, the migrations and `StorageProofs`. 7. The adapters,
`PolyfillMissing` and `AdaptersProofs`. 8. `RouteProofs` and the rest of `AdaptersProofs`.
9. `StorageReturnProofs`. 10. `StorageLedgerProofs`.

What could follow:

* the handlers of `DbscServer` over `RedisStorage`'s commands instead of its methods: the
  two are checked apart, by the contract each method keeps;
* the signed-fetch wrappers, whose uninstall order matters when several are installed.
