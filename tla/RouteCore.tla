----------------------------- MODULE RouteCore -----------------------------
(***************************************************************************)
(* What the protocol routes of all adapters share: one session, the cookie *)
(* jar of a browser that holds it, and a request answered in one step      *)
(* (DbscServer has the handlers of src/core await by await).  An adapter   *)
(* is a table: for each route, the tests it makes in their order (gates)   *)
(* and what it does when the handler of src/core accepts or rejects.       *)
(* Serve is the reading of such a table.                                   *)
(*                                                                         *)
(* Cookie names, attributes and the bodies of the answers are left out.    *)
(***************************************************************************)
EXTENDS Integers, Sequences, FiniteSetsExt, Functions

VARIABLES
  polyfill,     \* the option `bound`
  row,          \* the session's row: its tier, and whether it is not yet stale
  keys,         \* the kinds of which a key is stored
  jar,          \* the cookies: bound, reg, and the challenge one
  sdk           \* the challenge the client SDK was last given

protocolVars == <<row, keys, jar, sdk>>

Kinds == {"native", "bound"}

Tiers == {"none", "dbsc", "bound"}

NoRow == [tier |-> "none", fresh |-> FALSE, stored |-> FALSE]

Rows == {NoRow} \cup [tier : Tiers, fresh : BOOLEAN, stored : {TRUE}]

\* A challenge a client holds: none, one that can be consumed, or one that was
\* consumed or has expired.
Slots == {"none", "open", "spent"}

Jars == [bound : BOOLEAN, reg : BOOLEAN, challenge : Slots]

NativeRoutes == {"registration", "refresh"}

\* A refresh may name its session in Sec-Secure-Session-Id (id), the proof of a
\* registration may come under the header's older name (legacy), which every
\* refresh reads.  A proof is missing, good, by another key, out of its time
\* window, or no JWS at all.
Requests ==
       [route : {"registration"}, id : {FALSE}, legacy : BOOLEAN, allowed : BOOLEAN,
        proof : {"none", "good", "forged", "malformed"}, body : {TRUE}]
  \cup [route : {"refresh"}, id : BOOLEAN, legacy : {FALSE}, allowed : BOOLEAN,
        proof : {"none", "good", "forged", "malformed"}, body : {TRUE}]
  \cup [route : {"boundRegistration"}, id : {FALSE}, legacy : {FALSE},
        allowed : BOOLEAN, proof : {"good", "forged"}, body : BOOLEAN]
  \cup [route : {"boundRefresh"}, id : {FALSE}, legacy : {FALSE},
        allowed : BOOLEAN, proof : {"good", "forged", "skewed"}, body : BOOLEAN]
  \cup [route : {"state", "challenge"}, id : {FALSE}, legacy : {FALSE},
        allowed : {TRUE}, proof : {"none"}, body : {TRUE}]
  \cup [route : {"guarded"}, id : {FALSE}, legacy : {FALSE}, allowed : {TRUE},
        proof : {"none", "good", "forged"}, body : {TRUE}]

-----------------------------------------------------------------------------
\* The handlers of src/core, from the request to the last write.  `code` tells
\* SIGNATURE_INVALID, the one code the routes look at, from the other errors.

\* Bug: the row is written back without a look at whether it is still there.
AcceptedWithoutRow(kinds, tier) ==
  [code |-> "ok", spends |-> TRUE, keys |-> keys \cup kinds,
   row |-> [row EXCEPT !.tier = tier, !.fresh = TRUE]]

Accepted(kinds, tier) ==
  [code |-> "ok", spends |-> TRUE, keys |-> keys \cup kinds,
   row |-> IF row.stored THEN [row EXCEPT !.tier = tier, !.fresh = TRUE] ELSE row]

Rejected(code) ==
  [code |-> code, spends |-> FALSE, keys |-> keys, row |-> row]

\* A signature by another key over a live challenge.
Demotion ==
  [code |-> "SIGNATURE_INVALID", spends |-> TRUE, keys |-> keys,
   row |-> [row EXCEPT !.tier = "none"]]

TierBesideNative == IF "native" \in keys THEN row.tier ELSE "bound"

HandleRegistration(proof) ==
  CASE proof = "forged" -> Rejected("SIGNATURE_INVALID")
    [] proof = "good" /\ jar.challenge = "open" /\ "native" \notin keys ->
         Accepted({"native"}, "dbsc")
    [] OTHER -> Rejected("OTHER")

HandleRefresh(proof) ==
  IF "native" \notin keys \/ jar.challenge # "open" THEN Rejected("OTHER")
  ELSE CASE proof = "good" -> Accepted({}, "dbsc")
         [] proof = "forged" -> Demotion
         [] OTHER -> Rejected("OTHER")

HandleBoundRegistration(proof) ==
  IF sdk # "open" THEN Rejected("OTHER")
  ELSE IF proof # "good" THEN Rejected("SIGNATURE_INVALID")
  ELSE IF "bound" \in keys THEN Rejected("OTHER")
  ELSE Accepted({"bound"}, TierBesideNative)

\* The timestamp is tested first.
HandleBoundRefresh(proof) ==
  IF proof = "skewed" THEN Rejected("SIGNATURE_INVALID")
  ELSE IF "bound" \notin keys \/ sdk # "open" THEN Rejected("OTHER")
  ELSE IF proof = "good" THEN Accepted({}, TierBesideNative)
  ELSE Demotion

-----------------------------------------------------------------------------
\* The tier the middleware hands on; a row goes stale when lastRefreshAt +
\* boundCookieTtl + refreshGraceMs has passed.
SeenTier ==
  IF jar.bound /\ row.stored /\ (row.tier # "none" => row.fresh)
  THEN row.tier ELSE "none"

\* Bug: the guard lets native sessions pass under the polyfill as well.
RelaxedAlways == TRUE

\* allowDbscWithoutProof, when the application does not set it.
Relaxed == ~polyfill

\* The tests of the routes: when they stop a request.
Stops(gate, q) ==
  CASE gate = "polyfill"  -> ~polyfill
    [] gate = "limit"     -> ~q.allowed
    [] gate = "regCookies" -> ~jar.reg \/ jar.challenge = "none"
    [] gate = "idOrBound" -> ~q.id /\ ~jar.bound
    [] gate = "idOrAny"   -> ~q.id /\ ~jar.bound /\ ~jar.reg
    [] gate = "cookie"    -> ~jar.bound /\ ~jar.reg
    [] gate = "row"       -> ~row.stored
    [] gate = "body"      -> ~q.body
    [] gate = "signed"    -> q.proof = "none" \/ jar.challenge = "none"
    [] gate = "tier"      -> SeenTier = "none"
    [] gate = "binding"   -> ~jar.bound \/ SeenTier = "none"
    [] gate = "proof"     -> /\ ~(SeenTier = "dbsc" /\ Relaxed)
                             /\ ~("bound" \in keys /\ q.proof = "good")

Statuses == {200, 400, 401, 403, 404, 429}

\* The status of a stopped request; /state answers 200 with phase "unbound".
StopStatus(gate, q) ==
  IF q.route = "state" THEN 200
  ELSE CASE gate = "limit" -> 429
         [] gate = "polyfill" -> 404
         [] gate = "cookie" -> IF q.route = "boundRegistration" THEN 400 ELSE 403
         [] gate \in {"regCookies", "body"} -> 400
         [] OTHER -> 403

\* What a request comes to: the state it leaves, and the answer with the
\* telemetry events and limiter calls made on the way.
Outcome(status, phase, asked) ==
  [row |-> row, keys |-> keys, jar |-> jar, sdk |-> sdk, status |-> status,
   phase |-> phase, tier |-> "none", asked |-> asked, noted |-> FALSE,
   events |-> {}]

\* Bug: a refresh without a proof is turned away without a challenge.
StoppedBare(gate, q, asked) ==
  Outcome(StopStatus(gate, q), "unbound", asked)

\* A test stopped the request; "signed" is the first leg of a refresh, which
\* the answer gives a challenge cookie.
Stopped(gate, q, asked) ==
  LET o == Outcome(StopStatus(gate, q), "unbound", asked) IN
  IF gate = "signed" THEN [o EXCEPT !.jar.challenge = "open"] ELSE o

\* Bug: session_stolen asks for a polyfill key on every route.
FailedBoundOnly(t, h, native) ==
  [Outcome(t.status, "error", "limit" \in Range(t.gates)) EXCEPT
     !.row = h.row,
     !.jar.challenge = IF "challenge" \in t.fails THEN "open"
                       ELSE IF native /\ h.spends THEN "spent" ELSE @,
     !.sdk = IF ~native /\ h.spends THEN "spent" ELSE @,
     !.noted = "recordFailure" \in t.fails,
     !.events = {e \in t.fails \ {"challenge", "recordFailure"} :
                   e = "session_stolen" =>
                     h.code = "SIGNATURE_INVALID" /\ "bound" \in keys}]

\* The handler rejected the proof: h is its result, `fails` what the route then
\* does.  session_stolen asks for a key of either kind.
Failed(t, h, native) ==
  [Outcome(t.status, "error", "limit" \in Range(t.gates)) EXCEPT
     !.row = h.row,
     !.jar.challenge = IF "challenge" \in t.fails THEN "open"
                       ELSE IF native /\ h.spends THEN "spent" ELSE @,
     !.sdk = IF ~native /\ h.spends THEN "spent" ELSE @,
     !.noted = "recordFailure" \in t.fails,
     !.events = {e \in t.fails \ {"challenge", "recordFailure"} :
                   e = "session_stolen" =>
                     h.code = "SIGNATURE_INVALID" /\ keys # {}}]

\* The handler accepted it: the event, the bound cookie and, on the native
\* routes, an end to the challenge cookie.
Succeeded(t, h, native) ==
  [Outcome(200, "ok", "limit" \in Range(t.gates)) EXCEPT
     !.row = h.row, !.keys = h.keys,
     !.jar.bound = TRUE,
     !.jar.challenge = IF native THEN "none" ELSE @,
     !.sdk = IF native THEN @ ELSE "spent",
     !.events = {t.event}]

Proven(t, h, native) ==
  IF h.code = "ok" THEN Succeeded(t, h, native) ELSE Failed(t, h, native)

Heard(t, q) == IF q.legacy /\ ~t.legacy THEN "none" ELSE q.proof

\* Bug: a native session is told to register a polyfill key, with no challenge.
ReportedBare(t) ==
  LET tier == IF t.nativeFirst /\ "native" \in keys THEN "dbsc" ELSE row.tier IN
  IF "bound" \in keys
  THEN [Outcome(200, "bound", FALSE) EXCEPT !.tier = tier]
  ELSE IF "native" \in keys
  THEN [Outcome(200, "needs-bound-registration", FALSE) EXCEPT !.tier = row.tier]
  ELSE [Outcome(200, "needs-registration", FALSE) EXCEPT !.sdk = "open"]

\* GET /dbsc-bound/state past its tests.
Reported(t) ==
  LET tier == IF t.nativeFirst /\ "native" \in keys THEN "dbsc" ELSE row.tier IN
  IF "bound" \in keys
  THEN [Outcome(200, "bound", FALSE) EXCEPT !.tier = tier]
  ELSE IF "native" \in keys
  THEN [Outcome(200, "needs-bound-registration", FALSE) EXCEPT
          !.tier = row.tier, !.sdk = "open"]
  ELSE [Outcome(200, "needs-registration", FALSE) EXCEPT !.sdk = "open"]

\* Past the tests of its table t.
Ran(t, q) ==
  CASE q.route = "registration" ->
         Proven(t, HandleRegistration(Heard(t, q)), TRUE)
    [] q.route = "refresh" -> Proven(t, HandleRefresh(q.proof), TRUE)
    [] q.route = "boundRegistration" ->
         Proven(t, HandleBoundRegistration(q.proof), FALSE)
    [] q.route = "boundRefresh" -> Proven(t, HandleBoundRefresh(q.proof), FALSE)
    [] q.route = "state" -> Reported(t)
    [] q.route = "challenge" ->
         [Outcome(200, "challenge", FALSE) EXCEPT !.sdk = "open"]
    [] q.route = "guarded" -> Outcome(200, "application", FALSE)

\* The first test that stops the request decides.
Serve(t, q) ==
  LET stops == {i \in DOMAIN t.gates : Stops(t.gates[i], q)} IN
  IF stops = {} THEN Ran(t, q)
  ELSE Stopped(t.gates[Min(stops)], q,
               \E i \in 1..Min(stops) : t.gates[i] = "limit")

-----------------------------------------------------------------------------
\* bindSession: b says which cookies the adapter sets beside reg and challenge.
Bound(b) ==
  /\ row' = IF row.stored THEN row
            ELSE [tier |-> "none", fresh |-> b.fresh, stored |-> TRUE]
  /\ jar' = [bound |-> jar.bound \/ b.cookie, reg |-> TRUE, challenge |-> "open"]
  /\ UNCHANGED <<keys, sdk>>
=============================================================================
