------------------------------ MODULE Adapters ------------------------------
(***************************************************************************)
(* An application on one of the adapters: its protocol routes, bindSession *)
(* at a login, the middleware (autoBind, revoke, the polyfill warning) and *)
(* the guard of its own routes, for one session and the browser that holds *)
(* it.  The properties ask of every request that could be made in every    *)
(* reachable state what the adapter would answer.                          *)
(***************************************************************************)
EXTENDS AdapterRoutes, PolyfillMissing

VARIABLE adapter        \* chosen once, with `polyfill`

vars == <<adapter, polyfill, protocolVars, missingVars>>

\* What a step on the session and its browser leaves alone.
others == <<adapter, polyfill, missingVars>>

Table(q) == Tables[adapter][q.route]

\* The plugin has no limiter, so it refuses no request that one would.
Served ==
  [a \in Adapters |-> {q \in Requests : /\ q.route \in DOMAIN Tables[a]
                                        /\ a = "betterAuth" => q.allowed}]

Offered == Served[adapter]

Answer(q) == Serve(Table(q), q)

Init ==
  /\ adapter \in Adapters
  /\ polyfill \in BOOLEAN
  /\ row = NoRow /\ keys = {}
  /\ jar = [bound |-> FALSE, reg |-> FALSE, challenge |-> "none"]
  /\ sdk = "none"
  /\ MissingInit

\* The challenge cookie an accepted proof leaves.
LeftBy(q, r) ==
  IF q.route \in NativeRoutes /\ r.status = 200 /\ ~Table(q).clears
  THEN {"none", "spent"} ELSE {r.jar.challenge}

Request(q) ==
  LET r == Answer(q) IN
  /\ row' = r.row /\ keys' = r.keys /\ sdk' = r.sdk
  /\ \E left \in LeftBy(q, r) : jar' = [r.jar EXCEPT !.challenge = left]
  /\ UNCHANGED others

\* The application calls bindSession, or a login passes the plugin's hook.
Login == Bound(Binds[adapter]) /\ UNCHANGED others

AutoBind ==
  /\ Middleware[adapter].autoBinds
  /\ ~jar.bound /\ ~jar.reg
  /\ Bound(Binds[adapter])
  /\ UNCHANGED others

\* The application calls revoke() in a request that brings the bound cookie.
Revoke ==
  /\ Middleware[adapter].revokes # "never" /\ jar.bound
  /\ row' = NoRow /\ keys' = {}
  /\ \E left \in IF Middleware[adapter].revokes = "surely" THEN {FALSE} ELSE BOOLEAN :
       jar' = [jar EXCEPT !.bound = left]
  /\ UNCHANGED <<sdk, others>>

\* expiresAt of the row passes; its keys stay in the storage.
RowExpires ==
  /\ row.stored
  /\ row' = NoRow
  /\ UNCHANGED <<keys, jar, sdk, others>>

\* lastRefreshAt + boundCookieTtl + refreshGraceMs passes.
GoesStale ==
  /\ row.fresh
  /\ row' = [row EXCEPT !.fresh = FALSE]
  /\ UNCHANGED <<keys, jar, sdk, others>>

\* The Max-Age of a cookie passes.
CookieExpires ==
  /\ \/ jar.bound /\ jar' = [jar EXCEPT !.bound = FALSE]
     \/ jar.reg /\ jar' = [jar EXCEPT !.reg = FALSE]
     \/ jar.challenge # "none" /\ jar' = [jar EXCEPT !.challenge = "none"]
  /\ UNCHANGED <<row, keys, sdk, others>>

\* expiresAt of a challenge passes.
ChallengeExpires ==
  /\ \/ jar.challenge = "open" /\ jar' = [jar EXCEPT !.challenge = "spent"]
        /\ UNCHANGED sdk
     \/ sdk = "open" /\ sdk' = "spent" /\ UNCHANGED jar
  /\ UNCHANGED <<row, keys, others>>

\* A request passes the middleware with the session's cookie.
Warn(c) ==
  /\ \/ /\ jar.bound /\ row.stored
        /\ \/ Middleware[adapter].warns = "always"
           \/ Middleware[adapter].warns = "fresh" /\ row.fresh
        /\ Tests(c, row.tier)
     \/ ReadsKey(c, "bound" \in keys)
     \/ Emits(c)
  /\ UNCHANGED <<adapter, polyfill, protocolVars>>

Restart == Restarts /\ UNCHANGED <<adapter, polyfill, protocolVars>>

Next ==
  \/ \E q \in Offered : Request(q)
  \/ Login
  \/ AutoBind
  \/ Revoke
  \/ RowExpires
  \/ GoesStale
  \/ CookieExpires
  \/ ChallengeExpires
  \/ \E c \in Checks : Warn(c)
  \/ Restart

\* A browser with a native key answers the challenge of a refresh: it asks
\* (Asking) until it holds a live challenge, and signs it (Proving).
Refresh(proof) ==
  [route |-> "refresh", id |-> TRUE, legacy |-> FALSE, allowed |-> TRUE,
   proof |-> proof, body |-> TRUE]

Asking == Request(Refresh("none"))

Proving == jar.challenge = "open" /\ Request(Refresh("good"))

Spec ==
  /\ Init /\ [][Next]_vars
  /\ WF_vars(Asking)
  /\ SF_vars(Proving)

TypeOK ==
  /\ adapter \in Adapters /\ polyfill \in BOOLEAN
  /\ row \in Rows /\ keys \subseteq Kinds /\ jar \in Jars /\ sdk \in Slots
  /\ MissingTypeOK

-----------------------------------------------------------------------------
\* What a request is to an adapter.  The plugin does not see the proof of a
\* registration under the older header, and takes the reg cookie of a refresh
\* for the name of its session.
Meant(a, q) ==
  IF a # "betterAuth" THEN q
  ELSE [q EXCEPT !.proof = IF q.legacy THEN "none" ELSE q.proof,
                 !.id = q.id \/ jar.reg]

\* All adapters answer a request alike: they leave the same session and the same
\* cookies behind, say the same and raise the same events as Express does to the
\* request as that adapter reads it.  Where the code of one differs, it is in
\* this list: a request that is refused by the limiter may be refused by another
\* test first, with another status; /state of Express and NestJS reports a
\* session with both keys as dbsc, the others what its row says; the plugin has
\* no limiter to tell of a rejected proof; and three adapters do not report a
\* rejected native registration.
Alike(a, q) ==
  LET mine == Serve(Tables[a][q.route], q)
      ours == Serve(Tables["express"][q.route], Meant(a, q))
  IN
  /\ mine.row = ours.row /\ mine.keys = ours.keys
  /\ mine.jar = ours.jar /\ mine.sdk = ours.sdk
  /\ mine.phase = ours.phase
  /\ mine.status = ours.status \/ ~q.allowed
  /\ \/ mine.tier = ours.tier
     \/ /\ q.route = "state" /\ "native" \in keys /\ "bound" \in keys
        /\ ours.tier = "dbsc" /\ mine.tier = row.tier
  /\ mine.noted = ours.noted \/ a = "betterAuth"
  /\ \/ mine.events = ours.events
     \/ /\ a \in {"hono", "fastify", "nextjs"} /\ q.route = "registration"
        /\ ours.events = Reports /\ mine.events = {}

PortsAgree == AtRest => \A q \in Offered : Alike(adapter, q)

\* No request takes a session its tier unless session_stolen is raised with it;
\* and session_stolen is raised over a session that this request, or one before
\* it, left without a tier, or over one with no row.  The exception is a polyfill
\* refresh whose timestamp is out of its window: it raises session_stolen and
\* leaves the row, with the tier it had, as it was.
AlarmMatchesDemotion ==
  AtRest =>
    \A q \in Offered :
      LET r == Answer(q) IN
      /\ row.tier # "none" /\ r.row.tier = "none" =>
           {"session_stolen", "verification_failure"} \subseteq r.events
      /\ "session_stolen" \in r.events =>
           \/ r.row.tier = "none"
           \/ q.route = "boundRefresh" /\ q.proof = "skewed" /\ r.row = row

\* No request reaches a handler of src/core, or is given a challenge by a
\* refresh, before the limiter was asked, and every rejected proof is told to
\* it; the plugin has no limiter.
Touches(r) ==
  r.row # row \/ r.keys # keys \/ r.jar # jar \/ r.sdk # sdk \/ r.events # {}

LimiterFirst ==
  AtRest /\ adapter # "betterAuth" =>
    \A q \in Offered :
      LET r == Answer(q) IN
      q.route \notin {"state", "challenge", "guarded"} =>
        /\ Touches(r) => r.asked /\ q.allowed
        /\ r.phase = "error" => r.noted

\* What /state says is so: the tier it gives has its key in the storage; a
\* client told to register can, with the challenge it was given; and one told
\* that it is bound can refresh, with a challenge from /challenge.  The tier is
\* that of the row, but "none" where a client is told that it is not bound or has
\* to register, and "dbsc" for a session with both keys on Express and NestJS.
StateRequest ==
  [route |-> "state", id |-> FALSE, legacy |-> FALSE, allowed |-> TRUE,
   proof |-> "none", body |-> TRUE]

ReportBacked ==
  AtRest =>
    LET r == Answer(StateRequest) IN
    /\ r.tier = "dbsc" => "native" \in keys
    /\ r.tier = "bound" => "bound" \in keys
    /\ r.phase = "bound" <=> polyfill /\ row.stored /\ "bound" \in keys
                               /\ (jar.bound \/ jar.reg)
    /\ r.phase \in {"needs-registration", "needs-bound-registration"} =>
         r.sdk = "open" /\ "bound" \notin keys
    /\ r.tier # row.tier =>
         \/ r.phase \in {"unbound", "needs-registration"} /\ r.tier = "none"
         \/ /\ r.phase = "bound" /\ r.tier = "dbsc"
            /\ adapter \in {"express", "nestjs"}

\* A guarded route is reached only with the bound cookie of a stored session
\* that is neither demoted nor stale, and with a proof by its polyfill key;
\* without a proof only a native session, where the polyfill is off.
GuardSound ==
  AtRest =>
    \A q \in Offered :
      q.route = "guarded" /\ Answer(q).status = 200 =>
        /\ jar.bound /\ row.stored /\ row.tier # "none" /\ row.fresh
        /\ \/ q.proof = "good" /\ "bound" \in keys
           \/ ~polyfill /\ row.tier = "dbsc" /\ "native" \in keys

\* A native session that went stale or was demoted is usable again, however
\* the cookies and challenges are lost in between, unless it ends: no adapter
\* leaves it without a way back.
Usable == jar.bound /\ row.tier = "dbsc" /\ row.fresh

Recovers ==
  row.stored /\ "native" \in keys
    ~> Usable \/ ~row.stored \/ "native" \notin keys
=============================================================================
