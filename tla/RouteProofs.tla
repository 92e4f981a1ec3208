---------------------------- MODULE RouteProofs ----------------------------
(***************************************************************************)
(* What the tables of the adapters come to: for each route, what any       *)
(* adapter answers any request, in any state.  The order of the tests and  *)
(* the tables of the ports are settled here, once; AdaptersProofs argues   *)
(* from the answers.                                                       *)
(***************************************************************************)
EXTENDS AdapterRoutes, SequenceTheorems, TLAPS

LEMMA MinIs ==
  ASSUME NEW S \in SUBSET Int, NEW m \in S, \A k \in S : m <= k
  PROVE  Min(S) = m
<1> DEFINE y == CHOOSE x \in S : \A k \in S : x <= k
<1>1. y \in S /\ \A k \in S : y <= k
  <2> HIDE DEF y
  <2> QED
    BY Zenon DEF y
<1>2. Min(S) = y
  BY DEF Min
<1> HIDE DEF y
<1> QED
  BY <1>1, <1>2

GateNames ==
  {"polyfill", "limit", "regCookies", "idOrBound", "idOrAny", "cookie", "row", "body",
   "signed", "tier", "binding", "proof"}

\* The gates of a table, and those that stop a request.
Gates(t) == Range(t.gates)

Passed(t, q) == \A g \in Gates(t) : ~Stops(g, q)

StopsFirst(t, q, m) ==
  /\ Stops(t.gates[m], q)
  /\ \A i \in 1..(m - 1) : ~Stops(t.gates[i], q)

Listed(t) == t.gates \in Seq(GateNames) /\ Len(t.gates) \in 1..4

LEMMA FirstStop ==
  ASSUME NEW t, NEW q, t.gates \in Seq(GateNames), Len(t.gates) \in 1..4, ~Passed(t, q)
  PROVE  \E m \in 1..Len(t.gates) : StopsFirst(t, q, m)
BY SMTT(30) DEF Passed, Gates, Range, StopsFirst

\* A request that no test stops runs the handler.
LEMMA ServePassed ==
  ASSUME NEW t, NEW q, t.gates \in Seq(GateNames), Passed(t, q)
  PROVE  Serve(t, q) = Ran(t, q)
<1> DEFINE stops == {i \in DOMAIN t.gates : Stops(t.gates[i], q)}
<1>1. stops = {}
  BY DEF Passed, Gates, Range
<1> QED
  BY <1>1 DEF Serve

\* Otherwise the first one that stops it decides.
LEMMA ServeStopped ==
  ASSUME NEW t, NEW q, t.gates \in Seq(GateNames),
         NEW m \in 1..Len(t.gates), StopsFirst(t, q, m)
  PROVE  Serve(t, q) =
           Stopped(t.gates[m], q, \E i \in 1..m : t.gates[i] = "limit")
<1> DEFINE stops == {i \in DOMAIN t.gates : Stops(t.gates[i], q)}
<1>1. stops \in SUBSET Int /\ m \in stops
  BY DEF StopsFirst
<1>2. \A k \in stops : m <= k
  BY DEF StopsFirst
<1>3. Min(stops) = m /\ stops # {}
  BY <1>1, <1>2, MinIs
<1> HIDE DEF stops
<1>4. Serve(t, q) = Stopped(t.gates[Min(stops)], q,
                            \E i \in 1..Min(stops) : t.gates[i] = "limit")
  BY <1>3 DEF Serve, stops
<1> QED
  BY <1>3, <1>4

-----------------------------------------------------------------------------
\* The session and its browser are what they should be.
Typed == row \in Rows /\ keys \subseteq Kinds /\ jar \in Jars /\ sdk \in Slots

\* A request that a test turns away changes nothing on the server.
Still(r) ==
  /\ r.row = row /\ r.keys = keys /\ r.sdk = sdk
  /\ r.phase = "unbound" /\ r.tier = "none"
  /\ ~r.noted /\ r.events = {}

Turned(r) == Still(r) /\ r.jar = jar

\* The fields of the answers.
LEMMA StoppedAnswer ==
  ASSUME NEW g, NEW q, NEW asked, NEW r, r = Stopped(g, q, asked)
  PROVE  /\ Still(r)
         /\ g # "signed" => r.jar = jar
         /\ g = "signed" => r.jar = [jar EXCEPT !.challenge = "open"]
         /\ (r.asked <=> asked)
         /\ r.status = StopStatus(g, q)
BY DEF Stopped, Outcome, Still

\* The answer to a proof on a native route, and on a polyfill one.
NativeProven(t, h) == Proven(t, h, TRUE)

BoundProven(t, h) == Proven(t, h, FALSE)

Accepting(t, h, r) ==
  /\ r.row = h.row /\ r.keys = h.keys
  /\ r.status = 200 /\ r.phase = "ok" /\ r.tier = "none"
  /\ ~r.noted /\ r.events = {t.event}

Rejecting(t, h, r) ==
  /\ r.row = h.row /\ r.keys = keys
  /\ r.status = t.status /\ r.phase = "error" /\ r.tier = "none"
  /\ r.noted <=> "recordFailure" \in t.fails
  /\ r.events = {e \in t.fails \ {"challenge", "recordFailure"} :
                   e = "session_stolen" => h.code = "SIGNATURE_INVALID" /\ keys # {}}

NativeJar(t, h) ==
  IF h.code = "ok" THEN [bound |-> TRUE, reg |-> jar.reg, challenge |-> "none"]
  ELSE [jar EXCEPT !.challenge = IF "challenge" \in t.fails THEN "open"
                                 ELSE IF h.spends THEN "spent" ELSE @]

NativeSlot(h) == sdk

BoundJar(t, h) ==
  IF h.code = "ok" THEN [bound |-> TRUE, reg |-> jar.reg, challenge |-> jar.challenge]
  ELSE [jar EXCEPT !.challenge = IF "challenge" \in t.fails THEN "open" ELSE @]

BoundSlot(h) == IF h.code = "ok" \/ h.spends THEN "spent" ELSE sdk

LEMMA JarsTyped ==
  ASSUME Typed, NEW t, NEW h
  PROVE  /\ NativeJar(t, h) \in Jars /\ BoundJar(t, h) \in Jars
         /\ NativeSlot(h) \in Slots /\ BoundSlot(h) \in Slots
<1>1. PICK c \in Slots : h.code # "ok" => NativeJar(t, h) = [jar EXCEPT !.challenge = c]
  BY DEF NativeJar, Typed, Jars, Slots
<1>2. PICK d \in Slots : h.code # "ok" => BoundJar(t, h) = [jar EXCEPT !.challenge = d]
  BY DEF BoundJar, Typed, Jars, Slots
<1>3. h.code # "ok" => NativeJar(t, h) \in Jars /\ BoundJar(t, h) \in Jars
  BY <1>1, <1>2 DEF Typed, Jars
<1>4. h.code = "ok" => NativeJar(t, h) \in Jars /\ BoundJar(t, h) \in Jars
  BY DEF NativeJar, BoundJar, Typed, Jars, Slots
<1> QED
  BY <1>3, <1>4 DEF NativeSlot, BoundSlot, Typed, Slots

LEMMA NativeAnswer ==
  ASSUME Typed, NEW t, NEW h, NEW r, r = NativeProven(t, h)
  PROVE  /\ r.jar = NativeJar(t, h) /\ r.sdk = NativeSlot(h)
         /\ h.code = "ok" => Accepting(t, h, r)
         /\ h.code # "ok" => Rejecting(t, h, r)
         /\ r.asked <=> "limit" \in Gates(t)
<1>1. CASE h.code = "ok"
  <2>1. r = Succeeded(t, h, TRUE)
    BY <1>1 DEF NativeProven, Proven
  <2>2. r.jar = [[jar EXCEPT !.bound = TRUE] EXCEPT !.challenge = "none"]
    BY <2>1 DEF Succeeded, Outcome
  <2>3. r.jar = NativeJar(t, h)
    BY <1>1, <2>2 DEF Typed, Jars, NativeJar
  <2>4. /\ r.row = h.row /\ r.keys = h.keys /\ r.sdk = NativeSlot(h)
        /\ r.status = 200 /\ r.phase = "ok" /\ r.tier = "none"
    BY <1>1, <2>1 DEF Succeeded, Outcome, NativeSlot
  <2>5. r.asked <=> "limit" \in Gates(t)
    BY ZenonT(60), <2>1 DEF Succeeded, Outcome, Gates
  <2>6. ~r.noted
    BY <2>1 DEF Succeeded, Outcome
  <2>7. r.events = {t.event}
    BY <2>1 DEF Succeeded, Outcome
  <2> QED
    BY <1>1, <2>3, <2>4, <2>5, <2>6, <2>7 DEF Accepting
<1>2. CASE h.code # "ok"
  <2>1. r = Failed(t, h, TRUE)
    BY <1>2 DEF NativeProven, Proven
  <2>2. r.jar = NativeJar(t, h) /\ r.sdk = NativeSlot(h)
    BY <1>2, <2>1 DEF Failed, Outcome, NativeJar, NativeSlot
  <2>3. Rejecting(t, h, r)
    BY ZenonT(60), <2>1 DEF Failed, Outcome, Rejecting
  <2>4. r.asked <=> "limit" \in Gates(t)
    BY <2>1 DEF Failed, Outcome, Gates
  <2> QED
    BY <1>2, <2>2, <2>3, <2>4
<1> QED
  BY <1>1, <1>2

LEMMA BoundAnswer ==
  ASSUME Typed, NEW t, NEW h, NEW r, r = BoundProven(t, h)
  PROVE  /\ r.jar = BoundJar(t, h) /\ r.sdk = BoundSlot(h)
         /\ h.code = "ok" => Accepting(t, h, r)
         /\ h.code # "ok" => Rejecting(t, h, r)
         /\ r.asked <=> "limit" \in Gates(t)
<1>1. CASE h.code = "ok"
  <2>1. r = Succeeded(t, h, FALSE)
    BY <1>1 DEF BoundProven, Proven
  <2>2. r.jar = [[jar EXCEPT !.bound = TRUE] EXCEPT !.challenge = jar.challenge]
    BY <2>1 DEF Succeeded, Outcome
  <2>3. r.jar = BoundJar(t, h)
    BY <1>1, <2>2 DEF Typed, Jars, BoundJar
  <2>4. /\ r.row = h.row /\ r.keys = h.keys /\ r.sdk = BoundSlot(h)
        /\ r.status = 200 /\ r.phase = "ok" /\ r.tier = "none"
    BY <1>1, <2>1 DEF Succeeded, Outcome, BoundSlot
  <2>5. r.asked <=> "limit" \in Gates(t)
    BY ZenonT(60), <2>1 DEF Succeeded, Outcome, Gates
  <2>6. ~r.noted
    BY <2>1 DEF Succeeded, Outcome
  <2>7. r.events = {t.event}
    BY <2>1 DEF Succeeded, Outcome
  <2> QED
    BY <1>1, <2>3, <2>4, <2>5, <2>6, <2>7 DEF Accepting
<1>2. CASE h.code # "ok"
  <2>1. r = Failed(t, h, FALSE)
    BY <1>2 DEF BoundProven, Proven
  <2>2. r.jar = BoundJar(t, h) /\ r.sdk = BoundSlot(h)
    BY <1>2, <2>1 DEF Failed, Outcome, BoundJar, BoundSlot
  <2>3. Rejecting(t, h, r)
    BY ZenonT(60), <2>1 DEF Failed, Outcome, Rejecting
  <2>4. r.asked <=> "limit" \in Gates(t)
    BY <2>1 DEF Failed, Outcome, Gates
  <2> QED
    BY <1>2, <2>2, <2>3, <2>4
<1> QED
  BY <1>1, <1>2

LEMMA ReportedAnswer ==
  ASSUME NEW t, NEW r, r = Reported(t)
  PROVE  /\ r.row = row /\ r.keys = keys /\ r.jar = jar
         /\ r.sdk = IF "bound" \in keys THEN sdk ELSE "open"
         /\ r.status = 200
         /\ r.phase = IF "bound" \in keys THEN "bound"
                      ELSE IF "native" \in keys THEN "needs-bound-registration"
                      ELSE "needs-registration"
         /\ r.tier = IF "bound" \in keys
                     THEN IF t.nativeFirst /\ "native" \in keys THEN "dbsc" ELSE row.tier
                     ELSE IF "native" \in keys THEN row.tier ELSE "none"
         /\ ~r.asked /\ ~r.noted /\ r.events = {}
BY DEF Reported, Outcome

LEMMA GateMeans ==
  ASSUME NEW q
  PROVE  /\ Stops("polyfill", q) <=> ~polyfill
         /\ Stops("limit", q) <=> ~q.allowed
         /\ Stops("regCookies", q) <=> ~jar.reg \/ jar.challenge = "none"
         /\ Stops("idOrBound", q) <=> ~q.id /\ ~jar.bound
         /\ Stops("idOrAny", q) <=> ~q.id /\ ~jar.bound /\ ~jar.reg
         /\ Stops("cookie", q) <=> ~jar.bound /\ ~jar.reg
         /\ Stops("row", q) <=> ~row.stored
         /\ Stops("body", q) <=> ~q.body
         /\ Stops("signed", q) <=> q.proof = "none" \/ jar.challenge = "none"
         /\ Stops("tier", q) <=> SeenTier = "none"
         /\ Stops("binding", q) <=> ~jar.bound \/ SeenTier = "none"
         /\ Stops("proof", q) <=> /\ ~(SeenTier = "dbsc" /\ Relaxed)
                                  /\ ~("bound" \in keys /\ q.proof = "good")
BY DEF Stops

-----------------------------------------------------------------------------
\* Which table each adapter has for a route.
LEMMA TablesOf ==
  /\ Tables["express"] = ExpressRoutes /\ Tables["hono"] = HonoRoutes
  /\ Tables["fastify"] = FastifyRoutes /\ Tables["node"] = NodeRoutes
  /\ Tables["koa"] = KoaRoutes /\ Tables["nestjs"] = NestRoutes
  /\ Tables["nextjs"] = NextRoutes /\ Tables["sveltekit"] = SvelteRoutes
  /\ Tables["betterAuth"] = BetterAuthRoutes
BY DEF Tables

\* koa and nestjs delegate to node and express.
LEMMA Delegates ==
  /\ \A r \in DOMAIN ExpressRoutes \ {"guarded"} : NestRoutes[r] = ExpressRoutes[r]
  /\ \A r \in DOMAIN NodeRoutes \ {"guarded"} : KoaRoutes[r] = NodeRoutes[r]
  /\ NestRoutes["guarded"] = NestGuard /\ KoaRoutes["guarded"] = KoaGuard
BY DEF NestRoutes, KoaRoutes, ExpressRoutes, NodeRoutes

LEMMA PluginRoutes ==
  DOMAIN Tables["betterAuth"] =
    {"registration", "refresh", "state", "challenge", "boundRegistration", "boundRefresh"}
BY TablesOf DEF BetterAuthRoutes

LEMMA RegistrationTables ==
  ASSUME NEW a \in Adapters, NEW t, t = Tables[a]["registration"]
  PROVE  \/ a \in {"express", "nestjs"} /\ t = ExpressRegistration
         \/ a \in {"node", "koa"} /\ t = NodeRegistration
         \/ a = "hono" /\ t = HonoRegistration
         \/ a = "fastify" /\ t = FastifyRegistration
         \/ a = "nextjs" /\ t = NextRegistration
         \/ a = "sveltekit" /\ t = SvelteRegistration
         \/ a = "betterAuth" /\ t = BetterAuthRegistration
BY TablesOf, Delegates DEF Adapters, ExpressRoutes, HonoRoutes, FastifyRoutes, NodeRoutes,
  NextRoutes, SvelteRoutes, BetterAuthRoutes

LEMMA RefreshTables ==
  ASSUME NEW a \in Adapters, NEW t, t = Tables[a]["refresh"]
  PROVE  \/ a \in {"express", "nestjs"} /\ t = ExpressRefresh
         \/ a \in {"node", "koa"} /\ t = NodeRefresh
         \/ a = "hono" /\ t = HonoRefresh
         \/ a = "fastify" /\ t = FastifyRefresh
         \/ a = "nextjs" /\ t = NextRefresh
         \/ a = "sveltekit" /\ t = SvelteRefresh
         \/ a = "betterAuth" /\ t = BetterAuthRefresh
BY TablesOf, Delegates DEF Adapters, ExpressRoutes, HonoRoutes, FastifyRoutes, NodeRoutes,
  NextRoutes, SvelteRoutes, BetterAuthRoutes

LEMMA StateTables ==
  ASSUME NEW a \in Adapters, NEW t, t = Tables[a]["state"]
  PROVE  \/ a \in {"express", "nestjs"} /\ t = ExpressState
         \/ a \in {"node", "koa"} /\ t = NodeState
         \/ a = "hono" /\ t = HonoState
         \/ a = "fastify" /\ t = FastifyState
         \/ a = "nextjs" /\ t = NextState
         \/ a = "sveltekit" /\ t = SvelteState
         \/ a = "betterAuth" /\ t = BetterAuthState
BY TablesOf, Delegates DEF Adapters, ExpressRoutes, HonoRoutes, FastifyRoutes, NodeRoutes,
  NextRoutes, SvelteRoutes, BetterAuthRoutes

LEMMA ChallengeTables ==
  ASSUME NEW a \in Adapters, NEW t, t = Tables[a]["challenge"]
  PROVE  \/ a \in {"express", "nestjs"} /\ t = ExpressChallenge
         \/ a \in {"node", "koa"} /\ t = NodeChallenge
         \/ a = "hono" /\ t = HonoChallenge
         \/ a = "fastify" /\ t = FastifyChallenge
         \/ a = "nextjs" /\ t = NextChallenge
         \/ a = "sveltekit" /\ t = SvelteChallenge
         \/ a = "betterAuth" /\ t = BetterAuthChallenge
BY TablesOf, Delegates DEF Adapters, ExpressRoutes, HonoRoutes, FastifyRoutes, NodeRoutes,
  NextRoutes, SvelteRoutes, BetterAuthRoutes

LEMMA BoundRegistrationTables ==
  ASSUME NEW a \in Adapters, NEW t, t = Tables[a]["boundRegistration"]
  PROVE  \/ a \in {"express", "nestjs"} /\ t = ExpressBoundRegistration
         \/ a \in {"node", "koa"} /\ t = NodeBoundRegistration
         \/ a = "hono" /\ t = HonoBoundRegistration
         \/ a = "fastify" /\ t = FastifyBoundRegistration
         \/ a = "nextjs" /\ t = NextBoundRegistration
         \/ a = "sveltekit" /\ t = SvelteBoundRegistration
         \/ a = "betterAuth" /\ t = BetterAuthBoundRegistration
BY TablesOf, Delegates DEF Adapters, ExpressRoutes, HonoRoutes, FastifyRoutes, NodeRoutes,
  NextRoutes, SvelteRoutes, BetterAuthRoutes

LEMMA BoundRefreshTables ==
  ASSUME NEW a \in Adapters, NEW t, t = Tables[a]["boundRefresh"]
  PROVE  \/ a \in {"express", "nestjs"} /\ t = ExpressBoundRefresh
         \/ a \in {"node", "koa"} /\ t = NodeBoundRefresh
         \/ a = "hono" /\ t = HonoBoundRefresh
         \/ a = "fastify" /\ t = FastifyBoundRefresh
         \/ a = "nextjs" /\ t = NextBoundRefresh
         \/ a = "sveltekit" /\ t = SvelteBoundRefresh
         \/ a = "betterAuth" /\ t = BetterAuthBoundRefresh
BY TablesOf, Delegates DEF Adapters, ExpressRoutes, HonoRoutes, FastifyRoutes, NodeRoutes,
  NextRoutes, SvelteRoutes, BetterAuthRoutes

LEMMA GuardTables ==
  ASSUME NEW a \in Adapters, a # "betterAuth", NEW t, t = Tables[a]["guarded"]
  PROVE  \/ a = "express" /\ t = ExpressGuard
         \/ a = "nestjs" /\ t = NestGuard
         \/ a = "node" /\ t = NodeGuard
         \/ a = "koa" /\ t = KoaGuard
         \/ a = "hono" /\ t = HonoGuard
         \/ a = "fastify" /\ t = FastifyGuard
         \/ a = "nextjs" /\ t = NextGuard
         \/ a = "sveltekit" /\ t = SvelteGuard
BY TablesOf, Delegates DEF Adapters, ExpressRoutes, HonoRoutes, FastifyRoutes, NodeRoutes,
  NextRoutes, SvelteRoutes, BetterAuthRoutes

-----------------------------------------------------------------------------
\* The fields of the tables.
LEMMA RegistrationFields ==
  /\ \A t \in {ExpressRegistration, NodeRegistration, SvelteRegistration, HonoRegistration,
               FastifyRegistration, NextRegistration, BetterAuthRegistration} :
       t.event = "registration" /\ t.status = 400
  /\ \A t \in {ExpressRegistration, NodeRegistration} :
       t.gates = <<"limit", "regCookies">>
  /\ \A t \in {SvelteRegistration, HonoRegistration, FastifyRegistration, NextRegistration} :
       t.gates = <<"regCookies", "limit">>
  /\ \A t \in {ExpressRegistration, NodeRegistration, SvelteRegistration} :
       t.fails = Noted \cup Reports /\ t.legacy
  /\ \A t \in {HonoRegistration, FastifyRegistration, NextRegistration} :
       t.fails = Noted /\ t.legacy
  /\ BetterAuthRegistration.gates = <<"regCookies">>
  /\ BetterAuthRegistration.fails = Reports
  /\ ~BetterAuthRegistration.legacy
BY DEF Proves, ExpressRegistration, NodeRegistration, SvelteRegistration, HonoRegistration,
  FastifyRegistration, NextRegistration, BetterAuthRegistration

LEMMA RefreshFields ==
  /\ \A t \in {ExpressRefresh, NodeRefresh, SvelteRefresh, HonoRefresh, FastifyRefresh,
               NextRefresh} :
       /\ t.gates = <<"idOrBound", "limit", "signed">>
       /\ t.event = "refresh" /\ t.status = 403
       /\ t.fails = Noted \cup Steals \cup {"challenge"}
  /\ BetterAuthRefresh.gates = <<"idOrAny", "signed">>
  /\ BetterAuthRefresh.event = "refresh" /\ BetterAuthRefresh.status = 403
  /\ BetterAuthRefresh.fails = Steals \cup {"challenge"}
BY DEF Proves, ExpressRefresh, NodeRefresh, SvelteRefresh, HonoRefresh, FastifyRefresh,
  NextRefresh, BetterAuthRefresh

LEMMA StateFields ==
  /\ \A t \in {ExpressState, NodeState, SvelteState, HonoState, FastifyState, NextState,
               BetterAuthState} :
       t.gates = <<"polyfill", "cookie", "row">>
  /\ ExpressState.nativeFirst
  /\ \A t \in {NodeState, SvelteState, HonoState, FastifyState, NextState, BetterAuthState} :
       ~t.nativeFirst
BY DEF Reads, ExpressState, NodeState, SvelteState, HonoState, FastifyState, NextState,
  BetterAuthState

LEMMA ChallengeFields ==
  \A t \in {ExpressChallenge, NodeChallenge, SvelteChallenge, HonoChallenge,
            FastifyChallenge, NextChallenge, BetterAuthChallenge} :
     t.gates = <<"polyfill", "cookie", "row">>
BY DEF Reads, ExpressChallenge, NodeChallenge, SvelteChallenge, HonoChallenge,
  FastifyChallenge, NextChallenge, BetterAuthChallenge

LEMMA BoundRegistrationFields ==
  /\ \A t \in {ExpressBoundRegistration, NodeBoundRegistration, SvelteBoundRegistration,
               HonoBoundRegistration, FastifyBoundRegistration, NextBoundRegistration} :
       /\ t.gates = <<"polyfill", "limit", "cookie", "body">>
       /\ t.event = "registration" /\ t.status = 400
       /\ t.fails = Noted \cup Reports
  /\ BetterAuthBoundRegistration.gates = <<"polyfill", "cookie", "body">>
  /\ BetterAuthBoundRegistration.event = "registration"
  /\ BetterAuthBoundRegistration.status = 400
  /\ BetterAuthBoundRegistration.fails = Reports
BY DEF Proves, ExpressBoundRegistration, NodeBoundRegistration, SvelteBoundRegistration,
  HonoBoundRegistration, FastifyBoundRegistration, NextBoundRegistration,
  BetterAuthBoundRegistration

LEMMA BoundRefreshFields ==
  /\ \A t \in {ExpressBoundRefresh, NodeBoundRefresh, SvelteBoundRefresh, HonoBoundRefresh,
               FastifyBoundRefresh, NextBoundRefresh} :
       /\ t.gates = <<"polyfill", "cookie", "limit", "body">>
       /\ t.event = "refresh" /\ t.status = 401
       /\ t.fails = Noted \cup Steals
  /\ BetterAuthBoundRefresh.gates = <<"polyfill", "cookie", "body">>
  /\ BetterAuthBoundRefresh.event = "refresh"
  /\ BetterAuthBoundRefresh.status = 401
  /\ BetterAuthBoundRefresh.fails = Steals
BY DEF Proves, ExpressBoundRefresh, NodeBoundRefresh, SvelteBoundRefresh, HonoBoundRefresh,
  FastifyBoundRefresh, NextBoundRefresh, BetterAuthBoundRefresh

LEMMA GuardFields ==
  /\ \A t \in {ExpressGuard, HonoGuard, FastifyGuard, NextGuard} :
       t.gates = <<"tier", "binding", "proof">>
  /\ \A t \in {NodeGuard, KoaGuard, NestGuard, SvelteGuard} :
       t.gates = <<"binding", "proof">>
<1>1. <<"tier">> \o <<"binding", "proof">> = <<"tier", "binding", "proof">>
  <2> DEFINE s == <<"tier">>
             u == <<"binding", "proof">>
             v == <<"tier", "binding", "proof">>
  <2>1. s \in Seq(GateNames) /\ u \in Seq(GateNames) /\ v \in Seq(GateNames)
    BY DEF GateNames
  <2>2. /\ s \o u \in Seq(GateNames)
        /\ Len(s \o u) = 3
        /\ \A i \in 1..3 : (s \o u)[i] = IF i <= 1 THEN s[i] ELSE u[i - 1]
    BY <2>1, ConcatProperties
  <2>3. \A i \in 1..3 : (s \o u)[i] = v[i]
    BY <2>2
  <2>4. Len(v) = 3
    OBVIOUS
  <2> HIDE DEF s, u, v
  <2>5. s \o u = v
    BY <2>1, <2>2, <2>3, <2>4, SeqEqual
  <2> QED
    BY <2>5 DEF s, u, v
<1> QED
  BY <1>1 DEF Reads, ExpressGuard, HonoGuard, FastifyGuard, NextGuard, NodeGuard, KoaGuard,
    NestGuard, SvelteGuard, ExpressBoundProof, HonoBoundProof, FastifyBoundProof,
    NextBoundProof

\* What the tables say of an adapter a: `mine` for the plugin, `ours` for all others.
LEMMA RegistrationTable ==
  ASSUME NEW a \in Adapters, NEW t, t = Tables[a]["registration"]
  PROVE  /\ a = "betterAuth" => t.gates = <<"regCookies">>
         /\ a # "betterAuth" =>
              \/ t.gates = <<"limit", "regCookies">>
              \/ t.gates = <<"regCookies", "limit">>
         /\ t.event = "registration" /\ t.status = 400
         /\ a \in {"hono", "fastify", "nextjs"} => t.fails = Noted
         /\ a = "betterAuth" => t.fails = Reports
         /\ a \notin {"hono", "fastify", "nextjs", "betterAuth"} =>
              t.fails = Noted \cup Reports
         /\ ~t.legacy <=> a = "betterAuth"
<1>1. /\ a = "betterAuth" => t.gates = <<"regCookies">>
      /\ a # "betterAuth" =>
           \/ t.gates = <<"limit", "regCookies">>
           \/ t.gates = <<"regCookies", "limit">>
      /\ t.event = "registration" /\ t.status = 400
  BY RegistrationTables, RegistrationFields
<1>2. /\ a \in {"hono", "fastify", "nextjs"} => t.fails = Noted
      /\ a = "betterAuth" => t.fails = Reports
      /\ a \notin {"hono", "fastify", "nextjs", "betterAuth"} =>
           t.fails = Noted \cup Reports
      /\ ~t.legacy <=> a = "betterAuth"
  BY RegistrationTables, RegistrationFields
<1> QED
  BY <1>1, <1>2

LEMMA RefreshTable ==
  ASSUME NEW a \in Adapters, NEW t, t = Tables[a]["refresh"]
  PROVE  /\ a # "betterAuth" =>
              /\ t.gates = <<"idOrBound", "limit", "signed">>
              /\ t.fails = Noted \cup Steals \cup {"challenge"}
         /\ a = "betterAuth" =>
              /\ t.gates = <<"idOrAny", "signed">>
              /\ t.fails = Steals \cup {"challenge"}
         /\ t.event = "refresh" /\ t.status = 403
BY RefreshTables, RefreshFields

LEMMA StateTable ==
  ASSUME NEW a \in Adapters, NEW t, t = Tables[a]["state"]
  PROVE  /\ t.gates = <<"polyfill", "cookie", "row">>
         /\ a \in {"express", "nestjs"} => t.nativeFirst
         /\ a \notin {"express", "nestjs"} => ~t.nativeFirst
BY StateTables, StateFields

LEMMA ChallengeTable ==
  ASSUME NEW a \in Adapters, NEW t, t = Tables[a]["challenge"]
  PROVE  t.gates = <<"polyfill", "cookie", "row">>
BY ChallengeTables, ChallengeFields

LEMMA BoundRegistrationTable ==
  ASSUME NEW a \in Adapters, NEW t, t = Tables[a]["boundRegistration"]
  PROVE  /\ a # "betterAuth" =>
              /\ t.gates = <<"polyfill", "limit", "cookie", "body">>
              /\ t.fails = Noted \cup Reports
         /\ a = "betterAuth" =>
              /\ t.gates = <<"polyfill", "cookie", "body">>
              /\ t.fails = Reports
         /\ t.event = "registration" /\ t.status = 400
BY BoundRegistrationTables, BoundRegistrationFields

LEMMA BoundRefreshTable ==
  ASSUME NEW a \in Adapters, NEW t, t = Tables[a]["boundRefresh"]
  PROVE  /\ a # "betterAuth" =>
              /\ t.gates = <<"polyfill", "cookie", "limit", "body">>
              /\ t.fails = Noted \cup Steals
         /\ a = "betterAuth" =>
              /\ t.gates = <<"polyfill", "cookie", "body">>
              /\ t.fails = Steals
         /\ t.event = "refresh" /\ t.status = 401
BY BoundRefreshTables, BoundRefreshFields

LEMMA GuardTable ==
  ASSUME NEW a \in Adapters, a # "betterAuth", NEW t, t = Tables[a]["guarded"]
  PROVE  t.gates = <<"tier", "binding", "proof">> \/ t.gates = <<"binding", "proof">>
BY GuardTables, GuardFields

-----------------------------------------------------------------------------
\* It was turned away by g.
TurnedBy(g, q, r) ==
  /\ Still(r)
  /\ g # "signed" => r.jar = jar
  /\ g = "signed" => r.jar = [jar EXCEPT !.challenge = "open"]
  /\ r.status = StopStatus(g, q)

LEMMA TurnedAway ==
  ASSUME NEW t, NEW q, NEW r, r = Serve(t, q), Listed(t), ~Passed(t, q)
  PROVE  \E m \in 1..Len(t.gates) :
           /\ StopsFirst(t, q, m)
           /\ TurnedBy(t.gates[m], q, r)
           /\ (\E i \in 1..m : t.gates[i] = "limit") => r.asked
<1>1. PICK m \in 1..Len(t.gates) : StopsFirst(t, q, m)
  BY FirstStop DEF Listed
<1>2. PICK g, asked : /\ g = t.gates[m] /\ r = Stopped(g, q, asked)
                      /\ asked = \E i \in 1..m : t.gates[i] = "limit"
  BY <1>1, ServeStopped DEF Listed
<1>3. r = Stopped(g, q, asked)
  BY <1>2
<1>4. TurnedBy(g, q, r) /\ (r.asked <=> asked)
  BY <1>3, StoppedAnswer DEF TurnedBy
<1> QED
  BY <1>1, <1>2, <1>4

\* The lists of tests, spelled out.
LEMMA Lists ==
  ASSUME NEW t
  PROVE  /\ t.gates = <<"regCookies">> =>
              /\ Listed(t) /\ Len(t.gates) = 1
              /\ Gates(t) = {"regCookies"}
         /\ t.gates = <<"limit", "regCookies">> =>
              /\ Listed(t) /\ Len(t.gates) = 2
              /\ Gates(t) = {"limit", "regCookies"}
         /\ t.gates = <<"regCookies", "limit">> =>
              /\ Listed(t) /\ Len(t.gates) = 2
              /\ Gates(t) = {"regCookies", "limit"}
         /\ t.gates = <<"idOrBound", "limit", "signed">> =>
              /\ Listed(t) /\ Len(t.gates) = 3
              /\ Gates(t) = {"idOrBound", "limit", "signed"}
         /\ t.gates = <<"idOrAny", "signed">> =>
              /\ Listed(t) /\ Len(t.gates) = 2
              /\ Gates(t) = {"idOrAny", "signed"}
         /\ t.gates = <<"polyfill", "cookie", "row">> =>
              /\ Listed(t) /\ Len(t.gates) = 3
              /\ Gates(t) = {"polyfill", "cookie", "row"}
         /\ t.gates = <<"polyfill", "limit", "cookie", "body">> =>
              /\ Listed(t) /\ Len(t.gates) = 4
              /\ Gates(t) = {"polyfill", "limit", "cookie", "body"}
         /\ t.gates = <<"polyfill", "cookie", "limit", "body">> =>
              /\ Listed(t) /\ Len(t.gates) = 4
              /\ Gates(t) = {"polyfill", "cookie", "limit", "body"}
         /\ t.gates = <<"polyfill", "cookie", "body">> =>
              /\ Listed(t) /\ Len(t.gates) = 3
              /\ Gates(t) = {"polyfill", "cookie", "body"}
         /\ t.gates = <<"tier", "binding", "proof">> =>
              /\ Listed(t) /\ Len(t.gates) = 3
              /\ Gates(t) = {"tier", "binding", "proof"}
         /\ t.gates = <<"binding", "proof">> =>
              /\ Listed(t) /\ Len(t.gates) = 2
              /\ Gates(t) = {"binding", "proof"}
<1>1. t.gates = <<"regCookies">> =>
            /\ Listed(t) /\ Len(t.gates) = 1
            /\ Gates(t) = {"regCookies"}
  BY DEF Listed, GateNames, Gates, Range
<1>2. t.gates = <<"limit", "regCookies">> =>
            /\ Listed(t) /\ Len(t.gates) = 2
            /\ Gates(t) = {"limit", "regCookies"}
  BY DEF Listed, GateNames, Gates, Range
<1>3. t.gates = <<"regCookies", "limit">> =>
            /\ Listed(t) /\ Len(t.gates) = 2
            /\ Gates(t) = {"regCookies", "limit"}
  BY DEF Listed, GateNames, Gates, Range
<1>4. t.gates = <<"idOrBound", "limit", "signed">> =>
            /\ Listed(t) /\ Len(t.gates) = 3
            /\ Gates(t) = {"idOrBound", "limit", "signed"}
  BY DEF Listed, GateNames, Gates, Range
<1>5. t.gates = <<"idOrAny", "signed">> =>
            /\ Listed(t) /\ Len(t.gates) = 2
            /\ Gates(t) = {"idOrAny", "signed"}
  BY DEF Listed, GateNames, Gates, Range
<1>6. t.gates = <<"polyfill", "cookie", "row">> =>
            /\ Listed(t) /\ Len(t.gates) = 3
            /\ Gates(t) = {"polyfill", "cookie", "row"}
  BY DEF Listed, GateNames, Gates, Range
<1>7. t.gates = <<"polyfill", "limit", "cookie", "body">> =>
            /\ Listed(t) /\ Len(t.gates) = 4
            /\ Gates(t) = {"polyfill", "limit", "cookie", "body"}
  BY DEF Listed, GateNames, Gates, Range
<1>8. t.gates = <<"polyfill", "cookie", "limit", "body">> =>
            /\ Listed(t) /\ Len(t.gates) = 4
            /\ Gates(t) = {"polyfill", "cookie", "limit", "body"}
  BY DEF Listed, GateNames, Gates, Range
<1>9. t.gates = <<"polyfill", "cookie", "body">> =>
            /\ Listed(t) /\ Len(t.gates) = 3
            /\ Gates(t) = {"polyfill", "cookie", "body"}
  BY DEF Listed, GateNames, Gates, Range
<1>10. t.gates = <<"tier", "binding", "proof">> =>
            /\ Listed(t) /\ Len(t.gates) = 3
            /\ Gates(t) = {"tier", "binding", "proof"}
  BY DEF Listed, GateNames, Gates, Range
<1>11. t.gates = <<"binding", "proof">> =>
            /\ Listed(t) /\ Len(t.gates) = 2
            /\ Gates(t) = {"binding", "proof"}
  BY DEF Listed, GateNames, Gates, Range
<1> QED
  BY <1>1, <1>2, <1>3, <1>4, <1>5, <1>6, <1>7, <1>8, <1>9, <1>10, <1>11

-----------------------------------------------------------------------------
(***************************************************************************)
(* What each route answers: when a test turns a request away, with which   *)
(* status, and otherwise what the handler of src/core came to.             *)
(***************************************************************************)
RegistrationBars(a, q) ==
  \/ ~jar.reg \/ jar.challenge = "none"
  \/ a # "betterAuth" /\ ~q.allowed

LEMMA RegistrationServed ==
  ASSUME NEW a \in Adapters, NEW t, t = Tables[a]["registration"],
         NEW q, q.route = "registration", NEW r, r = Serve(t, q)
  PROVE  /\ RegistrationBars(a, q) =>
              Turned(r) /\ (q.allowed => r.status = 400)
         /\ ~RegistrationBars(a, q) =>
              r = NativeProven(t, HandleRegistration(Heard(t, q)))
<1>1. /\ Listed(t)
      /\ a # "betterAuth" => Gates(t) = {"limit", "regCookies"}
      /\ a = "betterAuth" => Gates(t) = {"regCookies"}
  <2>1. CASE a = "betterAuth"
    <3>1. t.gates = <<"regCookies">>
      BY <2>1, RegistrationTable
    <3> QED
      BY <2>1, <3>1, Lists
  <2>2. CASE a # "betterAuth"
    <3>1. \/ t.gates = <<"limit", "regCookies">>
          \/ t.gates = <<"regCookies", "limit">>
      BY ZenonT(60), <2>2, RegistrationTable
    <3> QED
      BY <2>2, <3>1, Lists
  <2> QED
    BY <2>1, <2>2
<1>2. Passed(t, q) <=> ~RegistrationBars(a, q)
  BY <1>1, GateMeans DEF Passed, RegistrationBars
<1>3. ASSUME ~Passed(t, q) PROVE Turned(r) /\ (q.allowed => r.status = 400)
  <2>1. PICK m \in 1..Len(t.gates) : StopsFirst(t, q, m) /\ TurnedBy(t.gates[m], q, r)
    BY <1>1, <1>3, TurnedAway
  <2>2. PICK g \in Gates(t) : Stops(g, q) /\ TurnedBy(g, q, r)
    BY <1>1, <2>1 DEF StopsFirst, Listed, Gates, Range
  <2>3. g # "signed" /\ (q.allowed => g = "regCookies")
    BY <1>1, <2>2, GateMeans
  <2>4. StopStatus("regCookies", q) = 400
    BY DEF StopStatus
  <2> QED
    BY <2>2, <2>3, <2>4 DEF Turned, TurnedBy
<1>4. ASSUME Passed(t, q)
      PROVE  r = NativeProven(t, HandleRegistration(Heard(t, q)))
  BY <1>1, <1>4, ServePassed DEF Ran, Listed, NativeProven
<1> QED
  BY <1>2, <1>3, <1>4

RefreshBars(a, q) ==
  \/ ~q.id /\ ~jar.bound /\ (a = "betterAuth" => ~jar.reg)
  \/ a # "betterAuth" /\ ~q.allowed

Unsigned(q) == q.proof = "none" \/ jar.challenge = "none"

LEMMA RefreshServed ==
  ASSUME NEW a \in Adapters, NEW t, t = Tables[a]["refresh"],
         NEW q, q.route = "refresh", NEW r, r = Serve(t, q)
  PROVE  /\ RefreshBars(a, q) => Turned(r) /\ (q.allowed => r.status = 403)
         /\ ~RefreshBars(a, q) /\ Unsigned(q) =>
              /\ Still(r) /\ r.jar = [jar EXCEPT !.challenge = "open"]
              /\ r.status = 403 /\ (a # "betterAuth" => r.asked)
         /\ ~RefreshBars(a, q) /\ ~Unsigned(q) =>
              r = NativeProven(t, HandleRefresh(q.proof))
<1>1. CASE a = "betterAuth"
  <2>1. t.gates = <<"idOrAny", "signed">>
    BY <1>1, RefreshTable
  <2>2. Listed(t) /\ Gates(t) = {"idOrAny", "signed"}
    BY <2>1, Lists
  <2>3. /\ RefreshBars(a, q) <=> Stops("idOrAny", q)
        /\ Unsigned(q) <=> Stops("signed", q)
    BY <1>1, GateMeans DEF RefreshBars, Unsigned
  <2>4. ASSUME ~Passed(t, q)
        PROVE  \E g \in Gates(t) :
                 /\ Stops(g, q) /\ TurnedBy(g, q, r)
                 /\ g = "signed" => ~Stops("idOrAny", q)
    <3>1. PICK m \in 1..Len(t.gates) : StopsFirst(t, q, m) /\ TurnedBy(t.gates[m], q, r)
      BY <2>2, <2>4, TurnedAway
    <3> QED
      BY <2>1, <2>2, <3>1 DEF StopsFirst, Listed
  <2>5. StopStatus("idOrAny", q) = 403 /\ StopStatus("signed", q) = 403
    BY DEF StopStatus
  <2>6. ASSUME Passed(t, q) PROVE r = NativeProven(t, HandleRefresh(q.proof))
    BY <2>2, <2>6, ServePassed DEF Ran, Listed, NativeProven
  <2>7. Passed(t, q) <=> ~RefreshBars(a, q) /\ ~Unsigned(q)
    BY <2>2, <2>3 DEF Passed
  <2>8. ASSUME RefreshBars(a, q) PROVE Turned(r) /\ (q.allowed => r.status = 403)
    <3>1. PICK g \in Gates(t) :
            /\ Stops(g, q) /\ TurnedBy(g, q, r) /\ g # "signed"
      BY <2>3, <2>4, <2>7, <2>8
    <3>2. q.allowed => StopStatus(g, q) = 403
      BY <2>2, <2>3, <2>5, <3>1
    <3> QED
      BY <3>1, <3>2 DEF TurnedBy, Turned
  <2>9. ASSUME ~RefreshBars(a, q), Unsigned(q)
        PROVE  /\ Still(r) /\ r.jar = [jar EXCEPT !.challenge = "open"]
               /\ r.status = 403 /\ (a # "betterAuth" => r.asked)
    <3>1. TurnedBy("signed", q, r) /\ (a # "betterAuth" => r.asked)
      BY <1>1, <2>2, <2>3, <2>4, <2>7, <2>9
    <3> QED
      BY <3>1, <2>5 DEF TurnedBy
  <2> QED
    BY <2>6, <2>7, <2>8, <2>9
<1>2. CASE a # "betterAuth"
  <2>1. t.gates = <<"idOrBound", "limit", "signed">>
    BY <1>2, RefreshTable
  <2>2. Listed(t) /\ Gates(t) = {"idOrBound", "limit", "signed"}
    BY <2>1, Lists
  <2>3. /\ RefreshBars(a, q) <=> Stops("idOrBound", q) \/ Stops("limit", q)
        /\ Unsigned(q) <=> Stops("signed", q)
        /\ Stops("limit", q) <=> ~q.allowed
    BY <1>2, GateMeans DEF RefreshBars, Unsigned
  <2>4. ASSUME ~Passed(t, q)
        PROVE  \E g \in Gates(t) :
                 /\ Stops(g, q) /\ TurnedBy(g, q, r)
                 /\ g = "signed" =>
                      ~Stops("idOrBound", q) /\ ~Stops("limit", q) /\ r.asked
    <3>1. PICK m \in 1..Len(t.gates) :
            /\ StopsFirst(t, q, m) /\ TurnedBy(t.gates[m], q, r)
            /\ (\E i \in 1..m : t.gates[i] = "limit") => r.asked
      BY <2>2, <2>4, TurnedAway
    <3> QED
      BY <2>1, <2>2, <3>1 DEF StopsFirst, Listed
  <2>5. StopStatus("idOrBound", q) = 403 /\ StopStatus("signed", q) = 403
    BY DEF StopStatus
  <2>6. ASSUME Passed(t, q) PROVE r = NativeProven(t, HandleRefresh(q.proof))
    BY <2>2, <2>6, ServePassed DEF Ran, Listed, NativeProven
  <2>7. Passed(t, q) <=> ~RefreshBars(a, q) /\ ~Unsigned(q)
    BY <2>2, <2>3 DEF Passed
  <2>8. ASSUME RefreshBars(a, q) PROVE Turned(r) /\ (q.allowed => r.status = 403)
    <3>1. PICK g \in Gates(t) :
            /\ Stops(g, q) /\ TurnedBy(g, q, r) /\ g # "signed"
      BY <2>3, <2>4, <2>7, <2>8
    <3>2. q.allowed => StopStatus(g, q) = 403
      BY <2>2, <2>3, <2>5, <3>1
    <3> QED
      BY <3>1, <3>2 DEF TurnedBy, Turned
  <2>9. ASSUME ~RefreshBars(a, q), Unsigned(q)
        PROVE  /\ Still(r) /\ r.jar = [jar EXCEPT !.challenge = "open"]
               /\ r.status = 403 /\ (a # "betterAuth" => r.asked)
    <3>1. TurnedBy("signed", q, r) /\ (a # "betterAuth" => r.asked)
      BY <1>2, <2>2, <2>3, <2>4, <2>7, <2>9
    <3> QED
      BY <3>1, <2>5 DEF TurnedBy
  <2> QED
    BY <2>6, <2>7, <2>8, <2>9
<1> QED
  BY <1>1, <1>2

ReportBars == ~polyfill \/ (~jar.bound /\ ~jar.reg) \/ ~row.stored

LEMMA StateServed ==
  ASSUME NEW a \in Adapters, NEW t, t = Tables[a]["state"],
         NEW q, q.route = "state", NEW r, r = Serve(t, q)
  PROVE  /\ ReportBars => Turned(r) /\ r.status = 200
         /\ ~ReportBars => r = Reported(t)
<1>1. Listed(t) /\ Gates(t) = {"polyfill", "cookie", "row"}
  BY StateTable, Lists
<1>2. Passed(t, q) <=> ~ReportBars
  <2>1. Passed(t, q) <=>
          ~Stops("polyfill", q) /\ ~Stops("cookie", q) /\ ~Stops("row", q)
    BY <1>1 DEF Passed
  <2> QED
    BY <2>1, GateMeans DEF ReportBars
<1>3. ASSUME ~Passed(t, q) PROVE Turned(r) /\ r.status = 200
  <2>1. PICK m \in 1..Len(t.gates) : TurnedBy(t.gates[m], q, r)
    BY <1>1, <1>3, TurnedAway
  <2>2. PICK g \in Gates(t) : TurnedBy(g, q, r)
    BY <1>1, <2>1 DEF Listed, Gates, Range
  <2>3. StopStatus(g, q) = 200
    BY DEF StopStatus
  <2> QED
    BY <1>1, <2>2, <2>3 DEF Turned, TurnedBy
<1>4. ASSUME Passed(t, q) PROVE r = Reported(t)
  BY <1>1, <1>4, ServePassed DEF Ran, Listed
<1> QED
  BY <1>2, <1>3, <1>4

LEMMA ChallengeServed ==
  ASSUME NEW a \in Adapters, NEW t, t = Tables[a]["challenge"],
         NEW q, q.route = "challenge", NEW r, r = Serve(t, q)
  PROVE  /\ ReportBars => /\ Turned(r)
                          /\ ~polyfill => r.status = 404
                          /\ polyfill => r.status = 403
         /\ ~ReportBars => /\ r.row = row /\ r.keys = keys /\ r.jar = jar
                           /\ r.sdk = "open" /\ r.status = 200 /\ r.phase = "challenge"
                           /\ r.tier = "none" /\ ~r.asked /\ ~r.noted /\ r.events = {}
<1>1. t.gates = <<"polyfill", "cookie", "row">>
  BY ChallengeTable
<1>2. Listed(t) /\ Gates(t) = {"polyfill", "cookie", "row"}
  BY <1>1, Lists
<1>3. Passed(t, q) <=> ~ReportBars
  <2>1. Passed(t, q) <=>
          ~Stops("polyfill", q) /\ ~Stops("cookie", q) /\ ~Stops("row", q)
    BY <1>2 DEF Passed
  <2> QED
    BY <2>1, GateMeans DEF ReportBars
<1>4. ASSUME ~Passed(t, q)
      PROVE  \E g \in Gates(t) :
               /\ Stops(g, q) /\ TurnedBy(g, q, r)
               /\ g # "polyfill" => ~Stops("polyfill", q)
  <2>1. PICK m \in 1..Len(t.gates) : StopsFirst(t, q, m) /\ TurnedBy(t.gates[m], q, r)
    BY <1>2, <1>4, TurnedAway
  <2> QED
    BY <1>1, <1>2, <2>1 DEF StopsFirst, Listed
<1>5. /\ StopStatus("polyfill", q) = 404
      /\ StopStatus("cookie", q) = 403 /\ StopStatus("row", q) = 403
  BY DEF StopStatus
<1>6. Stops("polyfill", q) <=> ~polyfill
  BY GateMeans
<1>7. ASSUME Passed(t, q) PROVE r = [Outcome(200, "challenge", FALSE) EXCEPT !.sdk = "open"]
  <2>1. r = Ran(t, q)
    BY <1>2, <1>7, ServePassed DEF Listed
  <2> QED
    BY <2>1 DEF Ran
<1>8. ASSUME Passed(t, q)
      PROVE  /\ r.row = row /\ r.keys = keys /\ r.jar = jar
             /\ r.sdk = "open" /\ r.status = 200 /\ r.phase = "challenge"
             /\ r.tier = "none" /\ ~r.asked /\ ~r.noted /\ r.events = {}
  BY <1>7, <1>8 DEF Outcome
<1> QED
  BY <1>2, <1>3, <1>4, <1>5, <1>6, <1>8 DEF TurnedBy, Turned

BoundBars(a, q) ==
  \/ ~polyfill
  \/ ~jar.bound /\ ~jar.reg
  \/ ~q.body
  \/ a # "betterAuth" /\ ~q.allowed

LEMMA BoundRegistrationServed ==
  ASSUME NEW a \in Adapters, NEW t, t = Tables[a]["boundRegistration"],
         NEW q, q.route = "boundRegistration", NEW r, r = Serve(t, q)
  PROVE  /\ BoundBars(a, q) =>
              /\ Turned(r)
              /\ ~polyfill => r.status = 404
              /\ polyfill /\ q.allowed => r.status = 400
         /\ ~BoundBars(a, q) =>
              r = BoundProven(t, HandleBoundRegistration(q.proof))
<1>1. \/ a = "betterAuth" /\ t.gates = <<"polyfill", "cookie", "body">>
      \/ a # "betterAuth" /\ t.gates = <<"polyfill", "limit", "cookie", "body">>
  BY BoundRegistrationTable
<1>2. /\ Listed(t)
      /\ a = "betterAuth" => Gates(t) = {"polyfill", "cookie", "body"}
      /\ a # "betterAuth" => Gates(t) = {"polyfill", "limit", "cookie", "body"}
  BY <1>1, Lists
<1>3. Passed(t, q) <=> ~BoundBars(a, q)
  <2>1. Passed(t, q) <=>
          /\ ~Stops("polyfill", q) /\ ~Stops("cookie", q) /\ ~Stops("body", q)
          /\ a # "betterAuth" => ~Stops("limit", q)
    BY <1>2 DEF Passed
  <2> QED
    BY <2>1, GateMeans DEF BoundBars
<1>4. ASSUME ~Passed(t, q)
      PROVE  \E g \in Gates(t) :
               /\ Stops(g, q) /\ TurnedBy(g, q, r)
               /\ g # "polyfill" => ~Stops("polyfill", q)
  <2>1. PICK m \in 1..Len(t.gates) : StopsFirst(t, q, m) /\ TurnedBy(t.gates[m], q, r)
    BY <1>2, <1>4, TurnedAway
  <2>2. PICK g \in Gates(t) : g = t.gates[m]
    BY <1>2, <2>1 DEF Listed, Gates, Range
  <2>3. m # 1 => ~Stops("polyfill", q)
    BY <1>1, <2>1 DEF StopsFirst
  <2>4. m = 1 => g = "polyfill"
    BY <1>1, <2>2
  <2> QED
    BY <2>1, <2>2, <2>3, <2>4 DEF StopsFirst
<1>5. /\ StopStatus("polyfill", q) = 404
      /\ StopStatus("cookie", q) = 400 /\ StopStatus("body", q) = 400
  BY DEF StopStatus
<1>6. /\ Stops("polyfill", q) <=> ~polyfill
      /\ Stops("limit", q) <=> ~q.allowed
  BY GateMeans
<1>7. ASSUME Passed(t, q) PROVE r = BoundProven(t, HandleBoundRegistration(q.proof))
  BY <1>2, <1>7, ServePassed DEF Ran, Listed, BoundProven
<1>8. ASSUME BoundBars(a, q)
      PROVE  /\ Turned(r)
             /\ ~polyfill => r.status = 404
             /\ polyfill /\ q.allowed => r.status = 400
  <2>1. PICK g \in Gates(t) :
          /\ Stops(g, q) /\ TurnedBy(g, q, r)
          /\ g # "polyfill" => ~Stops("polyfill", q)
    BY <1>3, <1>4, <1>8
  <2>2. g \in {"polyfill", "limit", "cookie", "body"}
    BY <1>2, <2>1
  <2>3. Turned(r) /\ r.status = StopStatus(g, q)
    BY <2>1, <2>2 DEF TurnedBy, Turned
  <2> QED
    BY <1>5, <1>6, <2>1, <2>2, <2>3
<1> QED
  BY <1>3, <1>7, <1>8

LEMMA BoundRefreshServed ==
  ASSUME NEW a \in Adapters, NEW t, t = Tables[a]["boundRefresh"],
         NEW q, q.route = "boundRefresh", NEW r, r = Serve(t, q)
  PROVE  /\ BoundBars(a, q) =>
              /\ Turned(r)
              /\ ~polyfill => r.status = 404
              /\ polyfill /\ ~jar.bound /\ ~jar.reg => r.status = 403
              /\ polyfill /\ (jar.bound \/ jar.reg) /\ q.allowed => r.status = 400
         /\ ~BoundBars(a, q) =>
              r = BoundProven(t, HandleBoundRefresh(q.proof))
<1>1. \/ a = "betterAuth" /\ t.gates = <<"polyfill", "cookie", "body">>
      \/ a # "betterAuth" /\ t.gates = <<"polyfill", "cookie", "limit", "body">>
  BY SMTT(30), BoundRefreshTable
<1>2. /\ Listed(t)
      /\ a = "betterAuth" => Gates(t) = {"polyfill", "cookie", "body"}
      /\ a # "betterAuth" => Gates(t) = {"polyfill", "cookie", "limit", "body"}
  BY <1>1, Lists
<1>3. Passed(t, q) <=> ~BoundBars(a, q)
  <2>1. Passed(t, q) <=>
          /\ ~Stops("polyfill", q) /\ ~Stops("cookie", q) /\ ~Stops("body", q)
          /\ a # "betterAuth" => ~Stops("limit", q)
    BY <1>2 DEF Passed
  <2> QED
    BY <2>1, GateMeans DEF BoundBars
<1>4. ASSUME ~Passed(t, q)
      PROVE  \E g \in Gates(t) :
               /\ Stops(g, q) /\ TurnedBy(g, q, r)
               /\ g # "polyfill" => ~Stops("polyfill", q)
               /\ g \notin {"polyfill", "cookie"} => ~Stops("cookie", q)
  <2>1. PICK m \in 1..Len(t.gates) : StopsFirst(t, q, m) /\ TurnedBy(t.gates[m], q, r)
    BY <1>2, <1>4, TurnedAway
  <2>2. PICK g \in Gates(t) : g = t.gates[m]
    BY <1>2, <2>1 DEF Listed, Gates, Range
  <2>3. /\ m # 1 => ~Stops("polyfill", q)
        /\ m \notin {1, 2} => ~Stops("cookie", q)
    BY <1>1, <2>1 DEF StopsFirst
  <2>4. (m = 1 => g = "polyfill") /\ (m = 2 => g = "cookie")
    BY <1>1, <2>2
  <2> QED
    BY <2>1, <2>2, <2>3, <2>4 DEF StopsFirst
<1>5. /\ StopStatus("polyfill", q) = 404
      /\ StopStatus("cookie", q) = 403 /\ StopStatus("body", q) = 400
  BY DEF StopStatus
<1>6. /\ Stops("polyfill", q) <=> ~polyfill
      /\ Stops("cookie", q) <=> ~jar.bound /\ ~jar.reg
      /\ Stops("limit", q) <=> ~q.allowed
  BY GateMeans
<1>7. ASSUME Passed(t, q) PROVE r = BoundProven(t, HandleBoundRefresh(q.proof))
  BY <1>2, <1>7, ServePassed DEF Ran, Listed, BoundProven
<1>8. ASSUME BoundBars(a, q)
      PROVE  /\ Turned(r)
             /\ ~polyfill => r.status = 404
             /\ polyfill /\ ~jar.bound /\ ~jar.reg => r.status = 403
             /\ polyfill /\ (jar.bound \/ jar.reg) /\ q.allowed => r.status = 400
  <2>1. PICK g \in Gates(t) :
          /\ Stops(g, q) /\ TurnedBy(g, q, r)
          /\ g # "polyfill" => ~Stops("polyfill", q)
          /\ g \notin {"polyfill", "cookie"} => ~Stops("cookie", q)
    BY <1>3, <1>4, <1>8
  <2>2. g \in {"polyfill", "limit", "cookie", "body"}
    BY <1>2, <2>1
  <2>3. Turned(r) /\ r.status = StopStatus(g, q)
    BY <2>1, <2>2 DEF TurnedBy, Turned
  <2> QED
    BY <1>5, <1>6, <2>1, <2>2, <2>3
<1> QED
  BY <1>3, <1>7, <1>8

GuardBars(q) ==
  \/ ~jar.bound \/ SeenTier = "none"
  \/ ~(SeenTier = "dbsc" /\ Relaxed) /\ ~("bound" \in keys /\ q.proof = "good")

LEMMA GuardServed ==
  ASSUME NEW a \in Adapters, a # "betterAuth", NEW t, t = Tables[a]["guarded"],
         NEW q, q.route = "guarded", NEW r, r = Serve(t, q)
  PROVE  /\ GuardBars(q) => Turned(r) /\ r.status = 403
         /\ ~GuardBars(q) =>
              /\ r.row = row /\ r.keys = keys /\ r.jar = jar /\ r.sdk = sdk
              /\ r.status = 200 /\ r.phase = "application" /\ r.tier = "none"
              /\ ~r.asked /\ ~r.noted /\ r.events = {}
<1>1. /\ Listed(t)
      /\ \/ Gates(t) = {"tier", "binding", "proof"}
         \/ Gates(t) = {"binding", "proof"}
  BY GuardTable, Lists
<1>2. Passed(t, q) <=> ~GuardBars(q)
  BY <1>1, GateMeans DEF Passed, GuardBars
<1>3. ASSUME ~Passed(t, q) PROVE Turned(r) /\ r.status = 403
  <2>1. PICK m \in 1..Len(t.gates) : TurnedBy(t.gates[m], q, r)
    BY <1>1, <1>3, TurnedAway
  <2>2. PICK g \in Gates(t) : TurnedBy(g, q, r)
    BY <1>1, <2>1 DEF Listed, Gates, Range
  <2>3. /\ StopStatus("tier", q) = 403 /\ StopStatus("binding", q) = 403
        /\ StopStatus("proof", q) = 403
    BY DEF StopStatus
  <2> QED
    BY <1>1, <2>2, <2>3 DEF Turned, TurnedBy
<1>4. ASSUME Passed(t, q) PROVE r = Outcome(200, "application", FALSE)
  BY ZenonT(60), <1>1, <1>4, ServePassed DEF Ran, Listed
<1>5. ASSUME Passed(t, q)
      PROVE  /\ r.row = row /\ r.keys = keys /\ r.jar = jar /\ r.sdk = sdk
             /\ r.status = 200 /\ r.phase = "application" /\ r.tier = "none"
             /\ ~r.asked /\ ~r.noted /\ r.events = {}
  BY <1>4, <1>5 DEF Outcome
<1> QED
  BY <1>2, <1>3, <1>5

-----------------------------------------------------------------------------
\* The handlers.
\* A tier that a row claims has its key.
Backs(rw, ks) ==
  /\ rw.tier = "dbsc" => "native" \in ks
  /\ rw.tier = "bound" => "bound" \in ks

LEMMA RowFields ==
  ASSUME Typed
  PROVE  /\ row.tier \in Tiers /\ row.fresh \in BOOLEAN /\ row.stored \in BOOLEAN
         /\ ~row.stored => row = NoRow /\ row.tier = "none"
         /\ row.stored => row \in [tier : Tiers, fresh : BOOLEAN, stored : {TRUE}]
         /\ row \in [tier : Tiers, fresh : BOOLEAN, stored : BOOLEAN]
<1>1. CASE row = NoRow
  BY <1>1 DEF NoRow, Tiers
<1>2. CASE row \in [tier : Tiers, fresh : BOOLEAN, stored : {TRUE}]
  BY <1>2
<1> QED
  BY <1>1, <1>2 DEF Typed, Rows

LEMMA RowWith ==
  ASSUME Typed, NEW tier \in Tiers, row.stored,
         NEW rw, rw = [row EXCEPT !.tier = tier, !.fresh = TRUE]
  PROVE  rw \in Rows /\ rw.tier = tier
<1>1. row \in [tier : Tiers, fresh : BOOLEAN, stored : {TRUE}]
  BY RowFields
<1>2. rw = [[row EXCEPT !.tier = tier] EXCEPT !.fresh = TRUE]
  OBVIOUS
<1>3. rw = [tier |-> tier, fresh |-> TRUE, stored |-> TRUE]
  BY <1>1, <1>2
<1> QED
  BY <1>3 DEF Rows

LEMMA NamedTiers == "dbsc" \in Tiers
BY DEF Tiers

LEMMA AcceptedResult ==
  ASSUME Typed, NEW tier \in Tiers, NEW kinds, NEW h, h = Accepted(kinds, tier)
  PROVE  /\ h.code = "ok" /\ h.spends /\ h.keys = keys \cup kinds
         /\ h.row \in Rows
         /\ row.stored => h.row.tier = tier
         /\ ~row.stored => h.row = row
<1>1. /\ h.code = "ok" /\ h.spends /\ h.keys = keys \cup kinds
      /\ row.stored => h.row = [row EXCEPT !.tier = tier, !.fresh = TRUE]
      /\ ~row.stored => h.row = row
  BY DEF Accepted
<1>2. row.stored => h.row \in Rows /\ h.row.tier = tier
  BY <1>1, RowWith
<1> QED
  BY <1>1, <1>2 DEF Typed

LEMMA RefreshedResult ==
  ASSUME Typed, NEW tier \in Tiers, NEW h, h = Accepted({}, tier)
  PROVE  /\ h.code = "ok" /\ h.spends /\ h.keys = keys
         /\ h.row \in Rows
         /\ row.stored => h.row.tier = tier
         /\ ~row.stored => h.row = row
<1>1. /\ h.code = "ok" /\ h.spends /\ h.keys = keys
      /\ row.stored => h.row = [row EXCEPT !.tier = tier, !.fresh = TRUE]
      /\ ~row.stored => h.row = row
  BY DEF Accepted
<1>2. row.stored => h.row \in Rows /\ h.row.tier = tier
  BY <1>1, RowWith
<1> QED
  BY <1>1, <1>2 DEF Typed

LEMMA RejectedResult ==
  ASSUME NEW code, NEW h, h = Rejected(code)
  PROVE  h.code = code /\ ~h.spends /\ h.keys = keys /\ h.row = row
BY DEF Rejected

LEMMA DemotionResult ==
  ASSUME Typed, NEW h, h = Demotion
  PROVE  /\ h.code = "SIGNATURE_INVALID" /\ h.spends /\ h.keys = keys
         /\ h.row \in Rows /\ h.row.tier = "none"
<1>1. /\ h.code = "SIGNATURE_INVALID" /\ h.spends /\ h.keys = keys
      /\ h.row = [row EXCEPT !.tier = "none"]
  BY DEF Demotion
<1>2. h.row.tier = "none"
  BY <1>1, RowFields
<1>3. CASE row.stored
  <2>1. h.row \in [tier : Tiers, fresh : BOOLEAN, stored : {TRUE}]
    BY <1>1, <1>3, RowFields DEF Tiers
  <2> QED
    BY <1>1, <1>2, <2>1 DEF Rows
<1>4. CASE ~row.stored
  <2>1. h.row = NoRow
    BY ZenonT(60), <1>1, <1>4, RowFields DEF NoRow
  <2> QED
    BY <1>1, <1>2, <2>1 DEF Rows
<1> QED
  BY <1>3, <1>4

\* What a result of a handler may be: the proof accepted, rejected, or answered
\* with a demotion.
Sound(h) ==
  /\ h.row \in Rows /\ h.keys \subseteq Kinds /\ keys \subseteq h.keys
  /\ Backs(row, keys) => Backs(h.row, h.keys)
  /\ h.code = "ok" => (row.tier # "none" => h.row.tier # "none")
  /\ h.code # "ok" => h.keys = keys

Fails(h) == Sound(h) /\ h.code # "ok" /\ h.row = row

Demotes(h) ==
  Sound(h) /\ h.code = "SIGNATURE_INVALID" /\ h.row.tier = "none" /\ keys # {}

Accepts(h) == Sound(h) /\ h.code = "ok"

LEMMA RegistrationHandled ==
  ASSUME Typed, NEW proof, NEW h, h = HandleRegistration(proof)
  PROVE  Accepts(h) \/ Fails(h)
<1>1. CASE h = Rejected("SIGNATURE_INVALID") \/ h = Rejected("OTHER")
  BY <1>1, RejectedResult DEF Typed, Sound, Fails
<1>2. CASE h = Accepted({"native"}, "dbsc")
  <2>1. /\ h.code = "ok" /\ h.keys = keys \cup {"native"} /\ h.row \in Rows
        /\ row.stored => h.row.tier = "dbsc"
        /\ ~row.stored => h.row = row
    BY <1>2, AcceptedResult, NamedTiers
  <2>2. ~row.stored => row.tier = "none"
    BY RowFields
  <2> QED
    BY <2>1, <2>2 DEF Typed, Kinds, Sound, Accepts, Backs
<1> QED
  BY <1>1, <1>2 DEF HandleRegistration

LEMMA BesideNative ==
  ASSUME Typed
  PROVE  /\ TierBesideNative \in Tiers
         /\ row.tier # "none" => TierBesideNative # "none"
         /\ Backs(row, keys) /\ TierBesideNative = "dbsc" => "native" \in keys
         /\ Backs(row, keys) /\ TierBesideNative = "bound" =>
              "bound" \in keys \/ "native" \notin keys
BY RowFields DEF TierBesideNative, Tiers, Backs

LEMMA RefreshHandled ==
  ASSUME Typed, NEW proof, NEW h, h = HandleRefresh(proof)
  PROVE  \/ Accepts(h)
         \/ Fails(h) /\ h.code # "SIGNATURE_INVALID"
         \/ Demotes(h)
<1>1. CASE h = Rejected("OTHER")
  BY <1>1, RejectedResult DEF Typed, Sound, Fails
<1>2. CASE h = Accepted({}, "dbsc") /\ "native" \in keys
  <2>3. /\ h.code = "ok" /\ h.keys = keys /\ h.row \in Rows
        /\ row.stored => h.row.tier = "dbsc"
        /\ ~row.stored => h.row = row
    BY <1>2, RefreshedResult, NamedTiers
  <2>2. ~row.stored => row.tier = "none"
    BY RowFields
  <2> QED
    BY <1>2, <2>2, <2>3 DEF Typed, Kinds, Sound, Accepts, Backs
<1>3. CASE h = Demotion /\ "native" \in keys
  BY <1>3, DemotionResult DEF Typed, Sound, Demotes, Backs
<1> QED
  BY <1>1, <1>2, <1>3 DEF HandleRefresh

LEMMA BoundRegistrationHandled ==
  ASSUME Typed, NEW proof, NEW h, h = HandleBoundRegistration(proof)
  PROVE  Accepts(h) \/ Fails(h)
<1>1. CASE h = Rejected("SIGNATURE_INVALID") \/ h = Rejected("OTHER")
  BY <1>1, RejectedResult DEF Typed, Sound, Fails
<1>2. CASE h = Accepted({"bound"}, TierBesideNative)
  <2>1. /\ h.code = "ok" /\ h.keys = keys \cup {"bound"} /\ h.row \in Rows
        /\ row.stored => h.row.tier = TierBesideNative
        /\ ~row.stored => h.row = row
    BY <1>2, AcceptedResult, BesideNative
  <2>2. ~row.stored => row.tier = "none"
    BY RowFields
  <2>3. Backs(row, keys) => Backs(h.row, h.keys)
    BY <2>1, <2>2, BesideNative DEF Backs
  <2>4. row.tier # "none" => h.row.tier # "none"
    BY <2>1, <2>2, BesideNative
  <2> QED
    BY <2>1, <2>3, <2>4 DEF Typed, Kinds, Sound, Accepts
<1> QED
  BY <1>1, <1>2 DEF HandleBoundRegistration

LEMMA BoundRefreshHandled ==
  ASSUME Typed, NEW proof, NEW h, h = HandleBoundRefresh(proof)
  PROVE  \/ Accepts(h)
         \/ Fails(h) /\ (h.code = "SIGNATURE_INVALID" => proof = "skewed")
         \/ Demotes(h)
<1>1. CASE \/ h = Rejected("SIGNATURE_INVALID") /\ proof = "skewed"
           \/ h = Rejected("OTHER")
  BY <1>1, RejectedResult DEF Typed, Sound, Fails
<1>2. CASE h = Accepted({}, TierBesideNative) /\ "bound" \in keys
  <2>1. /\ h.code = "ok" /\ h.keys = keys /\ h.row \in Rows
        /\ row.stored => h.row.tier = TierBesideNative
        /\ ~row.stored => h.row = row
    BY <1>2, RefreshedResult, BesideNative
  <2>2. ~row.stored => row.tier = "none"
    BY RowFields
  <2>3. Backs(row, keys) => Backs(h.row, h.keys)
    BY <1>2, <2>1, <2>2, BesideNative DEF Backs
  <2>4. row.tier # "none" => h.row.tier # "none"
    BY <2>1, <2>2, BesideNative
  <2> QED
    BY <2>1, <2>3, <2>4 DEF Typed, Kinds, Sound, Accepts
<1>3. CASE h = Demotion /\ "bound" \in keys
  BY <1>3, DemotionResult DEF Typed, Sound, Demotes, Backs
<1> QED
  BY <1>1, <1>2, <1>3 DEF HandleBoundRefresh

-----------------------------------------------------------------------------
Routes == {"registration", "refresh", "boundRegistration", "boundRefresh", "state",
           "challenge", "guarded"}

LEMMA RequestFields ==
  ASSUME NEW q \in Requests
  PROVE  /\ q.route \in Routes
         /\ q.legacy => q.route = "registration"
BY DEF Requests, Routes

LEMMA JarFields ==
  ASSUME jar \in Jars, NEW c \in Slots, NEW j, j = [jar EXCEPT !.challenge = c]
  PROVE  j \in Jars
BY DEF Jars

\* What an answer leaves is a state of the session.
Leaves(r) ==
  /\ r.row \in Rows /\ r.keys \subseteq Kinds /\ r.jar \in Jars /\ r.sdk \in Slots
  /\ Backs(row, keys) => Backs(r.row, r.keys)

LEMMA UnchangedLeaves ==
  ASSUME Typed, NEW r, r.row = row, r.keys = keys, r.jar \in Jars, r.sdk \in Slots
  PROVE  Leaves(r)
BY DEF Typed, Leaves

LEMMA NativeLeaves ==
  ASSUME Typed, NEW t, NEW h, Sound(h), NEW r, r = NativeProven(t, h)
  PROVE  Leaves(r)
<1>1. /\ h.row \in Rows /\ h.keys \subseteq Kinds
      /\ Backs(row, keys) => Backs(h.row, h.keys)
      /\ h.code # "ok" => h.keys = keys
  BY DEF Sound
<1>2. r.row = h.row /\ r.keys = h.keys
  BY <1>1, NativeAnswer DEF Accepting, Rejecting
<1>3. r.jar \in Jars /\ r.sdk \in Slots
  BY NativeAnswer, JarsTyped
<1> QED
  BY <1>1, <1>2, <1>3 DEF Leaves

LEMMA BoundLeaves ==
  ASSUME Typed, NEW t, NEW h, Sound(h), NEW r, r = BoundProven(t, h)
  PROVE  Leaves(r)
<1>1. /\ h.row \in Rows /\ h.keys \subseteq Kinds
      /\ Backs(row, keys) => Backs(h.row, h.keys)
      /\ h.code # "ok" => h.keys = keys
  BY DEF Sound
<1>2. r.row = h.row /\ r.keys = h.keys
  BY <1>1, BoundAnswer DEF Accepting, Rejecting
<1>3. r.jar \in Jars /\ r.sdk \in Slots
  BY BoundAnswer, JarsTyped
<1> QED
  BY <1>1, <1>2, <1>3 DEF Leaves

LEMMA AnswerLeaves ==
  ASSUME Typed, NEW a \in Adapters, NEW q \in Requests, q.route \in DOMAIN Tables[a],
         NEW t, t = Tables[a][q.route], NEW r, r = Serve(t, q)
  PROVE  Leaves(r)
<1>0. "open" \in Slots
  BY DEF Slots
<1>1. ASSUME Turned(r) PROVE Leaves(r)
  BY <1>1, UnchangedLeaves DEF Turned, Still, Typed
<1>2. CASE q.route = "registration"
  <2>0. t = Tables[a]["registration"]
    BY <1>2
  <2>1. CASE RegistrationBars(a, q)
    BY <1>1, <1>2, <2>0, <2>1, RegistrationServed
  <2>2. CASE ~RegistrationBars(a, q)
    <3>1. r = NativeProven(t, HandleRegistration(Heard(t, q)))
      BY <1>2, <2>0, <2>2, RegistrationServed
    <3>2. Sound(HandleRegistration(Heard(t, q)))
      BY RegistrationHandled DEF Accepts, Fails
    <3> QED
      BY <3>1, <3>2, NativeLeaves
  <2> QED
    BY <2>1, <2>2
<1>3. CASE q.route = "refresh"
  <2>0. t = Tables[a]["refresh"]
    BY <1>3
  <2>1. CASE RefreshBars(a, q)
    BY <1>1, <1>3, <2>0, <2>1, RefreshServed
  <2>2. CASE ~RefreshBars(a, q) /\ Unsigned(q)
    <3>1. Still(r) /\ r.jar = [jar EXCEPT !.challenge = "open"]
      BY <1>3, <2>0, <2>2, RefreshServed
    <3>2. r.jar \in Jars
      BY <1>0, <3>1, JarFields DEF Typed
    <3> QED
      BY <3>1, <3>2, UnchangedLeaves DEF Still, Typed
  <2>3. CASE ~RefreshBars(a, q) /\ ~Unsigned(q)
    <3>1. r = NativeProven(t, HandleRefresh(q.proof))
      BY <1>3, <2>0, <2>3, RefreshServed
    <3>2. Sound(HandleRefresh(q.proof))
      BY RefreshHandled DEF Accepts, Fails, Demotes
    <3> QED
      BY <3>1, <3>2, NativeLeaves
  <2> QED
    BY <2>1, <2>2, <2>3
<1>4. CASE q.route = "boundRegistration"
  <2>0. t = Tables[a]["boundRegistration"]
    BY <1>4
  <2>1. CASE BoundBars(a, q)
    BY <1>1, <1>4, <2>0, <2>1, BoundRegistrationServed
  <2>2. CASE ~BoundBars(a, q)
    <3>1. r = BoundProven(t, HandleBoundRegistration(q.proof))
      BY <1>4, <2>0, <2>2, BoundRegistrationServed
    <3>2. Sound(HandleBoundRegistration(q.proof))
      BY BoundRegistrationHandled DEF Accepts, Fails
    <3> QED
      BY <3>1, <3>2, BoundLeaves
  <2> QED
    BY <2>1, <2>2
<1>5. CASE q.route = "boundRefresh"
  <2>0. t = Tables[a]["boundRefresh"]
    BY <1>5
  <2>1. CASE BoundBars(a, q)
    BY <1>1, <1>5, <2>0, <2>1, BoundRefreshServed
  <2>2. CASE ~BoundBars(a, q)
    <3>1. r = BoundProven(t, HandleBoundRefresh(q.proof))
      BY <1>5, <2>0, <2>2, BoundRefreshServed
    <3>2. Sound(HandleBoundRefresh(q.proof))
      BY BoundRefreshHandled DEF Accepts, Fails, Demotes
    <3> QED
      BY <3>1, <3>2, BoundLeaves
  <2> QED
    BY <2>1, <2>2
<1>6. CASE q.route = "state"
  <2>0. t = Tables[a]["state"]
    BY <1>6
  <2>1. CASE ReportBars
    BY <1>1, <1>6, <2>0, <2>1, StateServed
  <2>2. CASE ~ReportBars
    <3>1. r = Reported(t)
      BY <1>6, <2>0, <2>2, StateServed
    <3>2. /\ r.row = row /\ r.keys = keys /\ r.jar = jar
          /\ r.sdk = IF "bound" \in keys THEN sdk ELSE "open"
      BY <3>1, ReportedAnswer
    <3> QED
      BY <1>0, <3>2, UnchangedLeaves DEF Typed
  <2> QED
    BY <2>1, <2>2
<1>7. CASE q.route = "challenge"
  <2>0. t = Tables[a]["challenge"]
    BY <1>7
  <2>1. CASE ReportBars
    BY <1>1, <1>7, <2>0, <2>1, ChallengeServed
  <2>2. CASE ~ReportBars
    <3>1. r.row = row /\ r.keys = keys /\ r.jar = jar /\ r.sdk = "open"
      BY <1>7, <2>0, <2>2, ChallengeServed
    <3> QED
      BY <1>0, <3>1, UnchangedLeaves DEF Typed
  <2> QED
    BY <2>1, <2>2
<1>8. CASE q.route = "guarded"
  <2>0. t = Tables[a]["guarded"]
    BY <1>8
  <2>1. a # "betterAuth"
    BY <1>8, PluginRoutes
  <2>2. CASE GuardBars(q)
    BY <1>1, <1>8, <2>0, <2>1, <2>2, GuardServed
  <2>3. CASE ~GuardBars(q)
    <3>1. r.row = row /\ r.keys = keys /\ r.jar = jar /\ r.sdk = sdk
      BY <1>8, <2>0, <2>1, <2>3, GuardServed
    <3> QED
      BY <3>1, UnchangedLeaves DEF Typed
  <2> QED
    BY <2>2, <2>3
<1> QED
  BY <1>2, <1>3, <1>4, <1>5, <1>6, <1>7, <1>8, RequestFields DEF Routes

-----------------------------------------------------------------------------
\* Every request is turned away, answered without a proof, or decided.
ProofRoutes == {"registration", "refresh", "boundRegistration", "boundRefresh"}

\* The limiter was asked, where there is one, and let the request through.
Admitted(a, q, r) == a # "betterAuth" => q.allowed /\ r.asked

\* What a proof that reached its handler comes to.
Decided(a, q, t, r) ==
  /\ Admitted(a, q, r)
  /\ t.event \in {"registration", "refresh"}
  /\ a # "betterAuth" => "recordFailure" \in t.fails
  /\ \E h : \/ Accepting(t, h, r) /\ Accepts(h)
            \/ /\ Rejecting(t, h, r) /\ Fails(h)
               /\ \/ h.code # "SIGNATURE_INVALID"
                  \/ "session_stolen" \notin t.fails
                  \/ q.route = "boundRefresh" /\ q.proof = "skewed"
            \/ Rejecting(t, h, r) /\ Demotes(h) /\ Steals \subseteq t.fails

LEMMA Tellings ==
  /\ "recordFailure" \in Noted /\ "recordFailure" \in Noted \cup Reports
  /\ "session_stolen" \notin Noted /\ "session_stolen" \notin Reports
  /\ "session_stolen" \notin Noted \cup Reports
  /\ Steals \subseteq Noted \cup Steals
  /\ "recordFailure" \in Noted \cup Steals
  /\ Steals \subseteq Noted \cup Steals \cup {"challenge"}
  /\ "recordFailure" \in Noted \cup Steals \cup {"challenge"}
  /\ Steals \subseteq Steals \cup {"challenge"}
BY DEF Noted, Reports, Steals

LEMMA RegistrationDecided ==
  ASSUME Typed, NEW a \in Adapters, NEW t, t = Tables[a]["registration"],
         NEW q, q.route = "registration", NEW r, r = Serve(t, q)
  PROVE  Turned(r) \/ Decided(a, q, t, r)
<1>1. CASE RegistrationBars(a, q)
  BY <1>1, RegistrationServed
<1>2. CASE ~RegistrationBars(a, q)
  <2>1. PICK h : h = HandleRegistration(Heard(t, q))
    OBVIOUS
  <2>2. r = NativeProven(t, h)
    BY <1>2, <2>1, RegistrationServed
  <2>3. Accepts(h) \/ Fails(h)
    BY <2>1, RegistrationHandled
  <2>4. /\ Accepts(h) => Accepting(t, h, r)
        /\ Fails(h) => Rejecting(t, h, r)
        /\ r.asked <=> "limit" \in Gates(t)
    BY <2>2, NativeAnswer DEF Accepts, Fails
  <2>5. ASSUME a # "betterAuth" PROVE "limit" \in Gates(t)
    <3>1. t.gates = <<"limit", "regCookies">> \/ t.gates = <<"regCookies", "limit">>
      BY <2>5, RegistrationTable
    <3> QED
      BY <3>1, Lists
  <2>6. t.event = "registration" /\ "session_stolen" \notin t.fails
        /\ (a # "betterAuth" => "recordFailure" \in t.fails)
    BY RegistrationTable, Tellings
  <2>7. Admitted(a, q, r)
    BY <1>2, <2>4, <2>5 DEF RegistrationBars, Admitted
  <2> QED
    BY <2>3, <2>4, <2>6, <2>7 DEF Decided
<1> QED
  BY <1>1, <1>2

LEMMA RefreshDecided ==
  ASSUME Typed, NEW a \in Adapters, NEW t, t = Tables[a]["refresh"],
         NEW q, q.route = "refresh", NEW r, r = Serve(t, q)
  PROVE  \/ Turned(r)
         \/ Still(r) /\ Admitted(a, q, r)
         \/ Decided(a, q, t, r)
<1>1. CASE RefreshBars(a, q)
  BY <1>1, RefreshServed
<1>2. CASE ~RefreshBars(a, q) /\ Unsigned(q)
  <2>1. Still(r) /\ (a # "betterAuth" => r.asked)
    BY <1>2, RefreshServed
  <2> QED
    BY <1>2, <2>1 DEF RefreshBars, Admitted
<1>3. CASE ~RefreshBars(a, q) /\ ~Unsigned(q)
  <2>1. PICK h : h = HandleRefresh(q.proof)
    OBVIOUS
  <2>2. r = NativeProven(t, h)
    BY <1>3, <2>1, RefreshServed
  <2>3. \/ Accepts(h)
        \/ Fails(h) /\ h.code # "SIGNATURE_INVALID"
        \/ Demotes(h)
    BY <2>1, RefreshHandled
  <2>4. /\ Accepts(h) => Accepting(t, h, r)
        /\ Fails(h) \/ Demotes(h) => Rejecting(t, h, r)
        /\ r.asked <=> "limit" \in Gates(t)
    BY <2>2, NativeAnswer DEF Accepts, Fails, Demotes
  <2>5. ASSUME a # "betterAuth" PROVE "limit" \in Gates(t)
    <3>1. t.gates = <<"idOrBound", "limit", "signed">>
      BY <2>5, RefreshTable
    <3> QED
      BY <3>1, Lists
  <2>6. t.event = "refresh" /\ Steals \subseteq t.fails
        /\ (a # "betterAuth" => "recordFailure" \in t.fails)
    BY RefreshTable, Tellings
  <2>7. Admitted(a, q, r)
    BY <1>3, <2>4, <2>5 DEF RefreshBars, Admitted
  <2> QED
    BY <2>3, <2>4, <2>6, <2>7 DEF Decided
<1> QED
  BY <1>1, <1>2, <1>3

LEMMA BoundRegistrationDecided ==
  ASSUME Typed, NEW a \in Adapters, NEW t, t = Tables[a]["boundRegistration"],
         NEW q, q.route = "boundRegistration", NEW r, r = Serve(t, q)
  PROVE  Turned(r) \/ Decided(a, q, t, r)
<1>1. CASE BoundBars(a, q)
  BY <1>1, BoundRegistrationServed
<1>2. CASE ~BoundBars(a, q)
  <2>1. PICK h : h = HandleBoundRegistration(q.proof)
    OBVIOUS
  <2>2. r = BoundProven(t, h)
    BY <1>2, <2>1, BoundRegistrationServed
  <2>3. Accepts(h) \/ Fails(h)
    BY <2>1, BoundRegistrationHandled
  <2>4. /\ Accepts(h) => Accepting(t, h, r)
        /\ Fails(h) => Rejecting(t, h, r)
        /\ r.asked <=> "limit" \in Gates(t)
    BY <2>2, BoundAnswer DEF Accepts, Fails
  <2>5. ASSUME a # "betterAuth" PROVE "limit" \in Gates(t)
    <3>1. t.gates = <<"polyfill", "limit", "cookie", "body">>
      BY <2>5, BoundRegistrationTable
    <3> QED
      BY <3>1, Lists
  <2>6. t.event = "registration" /\ "session_stolen" \notin t.fails
        /\ (a # "betterAuth" => "recordFailure" \in t.fails)
    BY BoundRegistrationTable, Tellings
  <2>7. Admitted(a, q, r)
    BY <1>2, <2>4, <2>5 DEF BoundBars, Admitted
  <2> QED
    BY <2>3, <2>4, <2>6, <2>7 DEF Decided
<1> QED
  BY <1>1, <1>2

LEMMA BoundRefreshDecided ==
  ASSUME Typed, NEW a \in Adapters, NEW t, t = Tables[a]["boundRefresh"],
         NEW q, q.route = "boundRefresh", NEW r, r = Serve(t, q)
  PROVE  Turned(r) \/ Decided(a, q, t, r)
<1>1. CASE BoundBars(a, q)
  BY <1>1, BoundRefreshServed
<1>2. CASE ~BoundBars(a, q)
  <2>1. PICK h : h = HandleBoundRefresh(q.proof)
    OBVIOUS
  <2>2. r = BoundProven(t, h)
    BY <1>2, <2>1, BoundRefreshServed
  <2>3. \/ Accepts(h)
        \/ Fails(h) /\ (h.code = "SIGNATURE_INVALID" => q.proof = "skewed")
        \/ Demotes(h)
    BY <2>1, BoundRefreshHandled
  <2>4. /\ Accepts(h) => Accepting(t, h, r)
        /\ Fails(h) \/ Demotes(h) => Rejecting(t, h, r)
        /\ r.asked <=> "limit" \in Gates(t)
    BY <2>2, BoundAnswer DEF Accepts, Fails, Demotes
  <2>5. ASSUME a # "betterAuth" PROVE "limit" \in Gates(t)
    <3>1. t.gates = <<"polyfill", "cookie", "limit", "body">>
      BY <2>5, BoundRefreshTable
    <3> QED
      BY <3>1, Lists
  <2>6. t.event = "refresh" /\ Steals \subseteq t.fails
        /\ (a # "betterAuth" => "recordFailure" \in t.fails)
    BY BoundRefreshTable, Tellings
  <2>7. Admitted(a, q, r)
    BY <1>2, <2>4, <2>5 DEF BoundBars, Admitted
  <2> QED
    BY <2>3, <2>4, <2>6, <2>7 DEF Decided
<1> QED
  BY <1>1, <1>2

\* Every request is turned away, answered without a proof, or decided.
LEMMA ProofsDecided ==
  ASSUME Typed, NEW a \in Adapters, NEW q, q.route \in ProofRoutes,
         NEW t, t = Tables[a][q.route], NEW r, r = Serve(t, q)
  PROVE  \/ Turned(r)
         \/ Still(r) /\ Admitted(a, q, r)
         \/ Decided(a, q, t, r)
<1>1. CASE q.route = "registration"
  <2>1. t = Tables[a]["registration"]
    BY <1>1
  <2> QED
    BY <1>1, <2>1, RegistrationDecided
<1>2. CASE q.route = "refresh"
  <2>1. t = Tables[a]["refresh"]
    BY <1>2
  <2> QED
    BY <1>2, <2>1, RefreshDecided
<1>3. CASE q.route = "boundRegistration"
  <2>1. t = Tables[a]["boundRegistration"]
    BY <1>3
  <2> QED
    BY <1>3, <2>1, BoundRegistrationDecided
<1>4. CASE q.route = "boundRefresh"
  <2>1. t = Tables[a]["boundRefresh"]
    BY <1>4
  <2> QED
    BY <1>4, <2>1, BoundRefreshDecided
<1> QED
  BY <1>1, <1>2, <1>3, <1>4 DEF ProofRoutes

\* The other routes leave the row alone and raise nothing.
LEMMA OthersQuiet ==
  ASSUME NEW a \in Adapters, NEW q, q.route \in {"state", "challenge", "guarded"},
         q.route \in DOMAIN Tables[a], NEW t, t = Tables[a][q.route], NEW r, r = Serve(t, q)
  PROVE  r.row = row /\ r.events = {}
<1>1. ASSUME Turned(r) PROVE r.row = row /\ r.events = {}
  BY <1>1 DEF Turned, Still
<1>2. CASE q.route = "state"
  <2>1. t = Tables[a]["state"]
    BY <1>2
  <2>2. Turned(r) \/ r = Reported(t)
    BY <1>2, <2>1, StateServed
  <2> QED
    BY <1>1, <2>2, ReportedAnswer
<1>3. CASE q.route = "challenge"
  <2>1. t = Tables[a]["challenge"]
    BY <1>3
  <2> QED
    BY <1>1, <1>3, <2>1, ChallengeServed
<1>4. CASE q.route = "guarded"
  <2>1. t = Tables[a]["guarded"] /\ a # "betterAuth"
    BY <1>4, PluginRoutes
  <2> QED
    BY <1>1, <1>4, <2>1, GuardServed
<1> QED
  BY <1>2, <1>3, <1>4

-----------------------------------------------------------------------------
(***************************************************************************)
(* The ports: what any adapter and Express answer the same request.        *)
(***************************************************************************)
\* An answer says whether the limiter was told of a failure.
LEMMA NotedIsBoolean ==
  ASSUME NEW t, NEW q, q.route \in Routes, NEW r, r = Serve(t, q)
  PROVE  r.noted \in BOOLEAN
<1>1. CASE r = Ran(t, q)
  <2>1. ASSUME NEW h, NEW native, r = Succeeded(t, h, native) PROVE r.noted \in BOOLEAN
    BY <2>1 DEF Succeeded, Outcome
  <2>2. ASSUME NEW h, NEW native, r = Failed(t, h, native) PROVE r.noted \in BOOLEAN
    BY <2>2 DEF Failed, Outcome
  <2>3. ASSUME NEW h, NEW native, r = Proven(t, h, native) PROVE r.noted \in BOOLEAN
    BY <2>1, <2>2, <2>3 DEF Proven
  <2>4. CASE r = Reported(t)
    BY <2>4 DEF Reported, Outcome
  <2>5. CASE r = [Outcome(200, "challenge", FALSE) EXCEPT !.sdk = "open"]
    BY <2>5 DEF Outcome
  <2>6. CASE r = Outcome(200, "application", FALSE)
    BY <2>6 DEF Outcome
  <2>7. CASE q.route = "registration"
    BY <1>1, <2>3, <2>7 DEF Ran
  <2>8. CASE q.route = "refresh"
    BY <1>1, <2>3, <2>8 DEF Ran
  <2>9. CASE q.route = "boundRegistration"
    BY <1>1, <2>3, <2>9 DEF Ran
  <2>10. CASE q.route = "boundRefresh"
    BY <1>1, <2>3, <2>10 DEF Ran
  <2>11. CASE q.route \in {"state", "challenge", "guarded"}
    BY <1>1, <2>4, <2>5, <2>6, <2>11 DEF Ran
  <2> QED
    BY <2>7, <2>8, <2>9, <2>10, <2>11 DEF Routes
<1>2. ASSUME NEW g, NEW asked, r = Stopped(g, q, asked) PROVE r.noted \in BOOLEAN
  <2>1. PICK o : o = Outcome(StopStatus(g, q), "unbound", asked)
    OBVIOUS
  <2>2. o.noted \in BOOLEAN
    BY <2>1 DEF Outcome
  <2>3. r = o \/ r = [o EXCEPT !.jar.challenge = "open"]
    BY <1>2, <2>1 DEF Stopped
  <2> QED
    BY <2>1, <2>2, <2>3 DEF Outcome
<1> QED
  BY <1>1, <1>2 DEF Serve

\* What Alike asks of two answers.
Agree(a, q, mine, ours) ==
  /\ mine.row = ours.row /\ mine.keys = ours.keys
  /\ mine.jar = ours.jar /\ mine.sdk = ours.sdk
  /\ mine.phase = ours.phase
  /\ mine.status = ours.status \/ ~q.allowed
  /\ \/ mine.tier = ours.tier
     \/ /\ q.route = "state" /\ "native" \in keys /\ "bound" \in keys
        /\ ours.tier = "dbsc" /\ mine.tier = row.tier
  /\ (mine.noted <=> ours.noted) \/ a = "betterAuth"
  /\ \/ mine.events = ours.events
     \/ /\ a \in {"hono", "fastify", "nextjs"} /\ q.route = "registration"
        /\ ours.events = Reports /\ mine.events = {}

\* The events of a rejected proof.
Told(t) == t.fails \ {"challenge", "recordFailure"}

LEMMA TurnedAgree ==
  ASSUME NEW a, NEW q, NEW mine, NEW ours, Still(mine), Still(ours), mine.jar = ours.jar,
         mine.status = ours.status \/ ~q.allowed
  PROVE  Agree(a, q, mine, ours)
BY DEF Still, Agree

\* Two tables that say the same of a proof.
SameTelling(a, t, u) ==
  /\ t.event = u.event /\ t.status = u.status
  /\ "challenge" \in t.fails <=> "challenge" \in u.fails
  /\ a # "betterAuth" => ("recordFailure" \in t.fails <=> "recordFailure" \in u.fails)

LEMMA ProvenAgree ==
  ASSUME NEW a, NEW q, NEW t, NEW u, NEW h, NEW mine, NEW ours, SameTelling(a, t, u),
         mine.jar = ours.jar, mine.sdk = ours.sdk,
         h.code = "ok" => Accepting(t, h, mine) /\ Accepting(u, h, ours),
         h.code # "ok" => Rejecting(t, h, mine) /\ Rejecting(u, h, ours),
         \/ Told(t) = Told(u)
         \/ /\ a \in {"hono", "fastify", "nextjs"} /\ q.route = "registration"
            /\ Told(t) = {} /\ Told(u) = Reports
  PROVE  Agree(a, q, mine, ours)
<1>1. CASE h.code = "ok"
  BY <1>1 DEF Accepting, Agree, SameTelling
<1>2. CASE h.code # "ok"
  <2>1. /\ mine.row = ours.row /\ mine.keys = ours.keys
        /\ mine.phase = ours.phase /\ mine.status = ours.status /\ mine.tier = ours.tier
        /\ (mine.noted <=> ours.noted) \/ a = "betterAuth"
    BY <1>2 DEF Rejecting, SameTelling
  <2>2. /\ \A e : e \in mine.events <=>
             e \in Told(t) /\ (e = "session_stolen" =>
                                 h.code = "SIGNATURE_INVALID" /\ keys # {})
        /\ \A e : e \in ours.events <=>
             e \in Told(u) /\ (e = "session_stolen" =>
                                 h.code = "SIGNATURE_INVALID" /\ keys # {})
    BY <1>2 DEF Rejecting, Told
  <2>3. \/ mine.events = ours.events
        \/ /\ a \in {"hono", "fastify", "nextjs"} /\ q.route = "registration"
           /\ ours.events = Reports /\ mine.events = {}
    <3>1. CASE Told(t) = Told(u)
      <4>1. \A e : e \in mine.events <=> e \in ours.events
        BY <2>2, <3>1
      <4>2. /\ mine.events = {e \in t.fails \ {"challenge", "recordFailure"} :
                   e = "session_stolen" => h.code = "SIGNATURE_INVALID" /\ keys # {}}
            /\ ours.events = {e \in u.fails \ {"challenge", "recordFailure"} :
                   e = "session_stolen" => h.code = "SIGNATURE_INVALID" /\ keys # {}}
        BY <1>2 DEF Rejecting
      <4> QED
        BY <4>1, <4>2
    <3>2. CASE Told(t) = {} /\ Told(u) = Reports
      BY <1>2, <2>2, <3>2 DEF Reports, Rejecting
    <3> QED
      BY <3>1, <3>2
  <2> QED
    BY <2>1, <2>3 DEF Agree
<1> QED
  BY <1>1, <1>2

\* A request `q` that the adapter reads as Express reads `m`.
SameMeaning(a, q, m) ==
  /\ m.route = q.route /\ (m.allowed <=> q.allowed) /\ (m.body <=> q.body)
  /\ a = "betterAuth" => q.allowed
  /\ m.proof = IF a = "betterAuth" /\ q.legacy THEN "none" ELSE q.proof
  /\ q.legacy => q.route = "registration"
  /\ m.id <=> q.id \/ (a = "betterAuth" /\ jar.reg)

LEMMA SameJars ==
  ASSUME NEW a, NEW t, NEW u, NEW h, SameTelling(a, t, u)
  PROVE  NativeJar(t, h) = NativeJar(u, h) /\ BoundJar(t, h) = BoundJar(u, h)
<1>1. CASE "challenge" \in t.fails
  BY <1>1 DEF SameTelling, NativeJar, BoundJar
<1>2. CASE "challenge" \notin t.fails
  BY <1>2 DEF SameTelling, NativeJar, BoundJar
<1> QED
  BY <1>1, <1>2

LEMMA TellingSets ==
  /\ "challenge" \notin Noted /\ "challenge" \notin Reports
  /\ "challenge" \notin Noted \cup Reports
  /\ "challenge" \notin Steals /\ "challenge" \notin Noted \cup Steals
  /\ "challenge" \in Steals \cup {"challenge"}
  /\ "challenge" \in Noted \cup Steals \cup {"challenge"}
  /\ "recordFailure" \in Noted /\ "recordFailure" \in Noted \cup Reports
  /\ "recordFailure" \in Noted \cup Steals
  /\ "recordFailure" \in Noted \cup Steals \cup {"challenge"}
BY DEF Noted, Reports, Steals

LEMMA ToldSets ==
  ASSUME NEW t
  PROVE  /\ t.fails = Noted => Told(t) = {}
         /\ t.fails = Reports => Told(t) = Reports
         /\ t.fails = Noted \cup Reports => Told(t) = Reports
         /\ t.fails = Steals => Told(t) = Steals
         /\ t.fails = Noted \cup Steals => Told(t) = Steals
         /\ t.fails = Steals \cup {"challenge"} => Told(t) = Steals
         /\ t.fails = Noted \cup Steals \cup {"challenge"} => Told(t) = Steals
<1>1. /\ t.fails = Noted => Told(t) = {}
      /\ t.fails = Reports => Told(t) = Reports
      /\ t.fails = Noted \cup Reports => Told(t) = Reports
  BY DEF Told, Noted, Reports
<1>2. /\ t.fails = Steals => Told(t) = Steals
      /\ t.fails = Noted \cup Steals => Told(t) = Steals
  BY DEF Told, Noted, Steals
<1>3. /\ t.fails = Steals \cup {"challenge"} => Told(t) = Steals
      /\ t.fails = Noted \cup Steals \cup {"challenge"} => Told(t) = Steals
  BY DEF Told, Noted, Steals
<1> QED
  BY <1>1, <1>2, <1>3

LEMMA RegistrationAgree ==
  ASSUME Typed, NEW a \in Adapters, NEW t, t = Tables[a]["registration"],
         NEW u, u = Tables["express"]["registration"],
         NEW q, q.route = "registration", NEW m, SameMeaning(a, q, m),
         NEW mine, mine = Serve(t, q), NEW ours, ours = Serve(u, m)
  PROVE  Agree(a, q, mine, ours)
<1>0. "express" \in Adapters
  BY DEF Adapters
<1>1. /\ RegistrationBars(a, q) <=> RegistrationBars("express", m)
      /\ m.route = "registration" /\ (m.allowed <=> q.allowed)
  BY DEF RegistrationBars, SameMeaning
<1>2. CASE RegistrationBars(a, q)
  <2>1. Turned(mine) /\ Turned(ours)
    BY <1>0, <1>1, <1>2, RegistrationServed
  <2>2. mine.status = ours.status \/ ~q.allowed
    BY <1>0, <1>1, <1>2, RegistrationServed
  <2> QED
    BY <2>1, <2>2, TurnedAgree DEF Turned
<1>4. CASE ~RegistrationBars(a, q)
  <2>1. PICK h : h = HandleRegistration(m.proof)
    OBVIOUS
  <2>7. Heard(t, q) = m.proof /\ Heard(u, m) = m.proof
    BY <1>0, RegistrationTable DEF Heard, SameMeaning
  <2>2. mine = NativeProven(t, h) /\ ours = NativeProven(u, h)
    BY <1>0, <1>1, <1>4, <2>1, <2>7, RegistrationServed
  <2>3. SameTelling(a, t, u)
    BY <1>0, RegistrationTable, TellingSets DEF SameTelling
  <2>4. \/ Told(t) = Told(u)
        \/ a \in {"hono", "fastify", "nextjs"} /\ Told(t) = {} /\ Told(u) = Reports
    BY <1>0, RegistrationTable, ToldSets
  <2>5. mine.jar = ours.jar /\ mine.sdk = ours.sdk
    BY <2>2, <2>3, NativeAnswer, SameJars
  <2>6. /\ h.code = "ok" => Accepting(t, h, mine) /\ Accepting(u, h, ours)
        /\ h.code # "ok" => Rejecting(t, h, mine) /\ Rejecting(u, h, ours)
    BY <2>2, NativeAnswer
  <2> QED
    BY <2>3, <2>4, <2>5, <2>6, ProvenAgree
<1> QED
  BY <1>2, <1>4

LEMMA RefreshAgree ==
  ASSUME Typed, NEW a \in Adapters, NEW t, t = Tables[a]["refresh"],
         NEW u, u = Tables["express"]["refresh"],
         NEW q, q.route = "refresh", NEW m, SameMeaning(a, q, m),
         NEW mine, mine = Serve(t, q), NEW ours, ours = Serve(u, m)
  PROVE  Agree(a, q, mine, ours)
<1>0. "express" \in Adapters
  BY DEF Adapters
<1>1. /\ RefreshBars(a, q) <=> RefreshBars("express", m)
      /\ Unsigned(q) <=> Unsigned(m)
      /\ m.route = "refresh" /\ (m.allowed <=> q.allowed) /\ m.proof = q.proof
  BY DEF RefreshBars, Unsigned, SameMeaning
<1>2. CASE RefreshBars(a, q)
  <2>1. Turned(mine) /\ Turned(ours)
    BY <1>0, <1>1, <1>2, RefreshServed
  <2>2. mine.status = ours.status \/ ~q.allowed
    BY <1>0, <1>1, <1>2, RefreshServed
  <2> QED
    BY <2>1, <2>2, TurnedAgree DEF Turned
<1>3. CASE ~RefreshBars(a, q) /\ Unsigned(q)
  <2>1. /\ Still(mine) /\ Still(ours) /\ mine.jar = ours.jar
        /\ mine.status = ours.status
    BY <1>0, <1>1, <1>3, RefreshServed
  <2> QED
    BY <2>1, TurnedAgree
<1>4. CASE ~RefreshBars(a, q) /\ ~Unsigned(q)
  <2>1. PICK h : h = HandleRefresh(q.proof)
    OBVIOUS
  <2>2. mine = NativeProven(t, h) /\ ours = NativeProven(u, h)
    BY <1>0, <1>1, <1>4, <2>1, RefreshServed
  <2>3. SameTelling(a, t, u)
    BY <1>0, RefreshTable, TellingSets DEF SameTelling
  <2>4. Told(t) = Told(u)
    BY <1>0, RefreshTable, ToldSets
  <2>5. mine.jar = ours.jar /\ mine.sdk = ours.sdk
    BY <2>2, <2>3, NativeAnswer, SameJars
  <2>6. /\ h.code = "ok" => Accepting(t, h, mine) /\ Accepting(u, h, ours)
        /\ h.code # "ok" => Rejecting(t, h, mine) /\ Rejecting(u, h, ours)
    BY <2>2, NativeAnswer
  <2> QED
    BY <2>3, <2>4, <2>5, <2>6, ProvenAgree
<1> QED
  BY <1>2, <1>3, <1>4

LEMMA BoundRegistrationAgree ==
  ASSUME Typed, NEW a \in Adapters, NEW t, t = Tables[a]["boundRegistration"],
         NEW u, u = Tables["express"]["boundRegistration"],
         NEW q, q.route = "boundRegistration", NEW m, SameMeaning(a, q, m),
         NEW mine, mine = Serve(t, q), NEW ours, ours = Serve(u, m)
  PROVE  Agree(a, q, mine, ours)
<1>0. "express" \in Adapters
  BY DEF Adapters
<1>1. /\ BoundBars(a, q) <=> BoundBars("express", m)
      /\ m.route = "boundRegistration" /\ (m.allowed <=> q.allowed) /\ m.proof = q.proof
  BY DEF BoundBars, SameMeaning
<1>2. CASE BoundBars(a, q)
  <2>1. Turned(mine) /\ Turned(ours)
    BY <1>0, <1>1, <1>2, BoundRegistrationServed
  <2>2. mine.status = ours.status \/ ~q.allowed
    BY <1>0, <1>1, <1>2, BoundRegistrationServed
  <2> QED
    BY <2>1, <2>2, TurnedAgree DEF Turned
<1>4. CASE ~BoundBars(a, q)
  <2>1. PICK h : h = HandleBoundRegistration(q.proof)
    OBVIOUS
  <2>2. mine = BoundProven(t, h) /\ ours = BoundProven(u, h)
    BY <1>0, <1>1, <1>4, <2>1, BoundRegistrationServed
  <2>3. SameTelling(a, t, u)
    BY <1>0, BoundRegistrationTable, TellingSets DEF SameTelling
  <2>4. Told(t) = Told(u)
    BY <1>0, BoundRegistrationTable, ToldSets
  <2>5. mine.jar = ours.jar /\ mine.sdk = ours.sdk
    BY <2>2, <2>3, BoundAnswer, SameJars
  <2>6. /\ h.code = "ok" => Accepting(t, h, mine) /\ Accepting(u, h, ours)
        /\ h.code # "ok" => Rejecting(t, h, mine) /\ Rejecting(u, h, ours)
    BY <2>2, BoundAnswer
  <2> QED
    BY <2>3, <2>4, <2>5, <2>6, ProvenAgree
<1> QED
  BY <1>2, <1>4

LEMMA BoundRefreshAgree ==
  ASSUME Typed, NEW a \in Adapters, NEW t, t = Tables[a]["boundRefresh"],
         NEW u, u = Tables["express"]["boundRefresh"],
         NEW q, q.route = "boundRefresh", NEW m, SameMeaning(a, q, m),
         NEW mine, mine = Serve(t, q), NEW ours, ours = Serve(u, m)
  PROVE  Agree(a, q, mine, ours)
<1>0. "express" \in Adapters
  BY DEF Adapters
<1>1. /\ BoundBars(a, q) <=> BoundBars("express", m)
      /\ m.route = "boundRefresh" /\ (m.allowed <=> q.allowed) /\ m.proof = q.proof
  BY DEF BoundBars, SameMeaning
<1>2. CASE BoundBars(a, q)
  <2>1. Turned(mine) /\ Turned(ours)
    BY <1>0, <1>1, <1>2, BoundRefreshServed
  <2>2. mine.status = ours.status \/ ~q.allowed
    BY <1>0, <1>1, <1>2, BoundRefreshServed DEF BoundBars
  <2> QED
    BY <2>1, <2>2, TurnedAgree DEF Turned
<1>4. CASE ~BoundBars(a, q)
  <2>1. PICK h : h = HandleBoundRefresh(q.proof)
    OBVIOUS
  <2>2. mine = BoundProven(t, h) /\ ours = BoundProven(u, h)
    BY <1>0, <1>1, <1>4, <2>1, BoundRefreshServed
  <2>3. SameTelling(a, t, u)
    BY <1>0, BoundRefreshTable, TellingSets DEF SameTelling
  <2>4. Told(t) = Told(u)
    BY <1>0, BoundRefreshTable, ToldSets
  <2>5. mine.jar = ours.jar /\ mine.sdk = ours.sdk
    BY <2>2, <2>3, BoundAnswer, SameJars
  <2>6. /\ h.code = "ok" => Accepting(t, h, mine) /\ Accepting(u, h, ours)
        /\ h.code # "ok" => Rejecting(t, h, mine) /\ Rejecting(u, h, ours)
    BY <2>2, BoundAnswer
  <2> QED
    BY <2>3, <2>4, <2>5, <2>6, ProvenAgree
<1> QED
  BY <1>2, <1>4

LEMMA StateAgree ==
  ASSUME Typed, NEW a \in Adapters, NEW t, t = Tables[a]["state"],
         NEW u, u = Tables["express"]["state"],
         NEW q, q.route = "state", NEW m, m.route = "state",
         NEW mine, mine = Serve(t, q), NEW ours, ours = Serve(u, m)
  PROVE  Agree(a, q, mine, ours)
<1>0. "express" \in Adapters
  BY DEF Adapters
<1>1. CASE ReportBars
  <2>1. /\ Turned(mine) /\ mine.status = 200
        /\ Turned(ours) /\ ours.status = 200
    BY <1>0, <1>1, StateServed
  <2> QED
    BY <2>1, TurnedAgree DEF Turned
<1>2. CASE ~ReportBars
  <2>1. mine = Reported(t) /\ ours = Reported(u)
    BY <1>0, <1>2, StateServed
  <2>2. ~t.nativeFirst => a \notin {"express", "nestjs"}
    BY StateTable
  <2>3. u.nativeFirst
    BY <1>0, StateTable
  <2>4. \/ t.nativeFirst \/ mine.tier = ours.tier
        \/ /\ "native" \in keys /\ "bound" \in keys
           /\ ours.tier = "dbsc" /\ mine.tier = row.tier
    BY <2>1, <2>3, ReportedAnswer
  <2>5. t.nativeFirst => mine.tier = ours.tier
    BY <2>1, <2>3, ReportedAnswer
  <2>6. /\ mine.row = ours.row /\ mine.keys = ours.keys
        /\ mine.jar = ours.jar /\ mine.sdk = ours.sdk
        /\ mine.phase = ours.phase /\ mine.status = ours.status
    BY <2>1, ReportedAnswer
  <2>7. ~mine.noted /\ ~ours.noted /\ mine.events = {} /\ ours.events = {}
    BY <2>1, ReportedAnswer
  <2> QED
    BY <2>4, <2>5, <2>6, <2>7 DEF Agree
<1> QED
  BY <1>1, <1>2

LEMMA ChallengeAgree ==
  ASSUME NEW a \in Adapters, NEW t, t = Tables[a]["challenge"],
         NEW u, u = Tables["express"]["challenge"],
         NEW q, q.route = "challenge", NEW m, m.route = "challenge",
         NEW mine, mine = Serve(t, q), NEW ours, ours = Serve(u, m)
  PROVE  Agree(a, q, mine, ours)
<1>0. "express" \in Adapters
  BY DEF Adapters
<1>1. CASE ReportBars
  <2>1. Turned(mine) /\ Turned(ours) /\ mine.status = ours.status
    BY <1>0, <1>1, ChallengeServed
  <2> QED
    BY <2>1, TurnedAgree DEF Turned
<1>2. CASE ~ReportBars
  <2>1. /\ mine.row = row /\ mine.keys = keys /\ mine.jar = jar /\ mine.sdk = "open"
        /\ mine.status = 200 /\ mine.phase = "challenge" /\ mine.tier = "none"
        /\ ~mine.noted /\ mine.events = {}
    BY <1>2, ChallengeServed
  <2>2. /\ ours.row = row /\ ours.keys = keys /\ ours.jar = jar /\ ours.sdk = "open"
        /\ ours.status = 200 /\ ours.phase = "challenge" /\ ours.tier = "none"
        /\ ~ours.noted /\ ours.events = {}
    BY <1>0, <1>2, ChallengeServed
  <2> QED
    BY <2>1, <2>2 DEF Agree
<1> QED
  BY <1>1, <1>2

LEMMA GuardPassed ==
  ASSUME NEW a \in Adapters, a # "betterAuth", NEW t, t = Tables[a]["guarded"],
         NEW q, q.route = "guarded", ~GuardBars(q), NEW r, r = Serve(t, q)
  PROVE  /\ r.row = row /\ r.keys = keys /\ r.jar = jar /\ r.sdk = sdk
         /\ r.status = 200 /\ r.phase = "application" /\ r.tier = "none"
         /\ ~r.noted /\ r.events = {}
BY GuardServed

LEMMA GuardAgree ==
  ASSUME NEW a \in Adapters, a # "betterAuth", NEW t, t = Tables[a]["guarded"],
         NEW u, u = Tables["express"]["guarded"],
         NEW q, q.route = "guarded", NEW m, m.route = "guarded", m.proof = q.proof,
         NEW mine, mine = Serve(t, q), NEW ours, ours = Serve(u, m)
  PROVE  Agree(a, q, mine, ours)
<1>0. "express" \in Adapters /\ "express" # "betterAuth"
  BY DEF Adapters
<1>1. GuardBars(q) <=> GuardBars(m)
  BY DEF GuardBars
<1>2. CASE GuardBars(q)
  <2>1. Turned(mine) /\ Turned(ours) /\ mine.status = ours.status
    BY <1>0, <1>1, <1>2, GuardServed
  <2> QED
    BY <2>1, TurnedAgree DEF Turned
<1>3. CASE ~GuardBars(q)
  <2>1. /\ mine.row = row /\ mine.keys = keys /\ mine.jar = jar /\ mine.sdk = sdk
        /\ mine.status = 200 /\ mine.phase = "application" /\ mine.tier = "none"
        /\ ~mine.noted /\ mine.events = {}
    BY <1>3, GuardPassed
  <2>2. ~GuardBars(m)
    BY <1>1, <1>3
  <2>3. /\ ours.row = row /\ ours.keys = keys /\ ours.jar = jar /\ ours.sdk = sdk
        /\ ours.status = 200 /\ ours.phase = "application" /\ ours.tier = "none"
        /\ ~ours.noted /\ ours.events = {}
    BY <1>0, <2>2, GuardPassed
  <2> QED
    BY <2>1, <2>3 DEF Agree
<1> QED
  BY <1>2, <1>3

LEMMA RoutesAgree ==
  ASSUME Typed, NEW a \in Adapters, NEW q, q.route \in Routes,
         q.route \in DOMAIN Tables[a], NEW m, SameMeaning(a, q, m),
         NEW mine, mine = Serve(Tables[a][q.route], q),
         NEW ours, ours = Serve(Tables["express"][q.route], m)
  PROVE  Agree(a, q, mine, ours)
<1>1. PICK t, u : t = Tables[a][q.route] /\ u = Tables["express"][q.route]
  OBVIOUS
<1>2. mine = Serve(t, q) /\ ours = Serve(u, m) /\ m.route = q.route
  BY <1>1 DEF SameMeaning
<1>3. CASE q.route = "registration"
  <2>1. t = Tables[a]["registration"] /\ u = Tables["express"]["registration"]
    BY <1>1, <1>3
  <2> QED
    BY <1>2, <1>3, <2>1, RegistrationAgree
<1>4. CASE q.route = "refresh"
  <2>1. t = Tables[a]["refresh"] /\ u = Tables["express"]["refresh"]
    BY <1>1, <1>4
  <2> QED
    BY <1>2, <1>4, <2>1, RefreshAgree
<1>5. CASE q.route = "boundRegistration"
  <2>1. t = Tables[a]["boundRegistration"] /\ u = Tables["express"]["boundRegistration"]
    BY <1>1, <1>5
  <2> QED
    BY <1>2, <1>5, <2>1, BoundRegistrationAgree
<1>6. CASE q.route = "boundRefresh"
  <2>1. t = Tables[a]["boundRefresh"] /\ u = Tables["express"]["boundRefresh"]
    BY <1>1, <1>6
  <2> QED
    BY <1>2, <1>6, <2>1, BoundRefreshAgree
<1>7. CASE q.route = "state"
  <2>1. t = Tables[a]["state"] /\ u = Tables["express"]["state"]
    BY <1>1, <1>7
  <2> QED
    BY <1>2, <1>7, <2>1, StateAgree
<1>8. CASE q.route = "challenge"
  <2>1. t = Tables[a]["challenge"] /\ u = Tables["express"]["challenge"]
    BY <1>1, <1>8
  <2> QED
    BY <1>2, <1>8, <2>1, ChallengeAgree
<1>9. CASE q.route = "guarded"
  <2>1. /\ t = Tables[a]["guarded"] /\ u = Tables["express"]["guarded"]
        /\ a # "betterAuth" /\ m.proof = q.proof
    BY <1>1, <1>9, PluginRoutes DEF SameMeaning
  <2> QED
    BY <1>2, <1>9, <2>1, GuardAgree
<1> QED
  BY <1>3, <1>4, <1>5, <1>6, <1>7, <1>8, <1>9 DEF Routes
=============================================================================
