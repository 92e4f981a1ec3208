--------------------------- MODULE AdapterRoutes ---------------------------
(***************************************************************************)
(* One table per route of each adapter, read off its handler: the tests in *)
(* their order, the status, events and calls of a rejected proof, and the  *)
(* event of an accepted one.  koa delegates to node, and nestjs to         *)
(* express, so they have tables of their own for the guard only.           *)
(***************************************************************************)
EXTENDS RouteCore

Adapters == {"express", "hono", "fastify", "node", "koa", "nestjs", "nextjs",
             "sveltekit", "betterAuth"}

\* A route without a proof.
Reads(gates) == [gates |-> gates, nativeFirst |-> FALSE]

\* A route with a proof.  `legacy`: a registration is also read from the header
\* Sec-Session-Response.  `clears`: the answer to an accepted proof removes the
\* challenge cookie with the attributes it was set with, as a browser asks for.
Proves(gates, event, status, fails) ==
  [gates |-> gates, event |-> event, status |-> status, fails |-> fails,
   legacy |-> TRUE, clears |-> TRUE]

Noted == {"recordFailure"}

Reports == {"verification_failure"}

Steals == {"session_stolen", "verification_failure"}

-----------------------------------------------------------------------------
ExpressRegistration ==
  Proves(<<"limit", "regCookies">>, "registration", 400, Noted \cup Reports)

ExpressRefresh ==
  Proves(<<"idOrBound", "limit", "signed">>, "refresh", 403,
         Noted \cup Steals \cup {"challenge"})

\* A native key decides the tier that is reported.
ExpressState == [Reads(<<"polyfill", "cookie", "row">>) EXCEPT !.nativeFirst = TRUE]

ExpressChallenge == Reads(<<"polyfill", "cookie", "row">>)

ExpressBoundRegistration ==
  Proves(<<"polyfill", "limit", "cookie", "body">>, "registration", 400,
         Noted \cup Reports)

ExpressBoundRefresh ==
  Proves(<<"polyfill", "cookie", "limit", "body">>, "refresh", 401,
         Noted \cup Steals)

\* requireProof ends in requireBoundProof.
ExpressBoundProof == <<"binding", "proof">>

ExpressGuard == Reads(<<"tier">> \o ExpressBoundProof)

ExpressRoutes ==
  [registration |-> ExpressRegistration, refresh |-> ExpressRefresh,
   state |-> ExpressState, challenge |-> ExpressChallenge,
   boundRegistration |-> ExpressBoundRegistration,
   boundRefresh |-> ExpressBoundRefresh, guarded |-> ExpressGuard]

-----------------------------------------------------------------------------
\* deleteCookie is not told the attributes of the cookie.
HonoRegistration ==
  [Proves(<<"regCookies", "limit">>, "registration", 400, Noted)
     EXCEPT !.clears = FALSE]

HonoRefresh ==
  [Proves(<<"idOrBound", "limit", "signed">>, "refresh", 403,
          Noted \cup Steals \cup {"challenge"}) EXCEPT !.clears = FALSE]

HonoState == Reads(<<"polyfill", "cookie", "row">>)

HonoChallenge == Reads(<<"polyfill", "cookie", "row">>)

HonoBoundRegistration ==
  Proves(<<"polyfill", "limit", "cookie", "body">>, "registration", 400,
         Noted \cup Reports)

HonoBoundRefresh ==
  Proves(<<"polyfill", "cookie", "limit", "body">>, "refresh", 401,
         Noted \cup Steals)

HonoBoundProof == <<"binding", "proof">>

HonoGuard == Reads(<<"tier">> \o HonoBoundProof)

HonoRoutes ==
  [registration |-> HonoRegistration, refresh |-> HonoRefresh,
   state |-> HonoState, challenge |-> HonoChallenge,
   boundRegistration |-> HonoBoundRegistration,
   boundRefresh |-> HonoBoundRefresh, guarded |-> HonoGuard]

-----------------------------------------------------------------------------
FastifyRegistration ==
  Proves(<<"regCookies", "limit">>, "registration", 400, Noted)

FastifyRefresh ==
  Proves(<<"idOrBound", "limit", "signed">>, "refresh", 403,
         Noted \cup Steals \cup {"challenge"})

FastifyState == Reads(<<"polyfill", "cookie", "row">>)

FastifyChallenge == Reads(<<"polyfill", "cookie", "row">>)

\* Bug: the port forgot the limiter.
FastifyBoundRegistrationUnlimited ==
  Proves(<<"polyfill", "cookie", "body">>, "registration", 400, Noted \cup Reports)

FastifyBoundRegistration ==
  Proves(<<"polyfill", "limit", "cookie", "body">>, "registration", 400,
         Noted \cup Reports)

FastifyBoundRefresh ==
  Proves(<<"polyfill", "cookie", "limit", "body">>, "refresh", 401,
         Noted \cup Steals)

FastifyBoundProof == <<"binding", "proof">>

FastifyGuard == Reads(<<"tier">> \o FastifyBoundProof)

FastifyRoutes ==
  [registration |-> FastifyRegistration, refresh |-> FastifyRefresh,
   state |-> FastifyState, challenge |-> FastifyChallenge,
   boundRegistration |-> FastifyBoundRegistration,
   boundRefresh |-> FastifyBoundRefresh, guarded |-> FastifyGuard]

-----------------------------------------------------------------------------
NodeRegistration ==
  Proves(<<"limit", "regCookies">>, "registration", 400, Noted \cup Reports)

\* Bug: the port forgot session_stolen.
NodeRefreshQuiet ==
  Proves(<<"idOrBound", "limit", "signed">>, "refresh", 403,
         Noted \cup Reports \cup {"challenge"})

NodeRefresh ==
  Proves(<<"idOrBound", "limit", "signed">>, "refresh", 403,
         Noted \cup Steals \cup {"challenge"})

NodeState == Reads(<<"polyfill", "cookie", "row">>)

NodeChallenge == Reads(<<"polyfill", "cookie", "row">>)

NodeBoundRegistration ==
  Proves(<<"polyfill", "limit", "cookie", "body">>, "registration", 400,
         Noted \cup Reports)

NodeBoundRefresh ==
  Proves(<<"polyfill", "cookie", "limit", "body">>, "refresh", 401,
         Noted \cup Steals)

NodeGuard == Reads(<<"binding", "proof">>)

NodeRoutes ==
  [registration |-> NodeRegistration, refresh |-> NodeRefresh,
   state |-> NodeState, challenge |-> NodeChallenge,
   boundRegistration |-> NodeBoundRegistration,
   boundRefresh |-> NodeBoundRefresh, guarded |-> NodeGuard]

KoaGuard == Reads(<<"binding", "proof">>)

KoaRoutes == [NodeRoutes EXCEPT !.guarded = KoaGuard]

NestGuard == Reads(<<"binding", "proof">>)

NestRoutes == [ExpressRoutes EXCEPT !.guarded = NestGuard]

-----------------------------------------------------------------------------
\* cookies.delete is not told the attributes of the cookie.
NextRegistration ==
  [Proves(<<"regCookies", "limit">>, "registration", 400, Noted)
     EXCEPT !.clears = FALSE]

NextRefresh ==
  [Proves(<<"idOrBound", "limit", "signed">>, "refresh", 403,
          Noted \cup Steals \cup {"challenge"}) EXCEPT !.clears = FALSE]

NextState == Reads(<<"polyfill", "cookie", "row">>)

NextChallenge == Reads(<<"polyfill", "cookie", "row">>)

NextBoundRegistration ==
  Proves(<<"polyfill", "limit", "cookie", "body">>, "registration", 400,
         Noted \cup Reports)

NextBoundRefresh ==
  Proves(<<"polyfill", "cookie", "limit", "body">>, "refresh", 401,
         Noted \cup Steals)

NextBoundProof == <<"binding", "proof">>

NextGuard == Reads(<<"tier">> \o NextBoundProof)

NextRoutes ==
  [registration |-> NextRegistration, refresh |-> NextRefresh,
   state |-> NextState, challenge |-> NextChallenge,
   boundRegistration |-> NextBoundRegistration,
   boundRefresh |-> NextBoundRefresh, guarded |-> NextGuard]

-----------------------------------------------------------------------------
SvelteRegistration ==
  Proves(<<"regCookies", "limit">>, "registration", 400, Noted \cup Reports)

SvelteRefresh ==
  Proves(<<"idOrBound", "limit", "signed">>, "refresh", 403,
         Noted \cup Steals \cup {"challenge"})

SvelteState == Reads(<<"polyfill", "cookie", "row">>)

SvelteChallenge == Reads(<<"polyfill", "cookie", "row">>)

SvelteBoundRegistration ==
  Proves(<<"polyfill", "limit", "cookie", "body">>, "registration", 400,
         Noted \cup Reports)

SvelteBoundRefresh ==
  Proves(<<"polyfill", "cookie", "limit", "body">>, "refresh", 401,
         Noted \cup Steals)

SvelteGuard == Reads(<<"binding", "proof">>)

SvelteRoutes ==
  [registration |-> SvelteRegistration, refresh |-> SvelteRefresh,
   state |-> SvelteState, challenge |-> SvelteChallenge,
   boundRegistration |-> SvelteBoundRegistration,
   boundRefresh |-> SvelteBoundRefresh, guarded |-> SvelteGuard]

-----------------------------------------------------------------------------
\* The plugin has no rate limiter and no guard.
BetterAuthRegistration ==
  [Proves(<<"regCookies">>, "registration", 400, Reports) EXCEPT !.legacy = FALSE]

BetterAuthRefresh ==
  Proves(<<"idOrAny", "signed">>, "refresh", 403, Steals \cup {"challenge"})

BetterAuthState == Reads(<<"polyfill", "cookie", "row">>)

BetterAuthChallenge == Reads(<<"polyfill", "cookie", "row">>)

BetterAuthBoundRegistration ==
  Proves(<<"polyfill", "cookie", "body">>, "registration", 400, Reports)

BetterAuthBoundRefresh ==
  Proves(<<"polyfill", "cookie", "body">>, "refresh", 401, Steals)

BetterAuthRoutes ==
  [registration |-> BetterAuthRegistration, refresh |-> BetterAuthRefresh,
   state |-> BetterAuthState, challenge |-> BetterAuthChallenge,
   boundRegistration |-> BetterAuthBoundRegistration,
   boundRefresh |-> BetterAuthBoundRefresh]

Tables ==
  [express |-> ExpressRoutes, hono |-> HonoRoutes, fastify |-> FastifyRoutes,
   node |-> NodeRoutes, koa |-> KoaRoutes, nestjs |-> NestRoutes,
   nextjs |-> NextRoutes, sveltekit |-> SvelteRoutes,
   betterAuth |-> BetterAuthRoutes]

-----------------------------------------------------------------------------
(***************************************************************************)
(* What an adapter does beside its routes.  autoBinds: the middleware      *)
(* starts a session for a browser with neither cookie.  revokes: revoke()  *)
(* removes the bound cookie, surely or maybe ("weakly": without the        *)
(* attributes it was set with); the plugin has none.  warns: on which      *)
(* requests it looks for a missing polyfill key.                           *)
(***************************************************************************)
ExpressMiddleware == [autoBinds |-> TRUE, revokes |-> "surely", warns |-> "always"]

HonoMiddleware == [autoBinds |-> TRUE, revokes |-> "surely", warns |-> "always"]

FastifyMiddleware == [autoBinds |-> TRUE, revokes |-> "surely", warns |-> "always"]

NodeMiddleware == [autoBinds |-> TRUE, revokes |-> "surely", warns |-> "always"]

\* getDbscSession returns before the event where the row is stale, and clears
\* the cookie only where the caller passed a response.
NextMiddleware == [autoBinds |-> TRUE, revokes |-> "weakly", warns |-> "fresh"]

SvelteMiddleware == [autoBinds |-> FALSE, revokes |-> "weakly", warns |-> "always"]

BetterAuthMiddleware == [autoBinds |-> FALSE, revokes |-> "never", warns |-> "never"]

Middleware ==
  [express |-> ExpressMiddleware, hono |-> HonoMiddleware,
   fastify |-> FastifyMiddleware, node |-> NodeMiddleware, koa |-> NodeMiddleware,
   nestjs |-> ExpressMiddleware, nextjs |-> NextMiddleware,
   sveltekit |-> SvelteMiddleware, betterAuth |-> BetterAuthMiddleware]

\* The cookies bindSession sets beside reg and challenge, and whether a row it
\* creates counts as just refreshed.  The plugin does both, after a login.
ExpressBind == [cookie |-> FALSE, fresh |-> FALSE]

HonoBind == [cookie |-> FALSE, fresh |-> FALSE]

FastifyBind == [cookie |-> FALSE, fresh |-> FALSE]

NodeBind == [cookie |-> FALSE, fresh |-> FALSE]

NextBind == [cookie |-> FALSE, fresh |-> FALSE]

SvelteBind == [cookie |-> FALSE, fresh |-> FALSE]

BetterAuthBind == [cookie |-> TRUE, fresh |-> TRUE]

Binds ==
  [express |-> ExpressBind, hono |-> HonoBind, fastify |-> FastifyBind,
   node |-> NodeBind, koa |-> NodeBind, nestjs |-> ExpressBind,
   nextjs |-> NextBind, sveltekit |-> SvelteBind, betterAuth |-> BetterAuthBind]
=============================================================================
