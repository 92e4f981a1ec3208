----------------------------- MODULE ClientSdk ------------------------------
(***************************************************************************)
(* The browser side of the polyfill (src/client): the tabs of one browser, *)
(* which share two cookies and one IndexedDB record, against the routes    *)
(* they call.                                                              *)
(*                                                                         *)
(* A tab runs two kinds of call: initBoundDbsc, and the refresh that its   *)
(* timer starts.  Both are cut at every fetch and every IndexedDB          *)
(* transaction.  The server's registration is cut between its test for an  *)
(* existing key and its two writes, because two tabs, or a tab that polls, *)
(* can be in between; its other routes are one step each (DbscServer has   *)
(* them in full).  A challenge is identified with the session it was       *)
(* issued to.  A transaction of IndexedDB succeeds, a tab runs one         *)
(* initBoundDbsc and one refresh at a time, and only the browser of the    *)
(* session holds its cookies.                                              *)
(***************************************************************************)
EXTENDS Naturals, FiniteSets

CONSTANTS
  Tabs,
  SessionIds,
  Keys,           \* BOUND: key pairs that something still remembers
  Null,
  MaxPolls,       \* BOUND: nativeProbeWindowMs / pollIntervalMs
  MaxPosts,       \* BOUND: registration POSTs in flight at once
  MaxFailures     \* BOUND: requests and answers lost, pages left halfway

Optional(S) == S \cup {Null}

ASSUME ClientAssumption ==
  /\ MaxPolls \in Nat /\ MaxPosts \in Nat /\ MaxFailures \in Nat
  /\ Null \notin SessionIds /\ Null \notin Keys

VARIABLES
  reg, bound,     \* the registration cookie and the bound cookie
  record,         \* the key record in IndexedDB
  call,           \* the two calls of each tab
  armed,          \* the tab has a refresh timer running
  posts,          \* the server's handlers of registration POSTs
  server,         \* per session: its row, its keys
  failures,
  \* History:
  stored,         \* keys the server stored for a session
  troubled        \* something was lost, logged out, reloaded or overlapped

browser == <<reg, bound, record>>
vars == <<reg, bound, record, call, armed, posts, server, failures,
          stored, troubled>>

-----------------------------------------------------------------------------
Record == [sid : SessionIds, key : Keys]

\* What /dbsc-bound/state answers; the last three are `phase: "bound"` with the
\* tier it reports.
Phases == {"unbound", "needs-registration", "needs-bound-registration",
           "dbsc", "bound", "none"}

Calls == Tabs \X {"init", "refresh"}

CallState ==
  [pc : {"idle", "fetch", "sync", "write", "decide", "drop", "send",
         "await", "store", "challenge", "sign"},
   stage : {"first", "fresh", "poll", "native", "last", "final",
            "after", "ok", "failed"},
   phase : Phases,               \* the answer of /state
   sid : Optional(SessionIds),   \* the session of that answer or challenge
   rec : Optional(Record),       \* local copy of the record
   key : Optional(Keys),         \* the key pair just made
   polls : 0..MaxPolls]

Idle ==
  [pc |-> "idle", stage |-> "first", phase |-> "unbound", sid |-> Null,
   rec |-> Null, key |-> Null, polls |-> 0]

\* sid is the cookie the POST carried, owner the session of its challenge.
Post ==
  [step : {"check", "write", "promote", "ok", "refused"},
   sid : Optional(SessionIds), owner : Optional(SessionIds), key : Keys]

\* `seen` stays when the row goes: a session id is not used twice.
ServerState ==
  [live : BOOLEAN, seen : BOOLEAN, native : BOOLEAN, key : Optional(Keys),
   tier : {"dbsc", "bound", "none"}]

Unseen ==
  [live |-> FALSE, seen |-> FALSE, native |-> FALSE, key |-> Null, tier |-> "none"]

TypeOK ==
  /\ reg \in Optional(SessionIds) /\ bound \in Optional(SessionIds)
  /\ record \in Optional(Record)
  /\ call \in [Calls -> CallState]
  /\ armed \in [Tabs -> BOOLEAN]
  /\ posts \in SUBSET Post
  /\ server \in [SessionIds -> ServerState]
  /\ failures \in 0..MaxFailures
  /\ stored \in [SessionIds -> SUBSET Keys]
  /\ troubled \in BOOLEAN

Init ==
  /\ reg = Null /\ bound = Null
  /\ record = Null
  /\ call = [c \in Calls |-> Idle]
  /\ armed = [t \in Tabs |-> FALSE]
  /\ posts = {}
  /\ server = [s \in SessionIds |-> Unseen]
  /\ failures = 0
  /\ stored = [s \in SessionIds |-> {}]
  /\ troubled = FALSE

-----------------------------------------------------------------------------
\* The routes.

\* readBoundSessionId: the bound cookie wins over the registration cookie.
CookieSession == IF bound # Null THEN bound ELSE reg

LoggedIn == CookieSession # Null /\ server[CookieSession].live

\* Bug: a native key alone is bound.
StateAnswerNative ==
  IF ~LoggedIn THEN "unbound"
  ELSE LET row == server[CookieSession] IN
       IF row.native THEN "dbsc"
       ELSE IF row.key = Null THEN "needs-registration" ELSE row.tier

\* GET /dbsc-bound/state.  A native key is authoritative for the tier.
StateAnswer ==
  IF ~LoggedIn THEN "unbound"
  ELSE LET row == server[CookieSession] IN
       IF row.key = Null
       THEN IF row.native THEN "needs-bound-registration" ELSE "needs-registration"
       ELSE IF row.native THEN "dbsc" ELSE row.tier

\* A polyfill proof sets the tier, unless the session holds a native key.
BoundTier(row) == IF row.native THEN row.tier ELSE "bound"

\* POST /dbsc-bound/registration: cookie, challenge and existing key are looked
\* at, then the key is written, then the tier.
Continue(p, step) == posts' = (posts \ {p}) \cup {[p EXCEPT !.step = step]}

\* Bug: the owner of the challenge is not compared.
PostCheckAnyOwner(p) ==
  /\ p.step = "check"
  /\ IF p.sid # Null /\ server[p.sid].key = Null
     THEN Continue(p, "write") ELSE Continue(p, "refused")
  /\ UNCHANGED <<browser, call, armed, server, failures, stored, troubled>>

PostCheck(p) ==
  /\ p.step = "check"
  /\ IF p.sid # Null /\ p.owner = p.sid /\ server[p.sid].key = Null
     THEN Continue(p, "write") ELSE Continue(p, "refused")
  /\ UNCHANGED <<browser, call, armed, server, failures, stored, troubled>>

PostWrite(p) ==
  /\ p.step = "write"
  /\ server' = [server EXCEPT ![p.sid].key = p.key]
  /\ stored' = [stored EXCEPT ![p.sid] = @ \cup {p.key}]
  /\ Continue(p, "promote")
  /\ UNCHANGED <<browser, call, armed, failures, troubled>>

PostPromote(p) ==
  /\ p.step = "promote"
  /\ server' = [server EXCEPT ![p.sid].tier =
                  IF server[p.sid].live THEN BoundTier(server[p.sid]) ELSE @]
  /\ Continue(p, "ok")
  /\ UNCHANGED <<browser, call, armed, failures, stored, troubled>>

\* The answer to a page that is gone; the browser may still take its cookie.
PostDropped(p) ==
  /\ p.step \in {"ok", "refused"}
  /\ \A t \in Tabs : call[<<t, "init">>].key # p.key
  /\ posts' = posts \ {p}
  /\ bound' \in IF p.step = "ok" THEN {bound, p.sid} ELSE {bound}
  /\ UNCHANGED <<reg, record, call, armed, server, failures, stored, troubled>>

-----------------------------------------------------------------------------
\* Steps of both calls.

\* The call c goes on at `step`, with what `changed` says of its locals.
Goto(c, step) == call' = [call EXCEPT ![c].pc = step]

Return(c) == call' = [call EXCEPT ![c] = Idle]

\* A request or its answer is lost, or nobody is left to take it.
Lose ==
  /\ failures < MaxFailures
  /\ failures' = failures + 1
  /\ troubled' = TRUE

NothingLost == UNCHANGED <<failures, troubled>>

\* recordServerTime: read the record ...
SyncRead(c) ==
  /\ call[c].pc = "sync"
  /\ \/ Goto(c, "decide")            \* no record, or the offset is the same
     \/ /\ record # Null
        /\ call' = [call EXCEPT ![c].pc = "write", ![c].rec = record]
  /\ UNCHANGED <<browser, armed, posts, server, stored>> /\ NothingLost

\* ... and write it back, with the new offset.
SyncWrite(c) ==
  /\ call[c].pc = "write"
  /\ record' = call[c].rec
  /\ call' = [call EXCEPT ![c].pc = "decide", ![c].rec = Null]
  /\ UNCHANGED <<reg, bound, armed, posts, server, stored>> /\ NothingLost

-----------------------------------------------------------------------------
\* initBoundDbsc.

Arm(t) == armed' = [armed EXCEPT ![t] = TRUE]

\* A page load, or the call after a login.
Load(t) ==
  LET c == <<t, "init">> IN
  /\ call[c].pc = "idle"
  /\ Goto(c, "fetch")
  /\ troubled' = (troubled \/ \E u \in Tabs \ {t} : call[<<u, "init">>].pc # "idle")
  /\ UNCHANGED <<browser, armed, posts, server, failures, stored>>

FetchState(t) ==
  LET c == <<t, "init">> IN
  /\ call[c].pc = "fetch"
  /\ \/ /\ call' = [call EXCEPT ![c].pc = "sync", ![c].phase = StateAnswer,
                                ![c].sid = IF LoggedIn THEN CookieSession ELSE Null]
        /\ NothingLost
     \/ Return(c) /\ Lose
  /\ UNCHANGED <<browser, armed, posts, server, stored>>

\* The answer is in, and it belongs to this stage of the call.
Answered(t, stages, phases) ==
  LET c == <<t, "init">> IN
  /\ call[c].pc = "decide"
  /\ call[c].stage \in stages /\ call[c].phase \in phases
  /\ NothingLost

\* No session: forget the key (the poll loop does not).
DecideUnbound(t) ==
  /\ Answered(t, {"first", "poll"}, {"unbound"})
  /\ record' = IF call[<<t, "init">>].stage = "first" THEN Null ELSE record
  /\ Return(<<t, "init">>)
  /\ UNCHANGED <<reg, bound, armed, posts, server, stored>>

\* Nothing to do; the last answer of a mismatch is taken as bound, whatever it is.
DecideDone(t) ==
  /\ \/ Answered(t, {"first", "fresh", "poll"}, {"dbsc"})
     \/ Answered(t, {"fresh"}, {"unbound", "bound", "none"})
  /\ Return(<<t, "init">>)
  /\ UNCHANGED <<browser, armed, posts, server, stored>>

\* The server says bound: does this browser hold the key?
CompareRecord(t) ==
  LET c == <<t, "init">> IN
  /\ Answered(t, {"first"}, {"bound", "none"})
  /\ IF record # Null /\ record.sid = call[c].sid
     THEN Arm(t) /\ Return(c)
     ELSE /\ call' = [call EXCEPT ![c] = [Idle EXCEPT !.pc = "drop"]]
          /\ UNCHANGED armed
  /\ UNCHANGED <<browser, posts, server, stored>>

\* It does not: clear, and ask again.
DropRecord(t) ==
  LET c == <<t, "init">> IN
  /\ call[c].pc = "drop"
  /\ record' = Null
  /\ call' = [call EXCEPT ![c].pc = "fetch", ![c].stage = "fresh"]
  /\ UNCHANGED <<reg, bound, armed, posts, server, stored>> /\ NothingLost

\* Another tab has registered during the probe window.
DecidePolledBound(t) ==
  /\ Answered(t, {"poll"}, {"bound"})
  /\ Arm(t) /\ Return(<<t, "init">>)
  /\ UNCHANGED <<browser, posts, server, stored>>

\* Bug: the deadline is set anew by every answer.
DecidePollForever(t) ==
  LET c == <<t, "init">> IN
  /\ \/ Answered(t, {"first", "poll"}, {"needs-registration"})
     \/ Answered(t, {"poll"}, {"none"})
  /\ call' = [call EXCEPT ![c].pc = "fetch", ![c].stage = "poll"]
  /\ UNCHANGED <<browser, armed, posts, server, stored>>

\* Bug: one poll too many.
DecidePollOnceMore(t) ==
  LET c == <<t, "init">> IN
  /\ \/ Answered(t, {"first", "poll"}, {"needs-registration"})
     \/ Answered(t, {"poll"}, {"none"})
  /\ call[c].polls <= MaxPolls
  /\ call' = [call EXCEPT ![c].pc = "fetch", ![c].stage = "poll",
                          ![c].polls = @ + 1]
  /\ UNCHANGED <<browser, armed, posts, server, stored>>

\* Wait for the native registration, within the probe window.
DecidePoll(t) ==
  LET c == <<t, "init">> IN
  /\ \/ Answered(t, {"first", "poll"}, {"needs-registration"})
     \/ Answered(t, {"poll"}, {"none"})
  /\ call[c].polls < MaxPolls
  /\ call' = [call EXCEPT ![c].pc = "fetch", ![c].stage = "poll",
                          ![c].polls = @ + 1]
  /\ UNCHANGED <<browser, armed, posts, server, stored>>

\* The window has passed on a session that has a key and no tier (demoted, or
\* between the two writes of another registration): resolved as unbound.
DecideDemoted(t) ==
  /\ Answered(t, {"poll"}, {"none"})
  /\ Return(<<t, "init">>)
  /\ UNCHANGED <<browser, armed, posts, server, stored>>

\* Register: beside a native key, after a mismatch, or when Chrome refused or
\* the window has passed; `stage` says what follows.  runRegistration clears the
\* record before anything else.
DecideRegister(t) ==
  LET c == <<t, "init">>
      Then(stage) ==
        call' = [call EXCEPT ![c] = [Idle EXCEPT !.pc = "send", !.stage = stage,
                                                 !.sid = call[c].sid]]
  IN
  /\ \/ Answered(t, {"first", "fresh", "poll"}, {"needs-bound-registration"})
        /\ Then("native")
     \/ Answered(t, {"fresh"}, {"needs-registration"}) /\ Then("last")
     \/ Answered(t, {"first", "poll"}, {"needs-registration"}) /\ Then("final")
  /\ record' = Null
  /\ UNCHANGED <<reg, bound, armed, posts, server, stored>>

\* The registration is over: look at the state once more, arm the timer, or
\* leave it to the native refreshes.
DecideRegistered(t) ==
  LET c == <<t, "init">> IN
  /\ call[c].pc = "decide"
  /\ \/ /\ call[c].stage = "final" /\ UNCHANGED armed
        /\ call' = [call EXCEPT ![c].pc = "fetch", ![c].stage = "after"]
     \/ call[c].stage = "last" /\ Arm(t) /\ Return(c)
     \/ call[c].stage = "native" /\ UNCHANGED armed /\ Return(c)
  /\ UNCHANGED <<browser, posts, server, stored>> /\ NothingLost

DecideAfter(t) ==
  /\ Answered(t, {"after"}, Phases)
  /\ IF call[<<t, "init">>].phase \in {"dbsc", "bound", "none"}
     THEN Arm(t) ELSE UNCHANGED armed
  /\ Return(<<t, "init">>)
  /\ UNCHANGED <<browser, posts, server, stored>>

-----------------------------------------------------------------------------
\* runRegistration.

\* A key pair that nothing remembers is as good as a new one.
Fresh(k) ==
  /\ k \in Keys
  /\ record # Null => record.key # k
  /\ \A s \in SessionIds : server[s].key # k
  /\ \A p \in posts : p.key # k
  /\ \A c \in Calls : call[c].key # k /\ (call[c].rec # Null => call[c].rec.key # k)

\* generateKey, sign, POST.
Send(t, k) ==
  LET c == <<t, "init">> IN
  /\ call[c].pc = "send"
  /\ Cardinality(posts) < MaxPosts
  /\ Fresh(k)
  /\ call' = [call EXCEPT ![c].pc = "await", ![c].key = k]
  /\ posts' = posts \cup {[step |-> "check", sid |-> CookieSession,
                           owner |-> call[c].sid, key |-> k]}
  /\ stored' = [s \in SessionIds |-> stored[s] \ {k}]
  /\ UNCHANGED <<reg, bound, armed, server>> /\ NothingLost

AFreshKey == CHOOSE k \in Keys : Fresh(k)

\* Bug: the key is kept before the server has answered.
SendAndStore(t) ==
  /\ Send(t, AFreshKey)
  /\ record' = [sid |-> call[<<t, "init">>].sid, key |-> AFreshKey]

SendRegistration(t) == Send(t, AFreshKey) /\ UNCHANGED record

SendLost(t) ==
  /\ call[<<t, "init">>].pc = "send"
  /\ Return(<<t, "init">>) /\ Lose
  /\ UNCHANGED <<browser, armed, posts, server, stored>>

\* Accepted, refused, or the answer is lost: the last two are thrown and end
\* the call, with the record already cleared.
Answer(t) ==
  LET c == <<t, "init">> IN
  /\ call[c].pc = "await"
  /\ \E p \in posts :
       /\ p.key = call[c].key /\ p.step \in {"ok", "refused"}
       /\ \/ /\ p.step = "ok"
             /\ bound' = p.sid
             /\ Goto(c, "store") /\ NothingLost
          \/ /\ p.step = "refused"
             /\ Return(c) /\ NothingLost /\ UNCHANGED bound
          \/ Return(c) /\ Lose /\ UNCHANGED bound
       /\ posts' = posts \ {p}
  /\ UNCHANGED <<reg, record, armed, server, stored>>

\* Bug: the key is kept for the session of the cookie.
StoreUnderCookie(t) ==
  LET c == <<t, "init">> IN
  /\ call[c].pc = "store"
  /\ CookieSession # Null
  /\ record' = [sid |-> CookieSession, key |-> call[c].key]
  /\ call' = [call EXCEPT ![c].pc = "sync", ![c].key = Null, ![c].sid = Null]
  /\ UNCHANGED <<reg, bound, armed, posts, server, stored>> /\ NothingLost

StoreRecord(t) ==
  LET c == <<t, "init">> IN
  /\ call[c].pc = "store"
  /\ record' = [sid |-> call[c].sid, key |-> call[c].key]
  /\ call' = [call EXCEPT ![c].pc = "sync", ![c].key = Null, ![c].sid = Null]
  /\ UNCHANGED <<reg, bound, armed, posts, server, stored>> /\ NothingLost

Initialise(t) ==
  \/ FetchState(t) \/ SyncRead(<<t, "init">>) \/ SyncWrite(<<t, "init">>)
  \/ DecideUnbound(t) \/ DecideDone(t)
  \/ CompareRecord(t) \/ DropRecord(t)
  \/ DecidePolledBound(t) \/ DecidePoll(t) \/ DecideDemoted(t)
  \/ DecideRegister(t) \/ SendRegistration(t)
  \/ SendLost(t) \/ Answer(t) \/ StoreRecord(t) \/ DecideRegistered(t) \/ DecideAfter(t)

-----------------------------------------------------------------------------
\* scheduleRefresh and runRefresh.

\* The timer fires.  Without a record the refresh fails, and stops the timer.
Fire(t) ==
  LET c == <<t, "refresh">> IN
  /\ armed[t] /\ call[c].pc = "idle"
  /\ armed' = [armed EXCEPT ![t] = FALSE]
  /\ IF record = Null THEN UNCHANGED call
     ELSE call' = [call EXCEPT ![c].pc = "challenge", ![c].rec = record]
  /\ UNCHANGED <<browser, posts, server, stored>> /\ NothingLost

FetchChallenge(t) ==
  LET c == <<t, "refresh">> IN
  /\ call[c].pc = "challenge"
  /\ \/ /\ LoggedIn
        /\ call' = [call EXCEPT ![c].pc = "sign", ![c].sid = CookieSession]
        /\ NothingLost
     \/ ~LoggedIn /\ Return(c) /\ NothingLost
     \/ Return(c) /\ Lose
  /\ UNCHANGED <<browser, armed, posts, server, stored>>

\* What POST /dbsc-bound/refresh finds: the challenge is the session's, and the
\* signature is by its key, or by another one.
Refreshes(c, s) ==
  s # Null /\ call[c].sid = s /\ call[c].rec.key = server[s].key

WrongKey(c, s) ==
  /\ s # Null /\ call[c].sid = s
  /\ server[s].key # Null /\ call[c].rec.key # server[s].key

\* The answer of the refresh, or none.
RefreshAnswered(c, stage) ==
  \/ /\ call' = [call EXCEPT ![c] = [Idle EXCEPT !.pc = "sync", !.stage = stage]]
     /\ NothingLost
  \/ Return(c) /\ Lose

RefreshAccepted(t) ==
  LET c == <<t, "refresh">>
      s == CookieSession IN
  /\ call[c].pc = "sign" /\ Refreshes(c, s)
  /\ server' = [server EXCEPT ![s].tier =
                  IF server[s].live THEN BoundTier(server[s]) ELSE @]
  /\ RefreshAnswered(c, "ok")
  /\ bound' = IF call'[c].pc = "sync" THEN s ELSE bound
  /\ UNCHANGED <<reg, record, armed, posts, stored>>

\* Demotes the session, and raises session_stolen.
RefreshMismatch(t) ==
  LET c == <<t, "refresh">>
      s == CookieSession IN
  /\ call[c].pc = "sign" /\ WrongKey(c, s)
  /\ server' = [server EXCEPT ![s].tier = "none"]
  /\ RefreshAnswered(c, "failed")
  /\ UNCHANGED <<browser, armed, posts, stored>>

\* No session or key, another session's challenge, an expired one, or a clock
\* that is out of the window; or the request never arrives.
RefreshRefused(t) ==
  LET c == <<t, "refresh">> IN
  /\ call[c].pc = "sign"
  /\ RefreshAnswered(c, "failed")
  /\ UNCHANGED <<browser, armed, posts, server, stored>>

\* Only a refresh that succeeded sets the next timer.
RefreshDone(t) ==
  LET c == <<t, "refresh">> IN
  /\ call[c].pc = "decide"
  /\ IF call[c].stage = "ok" THEN Arm(t) ELSE UNCHANGED armed
  /\ Return(c)
  /\ UNCHANGED <<browser, posts, server, stored>> /\ NothingLost

Refresh(t) ==
  \/ Fire(t) \/ FetchChallenge(t)
  \/ RefreshAccepted(t) \/ RefreshMismatch(t) \/ RefreshRefused(t)
  \/ SyncRead(<<t, "refresh">>) \/ SyncWrite(<<t, "refresh">>) \/ RefreshDone(t)

-----------------------------------------------------------------------------
\* The user, the application, the browser.

\* bindSession: a new row, and the registration cookie.  The bound cookie of
\* an earlier session stays.
Login(s) ==
  /\ ~server[s].seen
  /\ server' = [server EXCEPT ![s] = [@ EXCEPT !.live = TRUE, !.seen = TRUE]]
  /\ reg' = s
  /\ troubled' = (troubled \/ reg # Null)
  /\ UNCHANGED <<bound, record, call, armed, posts, failures, stored>>

\* The native registration or refresh of the browser.
Native ==
  /\ reg # Null /\ server[reg].live
  /\ server' = [server EXCEPT ![reg].native = TRUE, ![reg].tier = "dbsc"]
  /\ bound' = reg
  /\ UNCHANGED <<reg, record, call, armed, posts, failures, stored, troubled>>

\* revoke() on the bound cookie's session: row and keys go, the cookie too.
Logout ==
  /\ bound # Null
  /\ server' = [server EXCEPT ![bound] = [Unseen EXCEPT !.seen = TRUE]]
  /\ bound' = Null
  /\ troubled' = TRUE
  /\ UNCHANGED <<reg, record, call, armed, posts, failures, stored>>

\* clearBoundKey, "on logout".  A refresh that failed while another timer
\* was set has dropped its handle, and it cannot be cleared.
ClearBoundKey(t) ==
  /\ ~LoggedIn
  /\ record' = Null
  /\ \E running \in {FALSE, armed[t]} : armed' = [armed EXCEPT ![t] = running]
  /\ UNCHANGED <<reg, bound, call, posts, server, stored>> /\ NothingLost

StopBoundDbsc(t) ==
  /\ armed[t]
  /\ armed' = [armed EXCEPT ![t] = FALSE]
  /\ UNCHANGED <<browser, call, posts, server, stored>> /\ NothingLost

CookieExpires ==
  /\ bound # Null
  /\ bound' = Null
  /\ UNCHANGED <<reg, record, call, armed, posts, server, failures, stored, troubled>>

\* The page goes away in the middle of everything; its POST does not.
Close(t) ==
  /\ \E kind \in {"init", "refresh"} : call[<<t, kind>>].pc # "idle"
  /\ call' = [call EXCEPT ![<<t, "init">>] = Idle, ![<<t, "refresh">>] = Idle]
  /\ armed' = [armed EXCEPT ![t] = FALSE]
  /\ Lose
  /\ UNCHANGED <<browser, posts, server, stored>>

Server == \E p \in posts : PostCheck(p) \/ PostWrite(p) \/ PostPromote(p) \/ PostDropped(p)

Next ==
  \/ \E t \in Tabs :
       Load(t) \/ Initialise(t) \/ Refresh(t) \/ ClearBoundKey(t) \/ StopBoundDbsc(t) \/ Close(t)
  \/ Server
  \/ \E s \in SessionIds : Login(s)
  \/ Native \/ Logout \/ CookieExpires

\* A fetch is answered or fails at some time, a transaction completes, the
\* server's handlers run, a tab that is idle is loaded again.
Fairness ==
  /\ \A t \in Tabs :
       WF_vars(Load(t)) /\ WF_vars(Initialise(t)) /\ WF_vars(Refresh(t))
  /\ WF_vars(Server)

SafetySpec == Init /\ [][Next]_vars

Spec == SafetySpec /\ Fairness

-----------------------------------------------------------------------------
\* Properties.

\* The record never names a key that the server did not take for that session,
\* whatever answers are lost and whichever tab writes a copy back.
RecordRegistered ==
  record # Null => record.key \in stored[record.sid]

\* An honest browser is taken for a thief only if it signs for another session
\* than the record's, or the server accepted two keys for one session.
AlarmExplained ==
  \A t \in Tabs :
    LET c == <<t, "refresh">> IN
    call[c].pc = "sign" /\ WrongKey(c, CookieSession) =>
      \/ call[c].rec.sid # CookieSession
      \/ \E k, l \in stored[CookieSession] : k # l

\* docs/telemetry.md of session_stolen: "someone has the cookie but not the
\* device key".  Nobody but the browser of the session acts here.
AlarmMeansTheft ==
  \A t \in Tabs :
    LET c == <<t, "refresh">> IN
    ~(call[c].pc = "sign" /\ WrongKey(c, CookieSession))

\* Every call of initBoundDbsc resolves ("every exit path resolves to one of
\* these").
Resolves ==
  \A t \in Tabs : call[<<t, "init">>].pc # "idle" ~> call[<<t, "init">>].pc = "idle"

HoldsKey ==
  /\ record # Null
  /\ record.sid = CookieSession
  /\ record.key = server[CookieSession].key

\* After a login the browser ends up with the key the server has for it, as
\* long as nothing is lost and the pages come one after the other.
BindsWhenCalm == []~troubled => [](LoggedIn => <>HoldsKey)

\* docs/polyfill.md of a key that does not match: "clear it and retry
\* registration", and of a failure: "the next page load will re-run the init flow
\* and re-bind if appropriate".  Failures are finitely many.
Rebinds ==
  <>[](LoggedIn /\ ~server[CookieSession].native) => []<>HoldsKey
=============================================================================
