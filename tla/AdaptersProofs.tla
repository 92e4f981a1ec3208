--------------------------- MODULE AdaptersProofs ---------------------------
(***************************************************************************)
(* The invariants of Adapters, for every number of requests in the middle  *)
(* of a check.  RouteProofs says what a request is answered; here are the  *)
(* states in which it can be made, and what follows for each property.     *)
(***************************************************************************)
EXTENDS Adapters, RouteProofs

\* The adapter and its options are fixed.
OptionsInv == adapter \in Adapters /\ polyfill \in BOOLEAN

LEMMA OptionsStep ==
  ASSUME OptionsInv, [Next]_vars
  PROVE  OptionsInv'
<1>1. CASE UNCHANGED <<adapter, polyfill>>
  BY <1>1 DEF OptionsInv
<1>2. CASE Next
  BY <1>1, <1>2 DEF Next, Request, Login, AutoBind, Revoke, RowExpires, GoesStale,
    CookieExpires, ChallengeExpires, Warn, Restart, others
<1> QED
  BY <1>1, <1>2 DEF vars

-----------------------------------------------------------------------------
\* A tier that the row claims has its key: a row is only ever given a tier with
\* the key of it, and keys are removed with their row.
Backed == Backs(row, keys)

SessionInv == Typed /\ Backed

\* What the session is in, whatever the options and the checks beside it.
LEMMA AnyAnswer ==
  ASSUME SessionInv, adapter \in Adapters, NEW q \in Offered, NEW r, r = Answer(q)
  PROVE  Leaves(r) /\ Backs(r.row, r.keys)
<1>1. PICK t : t = Table(q)
  OBVIOUS
<1>2. q \in Requests /\ q.route \in DOMAIN Tables[adapter]
  BY DEF Offered, Served
<1>3. t = Tables[adapter][q.route] /\ r = Serve(t, q)
  BY <1>1 DEF Table, Answer
<1> QED
  BY <1>2, <1>3, AnswerLeaves DEF SessionInv, Backed, Leaves

LEMMA RequestStep ==
  ASSUME SessionInv, adapter \in Adapters, NEW q \in Offered, Request(q)
  PROVE  SessionInv'
<1>1. PICK r : r = Answer(q)
  OBVIOUS
<1>2. Leaves(r) /\ Backs(r.row, r.keys)
  BY <1>1, AnyAnswer
<1>3. row' = r.row /\ keys' = r.keys /\ sdk' = r.sdk
  BY <1>1 DEF Request
<1>4. PICK left \in LeftBy(q, r) : jar' = [r.jar EXCEPT !.challenge = left]
  BY <1>1 DEF Request
<1>5. left \in Slots /\ r.jar \in Jars
  BY <1>2, <1>4 DEF LeftBy, Leaves, Jars, Slots
<1>6. jar' \in Jars
  BY <1>4, <1>5 DEF Jars
<1> QED
  BY <1>2, <1>3, <1>6 DEF SessionInv, Typed, Backed, Backs, Leaves

LEMMA BoundStep ==
  ASSUME SessionInv, adapter \in Adapters, Bound(Binds[adapter])
  PROVE  SessionInv'
<1>1. PICK b : b = Binds[adapter]
  OBVIOUS
<1>2. b.cookie \in BOOLEAN /\ b.fresh \in BOOLEAN
  <2>1. {ExpressBind, HonoBind, FastifyBind, NodeBind, NextBind, SvelteBind, BetterAuthBind}
          \subseteq [cookie : BOOLEAN, fresh : BOOLEAN]
    BY DEF ExpressBind, HonoBind, FastifyBind, NodeBind, NextBind, SvelteBind, BetterAuthBind
  <2>2. b \in {ExpressBind, HonoBind, FastifyBind, NodeBind, NextBind, SvelteBind,
               BetterAuthBind}
    BY <1>1 DEF Adapters, Binds
  <2> QED
    BY <2>1, <2>2
<1>3. /\ row' = IF row.stored THEN row
                ELSE [tier |-> "none", fresh |-> b.fresh, stored |-> TRUE]
      /\ jar' = [bound |-> jar.bound \/ b.cookie, reg |-> TRUE, challenge |-> "open"]
      /\ keys' = keys /\ sdk' = sdk
  BY <1>1 DEF Bound
<1>4. jar' \in Jars
  BY <1>2, <1>3 DEF SessionInv, Typed, Jars, Slots
<1>5. row' \in Rows /\ Backs(row', keys')
  BY <1>2, <1>3 DEF SessionInv, Typed, Backed, Backs, Rows, Tiers
<1> QED
  BY <1>3, <1>4, <1>5 DEF SessionInv, Typed, Backed, Backs

LEMMA LostStep ==
  ASSUME SessionInv, Revoke \/ RowExpires \/ GoesStale
  PROVE  SessionInv'
<1>1. NoRow \in Rows /\ Backs(NoRow, keys) /\ Backs(NoRow, {})
  BY DEF Rows, NoRow, Backs
<1>2. CASE Revoke
  <2>1. PICK left \in BOOLEAN : jar' = [jar EXCEPT !.bound = left]
    BY <1>2 DEF Revoke
  <2>2. jar' \in Jars
    BY <2>1 DEF SessionInv, Typed, Jars
  <2> QED
    BY <1>1, <1>2, <2>2 DEF Revoke, SessionInv, Typed, Backed, Backs
<1>3. CASE RowExpires
  BY <1>1, <1>3 DEF RowExpires, others, SessionInv, Typed, Backed, Backs
<1>4. CASE GoesStale
  <2>1. row' = [row EXCEPT !.fresh = FALSE] /\ row.fresh
    BY <1>4 DEF GoesStale
  <2>2. row \in [tier : Tiers, fresh : BOOLEAN, stored : {TRUE}]
    <3>1. ~NoRow.fresh
      BY DEF NoRow
    <3> QED
      BY <2>1, <3>1 DEF SessionInv, Typed, Rows
  <2>3. row' \in Rows /\ row'.tier = row.tier
    BY <2>1, <2>2 DEF Rows
  <2> QED
    BY <1>4, <2>3 DEF GoesStale, SessionInv, Typed, Backed, Backs
<1> QED
  BY <1>2, <1>3, <1>4

LEMMA ExpiryStep ==
  ASSUME SessionInv, CookieExpires \/ ChallengeExpires
  PROVE  SessionInv'
<1>1. row' = row /\ keys' = keys
  BY DEF CookieExpires, ChallengeExpires
<1>2. jar' \in Jars /\ sdk' \in Slots
  BY DEF CookieExpires, ChallengeExpires, SessionInv, Typed, Jars, Slots
<1> QED
  BY <1>1, <1>2 DEF SessionInv, Typed, Backed, Backs

LEMMA SessionStep ==
  ASSUME SessionInv, adapter \in Adapters, [Next]_vars
  PROVE  SessionInv'
<1>1. ASSUME UNCHANGED protocolVars PROVE SessionInv'
  BY <1>1 DEF protocolVars, SessionInv, Typed, Backed, Backs
<1>2. ASSUME NEW q \in Offered, Request(q) PROVE SessionInv'
  BY <1>2, RequestStep
<1>3. CASE Login \/ AutoBind
  BY <1>3, BoundStep DEF Login, AutoBind
<1>4. CASE Revoke \/ RowExpires \/ GoesStale
  BY <1>4, LostStep
<1>5. CASE CookieExpires \/ ChallengeExpires
  BY <1>5, ExpiryStep
<1>6. CASE (\E c \in Checks : Warn(c)) \/ Restart
  BY <1>1, <1>6 DEF Warn, Restart
<1>7. CASE UNCHANGED vars
  BY <1>1, <1>7 DEF vars
<1> QED
  BY <1>2, <1>3, <1>4, <1>5, <1>6, <1>7, Zenon DEF Next

-----------------------------------------------------------------------------
Active(c) == check[c] # "idle"

\* The strengthening: without `beside` one check is active at a time, and none
\* once the warning was raised.
Alone ==
  ~beside =>
    /\ \A c, d \in Checks : Active(c) /\ Active(d) => c = d
    /\ emitted => \A c \in Checks : ~Active(c)
    /\ alarms <= 1
    /\ alarms = 1 => emitted

MissingInv == MissingTypeOK /\ Alone

\* No check has begun: initially, and after a restart.
LEMMA Resting ==
  /\ [c \in Checks |-> "idle"] \in [Checks -> {"idle", "reading", "lacking"}]
  /\ 0 \in 0..2
  /\ FALSE \in BOOLEAN
OBVIOUS

\* Only a check that was begun can add to it.
LEMMA TestsStep ==
  ASSUME MissingInv, NEW c \in Checks, NEW tier, Tests(c, tier)
  PROVE  MissingInv'
<1>1. MissingTypeOK'
  BY DEF MissingInv, MissingTypeOK, Tests
<1>2. \A d \in Checks : d # c => check'[d] = check[d]
  BY DEF MissingInv, MissingTypeOK, Tests
<1>3. ASSUME ~beside' PROVE ~beside /\ ~emitted /\ \A d \in Checks : ~Active(d)
  BY <1>3 DEF Tests, Active
<1>4. Alone'
  BY <1>2, <1>3 DEF MissingInv, MissingTypeOK, Alone, Active, Tests
<1> QED
  BY <1>1, <1>4 DEF MissingInv

LEMMA ReadsKeyStep ==
  ASSUME MissingInv, NEW c \in Checks, NEW hasKey, ReadsKey(c, hasKey)
  PROVE  MissingInv'
<1>1. check' = [check EXCEPT ![c] = "idle"] \/ check' = [check EXCEPT ![c] = "lacking"]
  BY DEF ReadsKey
<1>2. MissingTypeOK'
  BY <1>1 DEF MissingInv, MissingTypeOK, ReadsKey
<1>3. \A d \in Checks : Active(d)' => Active(d)
  BY <1>1 DEF MissingInv, MissingTypeOK, Active, ReadsKey
<1>4. Alone'
  BY <1>3 DEF MissingInv, Alone, ReadsKey
<1> QED
  BY <1>2, <1>4 DEF MissingInv

LEMMA EmitsStep ==
  ASSUME MissingInv, NEW c \in Checks, Emits(c)
  PROVE  MissingInv'
<1>1. MissingTypeOK'
  BY DEF MissingInv, MissingTypeOK, Emits
<1>2. ASSUME ~beside'
      PROVE  /\ \A d \in Checks : Active(d) => d = c
             /\ alarms = 0
  BY <1>2 DEF MissingInv, MissingTypeOK, Alone, Active, Emits
<1>3. ASSUME ~beside' PROVE \A d \in Checks : ~Active(d)'
  BY <1>2, <1>3 DEF MissingInv, MissingTypeOK, Active, Emits
<1>4. Alone'
  BY <1>2, <1>3 DEF Alone, Emits
<1> QED
  BY <1>1, <1>4 DEF MissingInv

LEMMA RestartsStep ==
  ASSUME Restarts
  PROVE  MissingInv'
<1>1. MissingTypeOK'
  BY Resting DEF Restarts, MissingTypeOK
<1>2. \A c \in Checks : ~Active(c)'
  BY DEF Restarts, Active
<1>3. Alone'
  BY <1>2 DEF Restarts, Alone
<1> QED
  BY <1>1, <1>3 DEF MissingInv

\* Every step of the session, its browser and the application leaves the check
\* of the polyfill key alone, but for the warning and a restart.
LEMMA MissingStep ==
  ASSUME MissingInv, [Next]_vars
  PROVE  MissingInv'
<1>1. ASSUME UNCHANGED missingVars PROVE MissingInv'
  BY <1>1 DEF missingVars, MissingInv, MissingTypeOK, Alone, Active
<1>2. ASSUME NEW c \in Checks, Warn(c) PROVE MissingInv'
  BY <1>2, TestsStep, ReadsKeyStep, EmitsStep DEF Warn
<1>3. CASE Restart
  BY <1>3, RestartsStep DEF Restart
<1>4. CASE \E q \in Offered : Request(q)
  BY <1>1, <1>4 DEF Request, others
<1>5. CASE Login \/ AutoBind \/ Revoke
  BY <1>1, <1>5 DEF Login, AutoBind, Revoke, others
<1>6. CASE RowExpires \/ GoesStale \/ CookieExpires \/ ChallengeExpires
  BY <1>1, <1>6 DEF RowExpires, GoesStale, CookieExpires, ChallengeExpires, others
<1>7. CASE UNCHANGED vars
  BY <1>1, <1>7 DEF vars
<1> QED
  BY <1>2, <1>3, <1>4, <1>5, <1>6, <1>7, Zenon DEF Next

-----------------------------------------------------------------------------
\* An offered request, and the table that answers it.
LEMMA Asked ==
  ASSUME OptionsInv, NEW q \in Offered, NEW t, t = Table(q), NEW r, r = Answer(q)
  PROVE  /\ q \in Requests /\ q.route \in Routes /\ q.route \in DOMAIN Tables[adapter]
         /\ adapter = "betterAuth" => q.allowed
         /\ t = Tables[adapter][q.route] /\ r = Serve(t, q)
<1>1. /\ q \in Requests /\ q.route \in DOMAIN Tables[adapter]
      /\ adapter = "betterAuth" => q.allowed
  BY DEF OptionsInv, Offered, Served
<1>2. t = Tables[adapter][q.route] /\ r = Serve(t, q)
  BY DEF Table, Answer
<1> QED
  BY <1>1, <1>2, RequestFields

LEMMA AlarmAnswer ==
  ASSUME SessionInv, OptionsInv, NEW q \in Offered, NEW r, r = Answer(q)
  PROVE  /\ row.tier # "none" /\ r.row.tier = "none" => Steals \subseteq r.events
         /\ "session_stolen" \in r.events =>
              \/ r.row.tier = "none"
              \/ q.route = "boundRefresh" /\ q.proof = "skewed" /\ r.row = row
<1>1. PICK t : t = Table(q)
  OBVIOUS
<1>2. /\ q.route \in Routes /\ q.route \in DOMAIN Tables[adapter]
      /\ t = Tables[adapter][q.route] /\ r = Serve(t, q)
  BY <1>1, Asked
<1>3. CASE r.row = row /\ r.events = {}
  BY <1>3
<1>4. CASE q.route \in {"state", "challenge", "guarded"}
  BY <1>2, <1>3, <1>4, OthersQuiet DEF OptionsInv
<1>5. CASE q.route \in ProofRoutes
  <2>1. CASE Still(r)
    BY <1>3, <2>1 DEF Still
  <2>2. CASE Decided(adapter, q, t, r)
    <3>1. t.event \in {"registration", "refresh"}
      BY <2>2 DEF Decided
    <3>2. PICK h : \/ Accepting(t, h, r) /\ Accepts(h)
                   \/ /\ Rejecting(t, h, r) /\ Fails(h)
                      /\ \/ h.code # "SIGNATURE_INVALID"
                         \/ "session_stolen" \notin t.fails
                         \/ q.route = "boundRefresh" /\ q.proof = "skewed"
                   \/ Rejecting(t, h, r) /\ Demotes(h) /\ Steals \subseteq t.fails
      BY <2>2 DEF Decided
    <3>3. CASE Accepting(t, h, r) /\ Accepts(h)
      BY <3>1, <3>3 DEF Accepting, Accepts, Sound
    <3>4. CASE /\ Rejecting(t, h, r) /\ Fails(h)
               /\ \/ h.code # "SIGNATURE_INVALID"
                  \/ "session_stolen" \notin t.fails
                  \/ q.route = "boundRefresh" /\ q.proof = "skewed"
      BY <3>4 DEF Rejecting, Fails
    <3>5. CASE Rejecting(t, h, r) /\ Demotes(h) /\ Steals \subseteq t.fails
      <4>1. r.row.tier = "none" /\ h.code = "SIGNATURE_INVALID" /\ keys # {}
        BY <3>5 DEF Rejecting, Demotes
      <4>2. r.events = {e \in t.fails \ {"challenge", "recordFailure"} :
                          e = "session_stolen" =>
                            h.code = "SIGNATURE_INVALID" /\ keys # {}}
        BY <3>5 DEF Rejecting
      <4>3. Steals \subseteq r.events
        BY <3>5, <4>1, <4>2 DEF Steals
      <4> QED
        BY <4>1, <4>3
    <3> QED
      BY <3>2, <3>3, <3>4, <3>5
  <2> QED
    BY <1>2, <1>5, <2>1, <2>2, ProofsDecided DEF SessionInv, OptionsInv, Turned
<1> QED
  BY <1>2, <1>4, <1>5 DEF Routes, ProofRoutes

LEMMA AlarmHolds == SessionInv /\ OptionsInv => AlarmMatchesDemotion
<1> SUFFICES ASSUME SessionInv, OptionsInv, NEW q \in Offered, NEW r, r = Answer(q)
             PROVE  /\ row.tier # "none" /\ r.row.tier = "none" =>
                         {"session_stolen", "verification_failure"} \subseteq r.events
                    /\ "session_stolen" \in r.events =>
                         \/ r.row.tier = "none"
                         \/ q.route = "boundRefresh" /\ q.proof = "skewed" /\ r.row = row
  BY DEF AlarmMatchesDemotion
<1> QED
  BY AlarmAnswer DEF Steals

LEMMA LimiterHolds == SessionInv /\ OptionsInv => LimiterFirst
<1> SUFFICES ASSUME SessionInv, OptionsInv, adapter # "betterAuth",
                    NEW q \in Offered, NEW r, r = Answer(q), q.route \in ProofRoutes
             PROVE  /\ Touches(r) => r.asked /\ q.allowed
                    /\ r.phase = "error" => r.noted
  <2>1. ASSUME OptionsInv, NEW q \in Offered, q.route \notin {"state", "challenge", "guarded"}
        PROVE  q.route \in ProofRoutes
    BY <2>1, RequestFields DEF OptionsInv, Offered, Served, Routes, ProofRoutes
  <2> QED
    BY <2>1 DEF LimiterFirst
<1>1. PICK t : t = Table(q)
  OBVIOUS
<1>2. t = Tables[adapter][q.route] /\ r = Serve(t, q)
  BY <1>1, Asked
<1>3. CASE Turned(r)
  BY <1>3 DEF Turned, Still, Touches
<1>4. CASE Still(r) /\ Admitted(adapter, q, r)
  BY <1>4 DEF Still, Admitted
<1>5. CASE Decided(adapter, q, t, r)
  BY <1>5 DEF Decided, Admitted, Accepting, Rejecting
<1> QED
  BY <1>2, <1>3, <1>4, <1>5, ProofsDecided DEF SessionInv, OptionsInv

LEMMA GuardHolds == SessionInv /\ OptionsInv => GuardSound
<1> SUFFICES ASSUME SessionInv, OptionsInv, NEW q \in Offered, q.route = "guarded",
                    NEW r, r = Answer(q), r.status = 200
             PROVE  /\ jar.bound /\ row.stored /\ row.tier # "none" /\ row.fresh
                    /\ \/ q.proof = "good" /\ "bound" \in keys
                       \/ ~polyfill /\ row.tier = "dbsc" /\ "native" \in keys
  BY DEF GuardSound
<1>1. PICK t : t = Table(q)
  OBVIOUS
<1>2. /\ q.route \in DOMAIN Tables[adapter]
      /\ t = Tables[adapter][q.route] /\ r = Serve(t, q)
  BY <1>1, Asked
<1>3. adapter # "betterAuth" /\ t = Tables[adapter]["guarded"]
  BY <1>2, PluginRoutes
<1>4. ~GuardBars(q)
  BY <1>2, <1>3, GuardServed DEF OptionsInv
<1>5. jar.bound /\ SeenTier # "none"
  BY <1>4 DEF GuardBars
<1>6. row.stored /\ row.tier # "none" /\ row.fresh /\ SeenTier = row.tier
  BY <1>5 DEF SeenTier
<1>7. \/ q.proof = "good" /\ "bound" \in keys
      \/ SeenTier = "dbsc" /\ ~polyfill
  BY <1>4 DEF GuardBars, Relaxed
<1> QED
  BY <1>5, <1>6, <1>7 DEF SessionInv, Backed, Backs

LEMMA ReportHolds == SessionInv /\ OptionsInv => ReportBacked
<1> SUFFICES ASSUME SessionInv, OptionsInv, NEW r, r = Answer(StateRequest)
             PROVE  /\ r.tier = "dbsc" => "native" \in keys
                    /\ r.tier = "bound" => "bound" \in keys
                    /\ r.phase = "bound" <=> polyfill /\ row.stored /\ "bound" \in keys
                                               /\ (jar.bound \/ jar.reg)
                    /\ r.phase \in {"needs-registration", "needs-bound-registration"} =>
                         r.sdk = "open" /\ "bound" \notin keys
                    /\ r.tier # row.tier =>
                         \/ r.phase \in {"unbound", "needs-registration"} /\ r.tier = "none"
                         \/ /\ r.phase = "bound" /\ r.tier = "dbsc"
                            /\ adapter \in {"express", "nestjs"}
  BY DEF ReportBacked
<1>1. PICK q : q = StateRequest
  OBVIOUS
<1>2. q.route = "state"
  BY <1>1 DEF StateRequest
<1>3. PICK t : t = Tables[adapter]["state"]
  OBVIOUS
<1>4. r = Serve(t, q)
  BY <1>1, <1>2, <1>3 DEF Answer, Table
<1>5. CASE ReportBars
  <2>1. r.phase = "unbound" /\ r.tier = "none"
    BY <1>2, <1>3, <1>4, <1>5, StateServed DEF OptionsInv, Turned, Still
  <2> QED
    BY <1>5, <2>1 DEF ReportBars
<1>6. CASE ~ReportBars
  <2>1. r = Reported(t)
    BY <1>2, <1>3, <1>4, <1>6, StateServed DEF OptionsInv
  <2>2. /\ r.sdk = IF "bound" \in keys THEN sdk ELSE "open"
        /\ r.phase = IF "bound" \in keys THEN "bound"
                     ELSE IF "native" \in keys THEN "needs-bound-registration"
                     ELSE "needs-registration"
        /\ r.tier = IF "bound" \in keys
                    THEN IF t.nativeFirst /\ "native" \in keys THEN "dbsc" ELSE row.tier
                    ELSE IF "native" \in keys THEN row.tier ELSE "none"
    BY <2>1, ReportedAnswer
  <2>3. t.nativeFirst => adapter \in {"express", "nestjs"}
    BY <1>3, StateTable DEF OptionsInv
  <2>4. /\ row.tier = "dbsc" => "native" \in keys
        /\ row.tier = "bound" => "bound" \in keys
    BY DEF SessionInv, Backed, Backs
  <2> QED
    BY <1>6, <2>2, <2>3, <2>4 DEF ReportBars
<1> QED
  BY <1>5, <1>6

\* Express reads Meant(a, q) as the adapter reads q.
LEMMA MeantIsRead ==
  ASSUME NEW a, NEW q \in Requests, a = "betterAuth" => q.allowed,
         NEW m, m = Meant(a, q)
  PROVE  SameMeaning(a, q, m)
<1>1. CASE a # "betterAuth"
  BY <1>1, RequestFields DEF Meant, SameMeaning
<1>2. CASE a = "betterAuth"
  <2>1. m = [q EXCEPT !.proof = IF q.legacy THEN "none" ELSE q.proof,
                      !.id = q.id \/ jar.reg]
    BY <1>2 DEF Meant
  <2>2. /\ m.route = q.route /\ m.allowed = q.allowed /\ m.body = q.body
        /\ m.proof = IF q.legacy THEN "none" ELSE q.proof
        /\ m.id = (q.id \/ jar.reg)
    BY <2>1 DEF Requests
  <2> QED
    BY <1>2, <2>2, RequestFields DEF SameMeaning
<1> QED
  BY <1>1, <1>2

LEMMA PortsHold == SessionInv /\ OptionsInv => PortsAgree
<1> SUFFICES ASSUME SessionInv, OptionsInv, NEW q \in Offered
             PROVE  Alike(adapter, q)
  BY DEF PortsAgree
<1>1. /\ q.route \in Routes /\ q.route \in DOMAIN Tables[adapter]
  BY Asked
<1>2. PICK m : m = Meant(adapter, q)
  OBVIOUS
<1>3. SameMeaning(adapter, q, m) /\ m.route = q.route
  BY <1>2, Asked, MeantIsRead DEF SameMeaning
<1>4. PICK mine : mine = Serve(Tables[adapter][q.route], q)
  OBVIOUS
<1>5. PICK ours : ours = Serve(Tables["express"][q.route], m)
  OBVIOUS
<1>6. Agree(adapter, q, mine, ours)
  BY <1>1, <1>3, <1>4, <1>5, RoutesAgree DEF SessionInv, OptionsInv
<1>7. mine.noted \in BOOLEAN /\ ours.noted \in BOOLEAN
  BY <1>1, <1>3, <1>4, <1>5, NotedIsBoolean
<1>8. mine.noted = ours.noted \/ adapter = "betterAuth"
  BY <1>6, <1>7 DEF Agree
<1> QED
  BY <1>2, <1>4, <1>5, <1>6, <1>8 DEF Agree, Alike

-----------------------------------------------------------------------------
Inv == OptionsInv /\ SessionInv /\ MissingInv

LEMMA Initially == Init => Inv
<1> SUFFICES ASSUME Init PROVE Inv
  OBVIOUS
<1>1. OptionsInv
  BY DEF Init, OptionsInv
<1>2. SessionInv
  <2>1. NoRow \in Rows /\ NoRow.tier = "none"
    BY DEF Rows, NoRow
  <2>2. Typed
    BY <2>1 DEF Init, Typed, Jars, Slots
  <2>3. Backed
    BY <2>1 DEF Init, Backed, Backs
  <2> QED
    BY <2>2, <2>3 DEF SessionInv
<1>3. MissingTypeOK
  BY Resting DEF Init, MissingInit, MissingTypeOK
<1>4. Alone
  BY DEF Init, MissingInit, Alone, Active
<1> QED
  BY <1>1, <1>2, <1>3, <1>4 DEF Inv, MissingInv

LEMMA Inductive == Inv /\ [Next]_vars => Inv'
BY OptionsStep, SessionStep, MissingStep DEF Inv, OptionsInv

LEMMA Invariance == Spec => []Inv
BY Initially, Inductive, PTL DEF Spec

\* The session, the jar and the checks stay what they are declared to be: no
\* route, hook or expiry leaves a row, a key set or a challenge of another shape.
THEOREM TypeCorrect == Spec => []TypeOK
<1>1. Inv => TypeOK
  BY DEF Inv, OptionsInv, SessionInv, MissingInv, Typed, TypeOK
<1> QED
  BY <1>1, Invariance, PTL

\* The tier of a stored session is never ahead of its keys: "dbsc" only with a
\* native key, "bound" only with a polyfill key, across logins, expiries of the
\* row, revocations and demotions.
THEOREM TierBacked == Spec => []Backed
<1>1. Inv => Backed
  BY DEF Inv, SessionInv
<1> QED
  BY <1>1, Invariance, PTL

\* On every adapter, in every reachable state: whenever a request would cost the
\* session its tier, session_stolen and verification_failure are raised with it;
\* and a request that raises session_stolen leaves the session without a tier (it
\* may have had none, or no row, before), but for a polyfill refresh whose
\* timestamp is out of its window, which leaves the row as it was.
THEOREM AlarmRaised == Spec => []AlarmMatchesDemotion
<1>1. Inv => AlarmMatchesDemotion
  BY AlarmHolds DEF Inv
<1> QED
  BY <1>1, Invariance, PTL

\* On every adapter with a limiter, no request touches the session or raises an
\* event before the limiter let it through, and every rejected proof counts
\* against the caller.
THEOREM LimiterAsked == Spec => []LimiterFirst
<1>1. Inv => LimiterFirst
  BY LimiterHolds DEF Inv
<1> QED
  BY <1>1, Invariance, PTL

\* Whatever the state of the session, any adapter answers any request as Express
\* answers the request it was read as: the same row, keys, cookies, challenges
\* and phase, and the same status, tier and events up to what Alike names.
THEOREM PortsAlike == Spec => []PortsAgree
<1>1. Inv => PortsAgree
  BY PortsHold DEF Inv
<1> QED
  BY <1>1, Invariance, PTL

\* GET /dbsc-bound/state never claims a tier whose key is not stored, and never
\* sends a client to a registration it cannot complete; the tier it gives is the
\* row's, but "none" for a client that is not bound or has to register, and
\* "dbsc" for a session with both keys on Express and NestJS.
THEOREM ReportTrue == Spec => []ReportBacked
<1>1. Inv => ReportBacked
  BY ReportHolds DEF Inv
<1> QED
  BY <1>1, Invariance, PTL

\* A route behind requireProof is reached only with the bound cookie of a fresh,
\* undemoted session whose key is stored, and with a proof by that key unless the
\* session is native and the polyfill off.
THEOREM GuardHeld == Spec => []GuardSound
<1>1. Inv => GuardSound
  BY GuardHolds DEF Inv
<1> QED
  BY <1>1, Invariance, PTL

\* However many requests check for a missing polyfill key at once, the warning
\* is raised a second time only if one of them was begun beside another.
THEOREM WarnedOnce == Spec => []AlarmOnce
<1>1. Inv => AlarmOnce
  BY DEF Inv, MissingInv, MissingTypeOK, Alone, AlarmOnce
<1> QED
  BY <1>1, Invariance, PTL
=============================================================================
