-------------------------- MODULE ClientSdkProofs ---------------------------
(***************************************************************************)
(* The safety properties of ClientSdk for every number of tabs, sessions,  *)
(* polls, overlapping registrations and failures.                          *)
(*                                                                         *)
(* Neither property is inductive: a record is written from a copy read     *)
(* before an await, from a key whose registration was answered earlier, and*)
(* by any tab.  CallInv says what a call may rely on across an await,      *)
(* PostInv what a handler of the server has checked.                       *)
(***************************************************************************)
EXTENDS ClientSdk, TLAPS

-----------------------------------------------------------------------------
\* The inductive invariant.

\* A call x, where kept[s] are the keys stored for s and sent the POSTs.
CallInv(x, kept, sent) ==
  /\ x.phase \in {"needs-registration", "needs-bound-registration"} => x.sid # Null
  /\ x.pc \in {"send", "await", "store"} => x.sid # Null /\ x.phase = "unbound"
  /\ x.pc \in {"await", "store"} => x.key # Null
  /\ x.pc = "await" => \A p \in sent : p.key = x.key => p.owner = x.sid
  /\ x.pc = "store" => x.key \in kept[x.sid]
  /\ x.pc \in {"challenge", "sign"} => x.rec # Null
  /\ x.rec # Null => x.rec.key \in kept[x.rec.sid]

PostInv(p, kept) ==
  /\ p.step \in {"write", "promote", "ok"} => p.sid # Null /\ p.owner = p.sid
  /\ p.step \in {"promote", "ok"} => p.key \in kept[p.sid]

CallsInv == \A c \in Calls : CallInv(call[c], stored, posts)

PostsInv == \A p \in posts : PostInv(p, stored)

ServerInv ==
  \A s \in SessionIds : server[s].key # Null => server[s].key \in stored[s]

IInv == TypeOK /\ RecordRegistered /\ CallsInv /\ PostsInv /\ ServerInv

-----------------------------------------------------------------------------
\* Most steps change one call, and perhaps the record; none but PostWrite adds a
\* key to the server.

ForgetsKeys ==
  /\ server' \in [SessionIds -> ServerState]
  /\ \A s \in SessionIds : server'[s].key \in {server[s].key, Null}

CallStep(c) ==
  /\ reg' = reg /\ bound' \in Optional(SessionIds)
  /\ record' \in Optional(Record)
  /\ record' # Null => record'.key \in stored[record'.sid]
  /\ call'[c] \in CallState
  /\ call' = [call EXCEPT ![c] = call'[c]]
  /\ CallInv(call'[c], stored, posts)
  /\ armed' \in [Tabs -> BOOLEAN]
  /\ posts' \subseteq posts
  /\ server' = server \/ ForgetsKeys
  /\ stored' = stored
  /\ failures' \in 0..MaxFailures /\ troubled' \in BOOLEAN

LEMMA IdleState ==
  /\ Idle \in CallState
  /\ Idle.pc = "idle" /\ Idle.phase = "unbound" /\ Idle.rec = Null
  BY ClientAssumption DEF Idle, CallState, Phases, Optional

LEMMA InitInv == Init => IInv
<1> SUFFICES ASSUME Init PROVE IInv
  OBVIOUS
<1>1. Idle \in CallState /\ CallInv(Idle, stored, posts)
  BY IdleState DEF CallInv
<1>2. Unseen \in ServerState /\ Unseen.key = Null
  BY DEF Unseen, ServerState, Optional
<1>3. TypeOK
  <2>1. reg \in Optional(SessionIds) /\ bound \in Optional(SessionIds)
        /\ record \in Optional(Record)
    BY DEF Init, Optional
  <2>2. call \in [Calls -> CallState] /\ server \in [SessionIds -> ServerState]
    BY <1>1, <1>2 DEF Init
  <2>3. failures \in 0..MaxFailures
    BY ClientAssumption DEF Init
  <2>4. posts \in SUBSET Post /\ stored \in [SessionIds -> SUBSET Keys]
    BY DEF Init
  <2>5. armed \in [Tabs -> BOOLEAN] /\ troubled \in BOOLEAN
    BY Zenon DEF Init
  <2> QED
    BY <2>1, <2>2, <2>3, <2>4, <2>5, Zenon DEF TypeOK
<1>4. CallsInv
  BY <1>1 DEF Init, CallsInv
<1>5. RecordRegistered /\ PostsInv /\ ServerInv
  BY <1>2 DEF Init, RecordRegistered, PostsInv, ServerInv
<1> QED
  BY <1>3, <1>4, <1>5 DEF IInv

LEMMA CallStepKeeps ==
  ASSUME IInv, NEW c \in Calls, CallStep(c)
  PROVE  IInv'
<1>1. TypeOK'
  BY DEF IInv, TypeOK, CallStep, ForgetsKeys
<1>2. RecordRegistered'
  BY DEF CallStep, RecordRegistered
<1>3. CallsInv'
  <2> SUFFICES ASSUME NEW d \in Calls
               PROVE  CallInv(call[d], stored, posts)'
    BY DEF CallsInv
  <2>1. call'[d] = IF d = c THEN call'[c] ELSE call[d]
    BY DEF IInv, TypeOK, CallStep
  <2>2. CallInv(call'[d], stored, posts)
    BY <2>1 DEF IInv, CallsInv, CallStep
  <2> QED
    BY <2>2 DEF CallStep, CallInv
<1>4. PostsInv'
  BY DEF IInv, PostsInv, PostInv, CallStep
<1>5. ServerInv'
  BY DEF IInv, ServerInv, CallStep, ForgetsKeys
<1> QED
  BY <1>1, <1>2, <1>3, <1>4, <1>5 DEF IInv

LEMMA LostOrNot ==
  ASSUME IInv
  PROVE  /\ Lose => failures' \in 0..MaxFailures /\ troubled' \in BOOLEAN
         /\ NothingLost => failures' \in 0..MaxFailures /\ troubled' \in BOOLEAN
<1>1. failures \in 0..MaxFailures /\ troubled \in BOOLEAN
  BY DEF IInv, TypeOK
<1>2. Lose => failures' \in 0..MaxFailures
  BY <1>1, ClientAssumption DEF Lose
<1>3. Lose => troubled' \in BOOLEAN
  BY Zenon DEF Lose
<1>4. NothingLost => failures' = failures /\ troubled' = troubled
  BY Zenon DEF NothingLost
<1> QED
  BY <1>1, <1>2, <1>3, <1>4, Zenon

LEMMA CookieSessionType ==
  ASSUME IInv
  PROVE  CookieSession \in Optional(SessionIds)
  BY DEF IInv, TypeOK, CookieSession

-----------------------------------------------------------------------------
\* Steps of a call that keep or drop the record.

LEMMA QuietCallStep ==
  ASSUME IInv, NEW c \in Calls,
         reg' = reg, bound' \in Optional(SessionIds), record' \in {record, Null},
         call'[c] \in CallState, call' = [call EXCEPT ![c] = call'[c]],
         CallInv(call'[c], stored, posts),
         armed' \in [Tabs -> BOOLEAN], posts' \subseteq posts,
         server' = server \/ ForgetsKeys, stored' = stored, Lose \/ NothingLost
  PROVE  IInv'
<1>1. record' \in Optional(Record)
  BY DEF IInv, TypeOK, Optional
<1>2. record' # Null => record'.key \in stored[record'.sid]
  BY DEF IInv, RecordRegistered
<1> QED
  BY <1>1, <1>2, LostOrNot, CallStepKeeps DEF CallStep

LEMMA ReturnKeeps ==
  ASSUME IInv, NEW c \in Calls, Return(c)
  PROVE  /\ call'[c] \in CallState
         /\ call' = [call EXCEPT ![c] = call'[c]]
         /\ CallInv(call'[c], stored, posts)
  BY ClientAssumption
  DEF IInv, TypeOK, Return, Idle, CallState, CallInv, Phases, Optional

LEMMA ArmType ==
  ASSUME IInv, NEW t \in Tabs
  PROVE  Arm(t) => armed' \in [Tabs -> BOOLEAN]
  BY DEF IInv, TypeOK, Arm

LEMMA FetchStateKeeps ==
  ASSUME IInv, NEW t \in Tabs, FetchState(t)
  PROVE  IInv'
<1> DEFINE c == <<t, "init">>
<1>0. c \in Calls
  BY DEF Calls
<1>1. CASE Return(c) /\ Lose
  BY <1>0, <1>1, ReturnKeeps, QuietCallStep DEF FetchState, browser, IInv, TypeOK
<1>2. CASE ~(Return(c) /\ Lose)
  <2>1. /\ NothingLost
        /\ call' = [call EXCEPT ![c].pc = "sync", ![c].phase = StateAnswer,
                                ![c].sid = IF LoggedIn THEN CookieSession ELSE Null]
    BY <1>2 DEF FetchState
  <2>2. StateAnswer \in Phases /\ (StateAnswer # "unbound" => LoggedIn)
    BY CookieSessionType
    DEF StateAnswer, LoggedIn, IInv, TypeOK, ServerState, Phases, Optional
  <2>3. call[c] \in CallState /\ call[c].pc = "fetch" /\ CallInv(call[c], stored, posts)
    BY <1>0 DEF IInv, TypeOK, CallsInv, FetchState
  <2>4. call' = [call EXCEPT ![c] = call'[c]]
    BY <1>0, <2>1 DEF IInv, TypeOK
  <2>5. call'[c] = [call[c] EXCEPT !.pc = "sync", !.phase = StateAnswer,
                                   !.sid = IF LoggedIn THEN CookieSession ELSE Null]
    BY <1>0, <2>1 DEF IInv, TypeOK
  <2>6. call'[c] \in CallState /\ CallInv(call'[c], stored, posts)
    BY ZenonT(60), <2>2, <2>3, <2>5, CookieSessionType
    DEF CallState, CallInv, LoggedIn, Optional
  <2> QED
    BY <1>0, <2>1, <2>4, <2>6, QuietCallStep DEF FetchState, browser, IInv, TypeOK
<1> QED
  BY <1>1, <1>2

LEMMA SyncReadKeeps ==
  ASSUME IInv, NEW c \in Calls, SyncRead(c)
  PROVE  IInv'
<1>1. call[c] \in CallState /\ call[c].pc = "sync" /\ CallInv(call[c], stored, posts)
  BY DEF IInv, TypeOK, CallsInv, SyncRead
<1>2. call' = [call EXCEPT ![c] = call'[c]]
  BY DEF IInv, TypeOK, SyncRead, Goto
<1>3. CASE Goto(c, "decide")
  <2>1. call'[c] = [call[c] EXCEPT !.pc = "decide"]
    BY <1>3 DEF IInv, TypeOK, Goto
  <2>2. call'[c] \in CallState /\ CallInv(call'[c], stored, posts)
    BY <1>1, <2>1 DEF CallState, CallInv
  <2> QED
    BY <1>2, <2>2, QuietCallStep DEF SyncRead, browser, IInv, TypeOK
<1>4. CASE record # Null /\ call' = [call EXCEPT ![c].pc = "write", ![c].rec = record]
  <2>1. call'[c] = [call[c] EXCEPT !.pc = "write", !.rec = record]
    BY <1>4 DEF IInv, TypeOK
  <2>2. call'[c] \in CallState /\ CallInv(call'[c], stored, posts)
    BY <1>1, <1>4, <2>1 DEF CallState, CallInv, IInv, TypeOK, RecordRegistered
  <2> QED
    BY <1>2, <2>2, QuietCallStep DEF SyncRead, browser, IInv, TypeOK
<1> QED
  BY <1>3, <1>4 DEF SyncRead

\* The copy that is written back was registered when it was read.
LEMMA SyncWriteKeeps ==
  ASSUME IInv, NEW c \in Calls, SyncWrite(c)
  PROVE  IInv'
<1>1. call[c] \in CallState /\ call[c].pc = "write" /\ CallInv(call[c], stored, posts)
  BY DEF IInv, TypeOK, CallsInv, SyncWrite
<1>2. call' = [call EXCEPT ![c] = call'[c]]
  BY DEF IInv, TypeOK, SyncWrite
<1>3. call'[c] = [call[c] EXCEPT !.pc = "decide", !.rec = Null]
  BY DEF IInv, TypeOK, SyncWrite
<1>4. call'[c] \in CallState /\ CallInv(call'[c], stored, posts)
  BY <1>1, <1>3 DEF CallState, CallInv, Optional
<1>5. record' \in Optional(Record)
  BY <1>1 DEF CallState, SyncWrite
<1>6. record' # Null => record'.key \in stored[record'.sid]
  BY <1>1 DEF CallInv, SyncWrite
<1> QED
  BY <1>2, <1>4, <1>5, <1>6, LostOrNot, CallStepKeeps
  DEF CallStep, SyncWrite, IInv, TypeOK

\* Every way to leave a call.
LEMMA ReturningKeeps ==
  ASSUME IInv, NEW c \in Calls, NEW t \in Tabs, Return(c),
         reg' = reg, bound' = bound, record' \in {record, Null},
         Arm(t) \/ armed' = armed, posts' \subseteq posts,
         server' = server \/ ForgetsKeys, stored' = stored, Lose \/ NothingLost
  PROVE  IInv'
<1>1. armed' \in [Tabs -> BOOLEAN]
  BY ArmType DEF IInv, TypeOK
<1>2. bound' \in Optional(SessionIds)
  BY DEF IInv, TypeOK
<1> QED
  BY <1>1, <1>2, ReturnKeeps, QuietCallStep

\* A call goes on with new locals.
LEMMA GoingOnKeeps ==
  ASSUME IInv, NEW c \in Calls, NEW x,
         x \in CallState, CallInv(x, stored, posts), call' = [call EXCEPT ![c] = x],
         reg' = reg, bound' \in Optional(SessionIds), record' \in {record, Null},
         armed' = armed, posts' \subseteq posts,
         server' = server \/ ForgetsKeys, stored' = stored, Lose \/ NothingLost
  PROVE  IInv'
<1>1. call'[c] = x /\ call' = [call EXCEPT ![c] = call'[c]]
  BY DEF IInv, TypeOK
<1>2. armed' \in [Tabs -> BOOLEAN]
  BY DEF IInv, TypeOK
<1> QED
  BY <1>1, <1>2, QuietCallStep

LEMMA CallFacts ==
  ASSUME IInv, NEW c \in Calls
  PROVE  /\ call[c] \in CallState
         /\ CallInv(call[c], stored, posts)
  BY DEF IInv, TypeOK, CallsInv

LEMMA InitCall ==
  ASSUME NEW t \in Tabs
  PROVE  <<t, "init">> \in Calls /\ <<t, "refresh">> \in Calls
  BY DEF Calls

LEMMA DecidingReturns ==
  ASSUME IInv, NEW t \in Tabs,
         DecideUnbound(t) \/ DecideDone(t) \/ DecidePolledBound(t)
           \/ DecideDemoted(t) \/ DecideAfter(t)
  PROVE  IInv'
<1>1. Return(<<t, "init">>)
  BY DEF DecideUnbound, DecideDone, DecidePolledBound, DecideDemoted, DecideAfter
<1>2. /\ reg' = reg /\ bound' = bound /\ record' \in {record, Null}
      /\ posts' = posts /\ server' = server /\ stored' = stored
  BY DEF DecideUnbound, DecideDone, DecidePolledBound, DecideDemoted, DecideAfter, browser
<1>3. Arm(t) \/ armed' = armed
  BY DEF DecideUnbound, DecideDone, DecidePolledBound, DecideDemoted, DecideAfter, browser
<1>4. NothingLost
  BY DEF DecideUnbound, DecideDone, DecidePolledBound, DecideDemoted, DecideAfter, Answered
<1> QED
  BY <1>1, <1>2, <1>3, <1>4, InitCall, ReturningKeeps

LEMMA CompareRecordKeeps ==
  ASSUME IInv, NEW t \in Tabs, CompareRecord(t)
  PROVE  IInv'
<1> DEFINE c == <<t, "init">>
           x == [Idle EXCEPT !.pc = "drop"]
<1>1. NothingLost /\ UNCHANGED <<browser, posts, server, stored>>
  BY DEF CompareRecord, Answered
<1>2. CASE Arm(t) /\ Return(c)
  BY <1>1, <1>2, InitCall, ReturningKeeps DEF browser
<1>3. CASE call' = [call EXCEPT ![c] = x] /\ UNCHANGED armed
  <2>1. x \in CallState /\ CallInv(x, stored, posts)
    BY ClientAssumption DEF Idle, CallState, CallInv, Phases, Optional
  <2>2. bound' \in Optional(SessionIds)
    BY <1>1 DEF browser, IInv, TypeOK
  <2> QED
    BY <1>1, <1>3, <2>1, <2>2, InitCall, GoingOnKeeps DEF browser
<1> QED
  BY <1>2, <1>3 DEF CompareRecord

LEMMA DropRecordKeeps ==
  ASSUME IInv, NEW t \in Tabs, DropRecord(t)
  PROVE  IInv'
<1> DEFINE c == <<t, "init">>
           x == [call[c] EXCEPT !.pc = "fetch", !.stage = "fresh"]
<1>1. call' = [call EXCEPT ![c] = x]
  BY InitCall DEF DropRecord, IInv, TypeOK
<1>2. x \in CallState /\ CallInv(x, stored, posts)
  BY ZenonT(60), InitCall, CallFacts DEF CallState, CallInv
<1>3. bound' \in Optional(SessionIds)
  BY DEF DropRecord, IInv, TypeOK
<1> HIDE DEF x
<1> QED
  BY <1>1, <1>2, <1>3, InitCall, GoingOnKeeps DEF DropRecord

LEMMA DecidePollKeeps ==
  ASSUME IInv, NEW t \in Tabs, DecidePoll(t)
  PROVE  IInv'
<1> DEFINE c == <<t, "init">>
           x == [call[c] EXCEPT !.pc = "fetch", !.stage = "poll",
                                !.polls = call[c].polls + 1]
<1>1. call' = [call EXCEPT ![c] = x]
  BY InitCall DEF DecidePoll, IInv, TypeOK
<1>2. call[c].polls < MaxPolls /\ call[c].pc = "decide"
  BY DEF DecidePoll, Answered
<1>3. x \in CallState
  <2>1. call[c] \in CallState
    BY InitCall, CallFacts
  <2>2. call[c].polls + 1 \in 0..MaxPolls
    BY <1>2, <2>1, ClientAssumption DEF CallState
  <2> QED
    BY <2>1, <2>2 DEF CallState
<1>4. CallInv(x, stored, posts)
  BY ZenonT(60), <1>2, InitCall, CallFacts DEF CallState, CallInv
<1>5. bound' \in Optional(SessionIds) /\ NothingLost
  BY DEF DecidePoll, Answered, browser, IInv, TypeOK
<1> HIDE DEF x
<1> QED
  BY <1>1, <1>3, <1>4, <1>5, InitCall, GoingOnKeeps DEF DecidePoll, browser

\* Whoever is told to register is told the session.
LEMMA DecideRegisterKeeps ==
  ASSUME IInv, NEW t \in Tabs, DecideRegister(t)
  PROVE  IInv'
<1> DEFINE c == <<t, "init">>
<1>1. PICK stage \in {"native", "last", "final"} :
        call' = [call EXCEPT ![c] = [Idle EXCEPT !.pc = "send", !.stage = stage,
                                                 !.sid = call[c].sid]]
  BY DEF DecideRegister
<1> DEFINE x == [Idle EXCEPT !.pc = "send", !.stage = stage, !.sid = call[c].sid]
<1>2. NothingLost /\ call[c].phase \in {"needs-registration", "needs-bound-registration"}
  BY DEF DecideRegister, Answered
<1>3. call[c].sid \in SessionIds
  BY <1>2, InitCall, CallFacts DEF CallState, CallInv, Optional
<1>4. x \in CallState /\ CallInv(x, stored, posts)
  <2>1. x \in CallState
    BY <1>3, IdleState DEF CallState, Optional
  <2>2. x.pc = "send" /\ x.sid # Null /\ x.phase = "unbound" /\ x.rec = Null
    BY <1>3, IdleState, ClientAssumption DEF CallState
  <2> QED
    BY <2>1, <2>2 DEF CallInv
<1>5. bound' \in Optional(SessionIds)
  BY DEF DecideRegister, IInv, TypeOK
<1>6. call' = [call EXCEPT ![c] = x]
  BY <1>1
<1> HIDE DEF x
<1> QED
  BY <1>2, <1>4, <1>5, <1>6, InitCall, GoingOnKeeps DEF DecideRegister

LEMMA DecideRegisteredKeeps ==
  ASSUME IInv, NEW t \in Tabs, DecideRegistered(t)
  PROVE  IInv'
<1> DEFINE c == <<t, "init">>
           x == [call[c] EXCEPT !.pc = "fetch", !.stage = "after"]
<1>1. NothingLost /\ UNCHANGED <<browser, posts, server, stored>> /\ call[c].pc = "decide"
  BY DEF DecideRegistered
<1>2. CASE Return(c)
  BY <1>1, <1>2, InitCall, ReturningKeeps DEF DecideRegistered, browser
<1>3. CASE armed' = armed /\ call' = [call EXCEPT ![c].pc = "fetch", ![c].stage = "after"]
  <2>1. call' = [call EXCEPT ![c] = x]
    BY <1>3, InitCall DEF IInv, TypeOK
  <2>2. x \in CallState /\ CallInv(x, stored, posts)
    BY ZenonT(60), <1>1, InitCall, CallFacts DEF CallState, CallInv
  <2>3. bound' \in Optional(SessionIds)
    BY <1>1 DEF browser, IInv, TypeOK
  <2> HIDE DEF x
  <2> QED
    BY <1>1, <1>3, <2>1, <2>2, <2>3, InitCall, GoingOnKeeps DEF browser
<1> QED
  BY <1>2, <1>3 DEF DecideRegistered

-----------------------------------------------------------------------------
\* runRegistration.

\* Nothing that is remembered is forgotten when a key pair is made.
LEMMA SendRegistrationKeeps ==
  ASSUME IInv, NEW t \in Tabs, SendRegistration(t)
  PROVE  IInv'
<1> DEFINE c == <<t, "init">>
           k == AFreshKey
           x == [call[c] EXCEPT !.pc = "await", !.key = k]
           p == [step |-> "check", sid |-> CookieSession, owner |-> call[c].sid, key |-> k]
<1>1. /\ call[c].pc = "send" /\ Fresh(k) /\ call' = [call EXCEPT ![c] = x]
      /\ posts' = posts \cup {p} /\ stored' = [s \in SessionIds |-> stored[s] \ {k}]
      /\ UNCHANGED <<reg, bound, armed, server>> /\ NothingLost /\ record' = record
  BY InitCall DEF SendRegistration, Send, IInv, TypeOK
<1> HIDE DEF k
<1>2. k \in Keys
  BY <1>1 DEF Fresh
<1>3. call[c] \in CallState /\ CallInv(call[c], stored, posts)
  BY InitCall, CallFacts
<1>4. x \in CallState /\ p \in Post
  BY <1>2, <1>3, CookieSessionType DEF CallState, Post, Optional
<1>5. TypeOK'
  <2>1. call' \in [Calls -> CallState] /\ posts' \in SUBSET Post
        /\ stored' \in [SessionIds -> SUBSET Keys]
    BY <1>1, <1>4 DEF IInv, TypeOK
  <2>2. failures' \in 0..MaxFailures /\ troubled' \in BOOLEAN
    BY <1>1, LostOrNot
  <2> QED
    BY <1>1, <2>1, <2>2 DEF IInv, TypeOK
<1>6. RecordRegistered'
  BY <1>1 DEF IInv, TypeOK, RecordRegistered, Optional, Record, Fresh
<1>7. CallsInv'
  <2> SUFFICES ASSUME NEW d \in Calls
               PROVE  CallInv(call'[d], stored', posts')
    BY DEF CallsInv
  <2>1. CASE d = c
    <3>1. call'[d] = x
      BY <1>1, <2>1 DEF IInv, TypeOK
    <3>2. x.sid # Null /\ x.phase = "unbound" /\ x.pc = "await" /\ x.key = k /\ k # Null
      BY <1>1, <1>2, <1>3, ClientAssumption DEF CallState, CallInv
    <3>3. \A q \in posts' : q.key = k => q.owner = x.sid
      BY <1>1, <1>3 DEF Fresh, CallState
    <3>4. x.rec # Null => x.rec.key \in stored'[x.rec.sid]
      BY <1>1, <1>3, InitCall DEF Fresh, CallState, CallInv, Optional, Record
    <3> QED
      BY <3>1, <3>2, <3>3, <3>4 DEF CallInv
  <2>2. CASE d # c
    <3>1. call'[d] = call[d] /\ call[d] \in CallState /\ CallInv(call[d], stored, posts)
      BY <1>1, <2>2, CallFacts DEF IInv, TypeOK
    <3>2. call[d].key # k /\ (call[d].rec # Null => call[d].rec.key # k)
      BY <1>1 DEF Fresh
    <3>3. call[d].pc = "await" => \A q \in posts' : q.key = call[d].key => q.owner = call[d].sid
      BY <1>1, <3>1, <3>2 DEF CallInv
    <3>4. call[d].pc = "store" => call[d].key \in stored'[call[d].sid]
      BY <1>1, <3>1, <3>2 DEF CallInv, CallState, Optional
    <3>5. call[d].rec # Null => call[d].rec.key \in stored'[call[d].rec.sid]
      BY <1>1, <3>1, <3>2 DEF CallInv, CallState, Optional, Record
    <3> QED
      BY <3>1, <3>3, <3>4, <3>5 DEF CallInv
  <2> QED
    BY <2>1, <2>2
<1>8. PostsInv'
  BY <1>1 DEF IInv, TypeOK, Post, Optional, PostsInv, PostInv, Fresh
<1>9. ServerInv'
  BY <1>1 DEF IInv, ServerInv, Fresh
<1> QED
  BY <1>5, <1>6, <1>7, <1>8, <1>9 DEF IInv

LEMMA SendLostKeeps ==
  ASSUME IInv, NEW t \in Tabs, SendLost(t)
  PROVE  IInv'
  BY InitCall, ReturningKeeps DEF SendLost, browser

\* An answer that says yes is about a key that was stored.
LEMMA AnswerKeeps ==
  ASSUME IInv, NEW t \in Tabs, Answer(t)
  PROVE  IInv'
<1> DEFINE c == <<t, "init">>
           x == [call[c] EXCEPT !.pc = "store"]
<1>1. PICK p \in posts :
        /\ p.key = call[c].key
        /\ \/ p.step = "ok" /\ bound' = p.sid /\ Goto(c, "store") /\ NothingLost
           \/ Return(c) /\ (NothingLost \/ Lose) /\ UNCHANGED bound
        /\ posts' = posts \ {p}
  BY DEF Answer
<1>2. CASE Return(c) /\ (NothingLost \/ Lose) /\ UNCHANGED bound
  BY <1>1, <1>2, InitCall, ReturningKeeps DEF Answer
<1>3. CASE p.step = "ok" /\ bound' = p.sid /\ Goto(c, "store") /\ NothingLost
  <2>1. call' = [call EXCEPT ![c] = x]
    BY <1>3, InitCall DEF Goto, IInv, TypeOK
  <2>2. call[c] \in CallState /\ CallInv(call[c], stored, posts) /\ call[c].pc = "await"
    BY InitCall, CallFacts DEF Answer
  <2>3. p \in Post /\ PostInv(p, stored)
    BY DEF IInv, TypeOK, PostsInv
  <2>4. p.owner = call[c].sid
    BY <1>1, <2>2 DEF CallInv
  <2>5. call[c].key \in stored[call[c].sid]
    BY <1>1, <1>3, <2>3, <2>4 DEF PostInv
  <2>6. x \in CallState /\ CallInv(x, stored, posts)
    BY <2>2, <2>5 DEF CallState, CallInv
  <2>7. bound' \in Optional(SessionIds)
    BY <1>3, <2>3 DEF Post
  <2> HIDE DEF x
  <2> QED
    BY <1>1, <1>3, <2>1, <2>6, <2>7, InitCall, GoingOnKeeps DEF Answer
<1> QED
  BY <1>1, <1>2, <1>3

LEMMA StoreRecordKeeps ==
  ASSUME IInv, NEW t \in Tabs, StoreRecord(t)
  PROVE  IInv'
<1> DEFINE c == <<t, "init">>
           x == [call[c] EXCEPT !.pc = "sync", !.key = Null, !.sid = Null]
<1>1. c \in Calls
  BY InitCall
<1>2. call' = [call EXCEPT ![c] = call'[c]] /\ call'[c] = x
  BY <1>1 DEF StoreRecord, IInv, TypeOK
<1>3. call[c] \in CallState /\ CallInv(call[c], stored, posts) /\ call[c].pc = "store"
  BY <1>1, CallFacts DEF StoreRecord
<1>4. x \in CallState /\ CallInv(x, stored, posts)
  BY <1>3 DEF CallState, CallInv, Optional
<1>5. record' \in Optional(Record) /\ record'.key \in stored[record'.sid]
  BY <1>3 DEF StoreRecord, CallState, CallInv, Optional, Record
<1> HIDE DEF c, x
<1> QED
  BY <1>1, <1>2, <1>4, <1>5, LostOrNot, CallStepKeeps
  DEF CallStep, StoreRecord, IInv, TypeOK

-----------------------------------------------------------------------------
\* runRefresh.

LEMMA FireKeeps ==
  ASSUME IInv, NEW t \in Tabs, Fire(t)
  PROVE  IInv'
<1> DEFINE c == <<t, "refresh">>
           x == [call[c] EXCEPT !.pc = "challenge", !.rec = record]
<1>1. c \in Calls /\ armed' \in [Tabs -> BOOLEAN]
  BY InitCall DEF Fire, IInv, TypeOK
<1>2. call[c] \in CallState /\ CallInv(call[c], stored, posts) /\ call[c].pc = "idle"
  BY <1>1, CallFacts DEF Fire
<1>3. CASE record = Null
  <2>1. call' = [call EXCEPT ![c] = call'[c]] /\ call'[c] = call[c]
    BY <1>1, <1>3 DEF Fire, IInv, TypeOK
  <2> HIDE DEF c
  <2> QED
    BY <1>1, <1>2, <2>1, QuietCallStep DEF Fire, browser, IInv, TypeOK
<1>4. CASE record # Null
  <2>1. call' = [call EXCEPT ![c] = call'[c]] /\ call'[c] = x
    BY <1>1, <1>4 DEF Fire, IInv, TypeOK
  <2>2. x \in CallState /\ CallInv(x, stored, posts)
    BY <1>2, <1>4 DEF CallState, CallInv, IInv, TypeOK, RecordRegistered
  <2> HIDE DEF c, x
  <2> QED
    BY <1>1, <2>1, <2>2, QuietCallStep DEF Fire, browser, IInv, TypeOK
<1> QED
  BY <1>3, <1>4

LEMMA FetchChallengeKeeps ==
  ASSUME IInv, NEW t \in Tabs, FetchChallenge(t)
  PROVE  IInv'
<1> DEFINE c == <<t, "refresh">>
           x == [call[c] EXCEPT !.pc = "sign", !.sid = CookieSession]
<1>1. CASE Return(c) /\ (NothingLost \/ Lose)
  BY <1>1, InitCall, ReturningKeeps DEF FetchChallenge, browser
<1>2. CASE ~(Return(c) /\ (NothingLost \/ Lose))
  <2>1. LoggedIn /\ NothingLost /\ call' = [call EXCEPT ![c] = x]
    BY <1>2, InitCall DEF FetchChallenge, IInv, TypeOK
  <2>2. call[c] \in CallState /\ CallInv(call[c], stored, posts) /\ call[c].pc = "challenge"
    BY InitCall, CallFacts DEF FetchChallenge
  <2>3. x \in CallState /\ CallInv(x, stored, posts)
    BY <2>1, <2>2, CookieSessionType DEF CallState, CallInv, LoggedIn
  <2>4. bound' \in Optional(SessionIds)
    BY DEF FetchChallenge, browser, IInv, TypeOK
  <2> HIDE DEF x
  <2> QED
    BY <2>1, <2>3, <2>4, InitCall, GoingOnKeeps DEF FetchChallenge, browser
<1> QED
  BY <1>1, <1>2

\* A tier says nothing of keys.
LEMMA TierForgets ==
  ASSUME IInv, NEW s \in SessionIds, NEW tier \in {"dbsc", "bound", "none"},
         server' = [server EXCEPT ![s].tier = tier]
  PROVE  ForgetsKeys
  BY DEF IInv, TypeOK, ForgetsKeys, ServerState

LEMMA RefreshAnsweredKeeps ==
  ASSUME IInv, NEW t \in Tabs, NEW stage \in {"ok", "failed"},
         RefreshAnswered(<<t, "refresh">>, stage),
         server' = server \/ ForgetsKeys, bound' \in Optional(SessionIds),
         UNCHANGED <<reg, record, armed, posts, stored>>
  PROVE  IInv'
<1> DEFINE c == <<t, "refresh">>
           x == [Idle EXCEPT !.pc = "sync", !.stage = stage]
<1>1. CASE Return(c) /\ Lose
  <2>1. armed' \in [Tabs -> BOOLEAN]
    BY DEF IInv, TypeOK
  <2> QED
    BY <1>1, <2>1, InitCall, ReturnKeeps, QuietCallStep
<1>2. CASE call' = [call EXCEPT ![c] = x] /\ NothingLost
  <2>1. x \in CallState
    BY IdleState DEF CallState
  <2>2. x.pc = "sync" /\ x.phase = "unbound" /\ x.rec = Null
    BY IdleState DEF CallState
  <2>3. CallInv(x, stored, posts)
    BY <2>2 DEF CallInv
  <2> HIDE DEF x
  <2> QED
    BY <1>2, <2>1, <2>3, InitCall, GoingOnKeeps
<1> QED
  BY <1>1, <1>2 DEF RefreshAnswered

LEMMA RefreshAcceptedKeeps ==
  ASSUME IInv, NEW t \in Tabs, RefreshAccepted(t)
  PROVE  IInv'
<1> DEFINE s == CookieSession
<1>1. s \in SessionIds
  BY CookieSessionType DEF RefreshAccepted, Refreshes, Optional
<1>2. ForgetsKeys
  <2>1. server[s] \in ServerState
    BY <1>1 DEF IInv, TypeOK
  <2>2. (IF server[s].live THEN BoundTier(server[s]) ELSE server[s].tier)
          \in {"dbsc", "bound", "none"}
    BY <2>1 DEF ServerState, BoundTier
  <2>3. server' = [server EXCEPT ![s].tier =
                     IF server[s].live THEN BoundTier(server[s]) ELSE server[s].tier]
    BY <1>1 DEF RefreshAccepted, IInv, TypeOK
  <2> QED
    BY <1>1, <2>2, <2>3, TierForgets
<1>3. bound' \in Optional(SessionIds)
  BY <1>1 DEF RefreshAccepted, IInv, TypeOK, Optional
<1> QED
  BY <1>2, <1>3, RefreshAnsweredKeeps DEF RefreshAccepted

LEMMA RefreshMismatchKeeps ==
  ASSUME IInv, NEW t \in Tabs, RefreshMismatch(t)
  PROVE  IInv'
<1>1. CookieSession \in SessionIds
  BY CookieSessionType DEF RefreshMismatch, WrongKey, Optional
<1>2. ForgetsKeys
  BY <1>1, TierForgets DEF RefreshMismatch
<1>3. bound' \in Optional(SessionIds)
  BY DEF RefreshMismatch, browser, IInv, TypeOK
<1> QED
  BY <1>2, <1>3, RefreshAnsweredKeeps DEF RefreshMismatch, browser

LEMMA RefreshRefusedKeeps ==
  ASSUME IInv, NEW t \in Tabs, RefreshRefused(t)
  PROVE  IInv'
<1>1. bound' \in Optional(SessionIds)
  BY DEF RefreshRefused, browser, IInv, TypeOK
<1> QED
  BY <1>1, RefreshAnsweredKeeps DEF RefreshRefused, browser

LEMMA RefreshDoneKeeps ==
  ASSUME IInv, NEW t \in Tabs, RefreshDone(t)
  PROVE  IInv'
  BY InitCall, ReturningKeeps DEF RefreshDone, browser

-----------------------------------------------------------------------------
\* The server, the user, the application, the browser.

\* Steps that leave every call where it is.
LEMMA OutsideKeeps ==
  ASSUME IInv,
         reg' \in Optional(SessionIds), bound' \in Optional(SessionIds),
         record' \in {record, Null}, call' = call, armed' \in [Tabs -> BOOLEAN],
         posts' \subseteq posts, server' = server \/ ForgetsKeys, stored' = stored,
         failures' \in 0..MaxFailures, troubled' \in BOOLEAN
  PROVE  IInv'
<1>1. TypeOK'
  BY DEF IInv, TypeOK, ForgetsKeys, Optional
<1>2. RecordRegistered'
  BY DEF IInv, RecordRegistered
<1>3. CallsInv'
  BY DEF IInv, CallsInv, CallInv
<1>4. PostsInv'
  BY DEF IInv, PostsInv, PostInv
<1>5. ServerInv'
  BY DEF IInv, ServerInv, ForgetsKeys
<1> QED
  BY <1>1, <1>2, <1>3, <1>4, <1>5 DEF IInv

\* A handler of the server goes on.
LEMMA ContinueKeeps ==
  ASSUME IInv, NEW p \in posts, NEW q \in Post,
         posts' = (posts \ {p}) \cup {q},
         q.key = p.key, q.owner = p.owner, PostInv(q, stored),
         server' = server \/ ForgetsKeys,
         UNCHANGED <<browser, call, armed, failures, stored, troubled>>
  PROVE  IInv'
<1>1. TypeOK'
  BY DEF IInv, TypeOK, browser, ForgetsKeys
<1>2. CallsInv'
  BY DEF IInv, CallsInv, CallInv
<1>3. PostsInv'
  BY DEF IInv, PostsInv
<1>4. RecordRegistered' /\ ServerInv'
  BY DEF IInv, RecordRegistered, ServerInv, browser, ForgetsKeys
<1> QED
  BY <1>1, <1>2, <1>3, <1>4 DEF IInv

LEMMA PostCheckKeeps ==
  ASSUME IInv, NEW p \in posts, PostCheck(p)
  PROVE  IInv'
<1> DEFINE passed == p.sid # Null /\ p.owner = p.sid /\ server[p.sid].key = Null
           q == [p EXCEPT !.step = IF passed THEN "write" ELSE "refused"]
<1>1. p \in Post
  BY DEF IInv, TypeOK
<1>2. posts' = (posts \ {p}) \cup {q}
  BY DEF PostCheck, Continue
<1>3. q \in Post /\ q.key = p.key /\ q.owner = p.owner /\ PostInv(q, stored)
  BY <1>1 DEF Post, PostInv
<1> HIDE DEF q
<1> QED
  BY <1>2, <1>3, ContinueKeeps DEF PostCheck

LEMMA PostPromoteKeeps ==
  ASSUME IInv, NEW p \in posts, PostPromote(p)
  PROVE  IInv'
<1> DEFINE q == [p EXCEPT !.step = "ok"]
           s == p.sid
           tier == IF server[s].live THEN BoundTier(server[s]) ELSE server[s].tier
<1>1. p \in Post /\ PostInv(p, stored) /\ p.step = "promote"
  BY DEF IInv, TypeOK, PostsInv, PostPromote
<1>2. s \in SessionIds
  BY <1>1 DEF Post, PostInv, Optional
<1>3. ForgetsKeys
  <2>1. server[s] \in ServerState
    BY <1>2 DEF IInv, TypeOK
  <2>2. tier \in {"dbsc", "bound", "none"}
    BY <2>1 DEF ServerState, BoundTier
  <2>3. server' = [server EXCEPT ![s].tier = tier]
    BY <1>2 DEF PostPromote, IInv, TypeOK
  <2> HIDE DEF tier
  <2> QED
    BY <1>2, <2>2, <2>3, TierForgets
<1>4. posts' = (posts \ {p}) \cup {q}
  BY DEF PostPromote, Continue
<1>5. q \in Post /\ q.key = p.key /\ q.owner = p.owner /\ PostInv(q, stored)
  BY <1>1 DEF Post, PostInv
<1> HIDE DEF q
<1> QED
  BY <1>3, <1>4, <1>5, ContinueKeeps DEF PostPromote

LEMMA PostWriteKeeps ==
  ASSUME IInv, NEW p \in posts, PostWrite(p)
  PROVE  IInv'
<1> DEFINE q == [p EXCEPT !.step = "promote"]
           s == p.sid
<1>1. p \in Post /\ PostInv(p, stored) /\ p.step = "write"
  BY DEF IInv, TypeOK, PostsInv, PostWrite
<1>2. s \in SessionIds /\ p.key \in Keys
  BY <1>1 DEF Post, PostInv, Optional
<1>3. /\ posts' = (posts \ {p}) \cup {q}
      /\ stored' = [stored EXCEPT ![s] = @ \cup {p.key}]
      /\ UNCHANGED <<browser, call, armed, failures, troubled>>
  BY DEF PostWrite, Continue
<1>4. stored' \in [SessionIds -> SUBSET Keys] /\ p.key \in stored'[s]
      /\ \A z \in SessionIds : stored[z] \subseteq stored'[z]
  BY <1>2, <1>3 DEF IInv, TypeOK
<1>5. /\ server' \in [SessionIds -> ServerState]
      /\ server'[s].key = p.key
      /\ \A z \in SessionIds \ {s} : server'[z] = server[z]
  <2>1. server[s] \in ServerState
    BY <1>2 DEF IInv, TypeOK
  <2>2. server' = [server EXCEPT ![s] = [server[s] EXCEPT !.key = p.key]]
    BY <1>2 DEF PostWrite, IInv, TypeOK
  <2> QED
    BY <1>2, <2>1, <2>2 DEF IInv, TypeOK, ServerState, Optional
<1>6. q \in Post /\ q.key = p.key /\ q.owner = p.owner /\ PostInv(q, stored')
  BY <1>1, <1>4 DEF Post, PostInv
<1> HIDE DEF q
<1>7. TypeOK'
  BY <1>3, <1>4, <1>5, <1>6 DEF IInv, TypeOK, browser
<1>8. RecordRegistered'
  BY <1>3, <1>4 DEF IInv, TypeOK, RecordRegistered, browser, Optional, Record
<1>9. CallsInv'
  <2> SUFFICES ASSUME NEW c \in Calls
               PROVE  CallInv(call[c], stored', posts')
    BY <1>3 DEF CallsInv
  <2> QED
    BY <1>3, <1>4, <1>6, CallFacts DEF CallInv, CallState, Optional, Record
<1>10. PostsInv'
  <2> SUFFICES ASSUME NEW r \in posts'
               PROVE  PostInv(r, stored')
    BY DEF PostsInv
  <2>1. CASE r = q
    BY <1>6, <2>1
  <2>2. CASE r # q
    BY <1>3, <1>4, <2>2 DEF IInv, TypeOK, PostsInv, PostInv, Post, Optional
  <2> QED
    BY <2>1, <2>2
<1>11. ServerInv'
  BY <1>4, <1>5 DEF IInv, ServerInv
<1> QED
  BY <1>7, <1>8, <1>9, <1>10, <1>11 DEF IInv

LEMMA PostDroppedKeeps ==
  ASSUME IInv, NEW p \in posts, PostDropped(p)
  PROVE  IInv'
<1>1. p.sid \in Optional(SessionIds)
  BY DEF IInv, TypeOK, Post
<1>2. bound' \in {bound, p.sid}
  BY DEF PostDropped
<1> QED
  BY <1>1, <1>2, OutsideKeeps DEF PostDropped, IInv, TypeOK

LEMMA LoadKeeps ==
  ASSUME IInv, NEW t \in Tabs, Load(t)
  PROVE  IInv'
<1> DEFINE c == <<t, "init">>
           x == [call[c] EXCEPT !.pc = "fetch"]
<1>1. c \in Calls /\ call'[c] = x /\ call' = [call EXCEPT ![c] = call'[c]]
  BY InitCall DEF Load, Goto, IInv, TypeOK
<1>2. call[c] \in CallState /\ CallInv(call[c], stored, posts) /\ call[c].pc = "idle"
  BY <1>1, CallFacts DEF Load
<1>3. x \in CallState /\ CallInv(x, stored, posts)
  BY <1>2 DEF CallState, CallInv
<1>4. troubled' \in BOOLEAN
  <2>1. troubled \in BOOLEAN
    BY DEF IInv, TypeOK
  <2>2. troubled' = (troubled \/ \E u \in Tabs \ {t} : call[<<u, "init">>].pc # "idle")
    BY DEF Load
  <2> QED
    BY <2>1, <2>2, Zenon
<1>5. UNCHANGED <<browser, armed, posts, server, failures, stored>>
  BY DEF Load
<1> HIDE DEF c, x
<1>6. CallStep(c)
  <2>1. reg' = reg /\ bound' \in Optional(SessionIds) /\ record' \in Optional(Record)
        /\ (record' # Null => record'.key \in stored[record'.sid])
    BY <1>5 DEF browser, IInv, TypeOK, RecordRegistered
  <2>2. armed' \in [Tabs -> BOOLEAN] /\ posts' \subseteq posts /\ server' = server
        /\ stored' = stored /\ failures' \in 0..MaxFailures
    BY <1>5 DEF IInv, TypeOK
  <2> QED
    BY <1>1, <1>3, <1>4, <2>1, <2>2, Zenon DEF CallStep
<1> QED
  BY <1>1, <1>6, CallStepKeeps

LEMMA LoginKeeps ==
  ASSUME IInv, NEW s \in SessionIds, Login(s)
  PROVE  IInv'
<1>1. ForgetsKeys
  BY ZenonT(60) DEF Login, IInv, TypeOK, ForgetsKeys, ServerState
<1>2. troubled' \in BOOLEAN
  <2>1. troubled \in BOOLEAN
    BY DEF IInv, TypeOK
  <2>2. troubled' = (troubled \/ reg # Null)
    BY DEF Login
  <2> QED
    BY <2>1, <2>2, Zenon
<1>3. reg' \in Optional(SessionIds) /\ bound' \in Optional(SessionIds) /\ record' = record
      /\ call' = call /\ armed' \in [Tabs -> BOOLEAN] /\ posts' = posts
      /\ stored' = stored /\ failures' \in 0..MaxFailures
  BY DEF Login, IInv, TypeOK, Optional
<1> QED
  BY <1>1, <1>2, <1>3, OutsideKeeps

LEMMA NativeKeeps ==
  ASSUME IInv, Native
  PROVE  IInv'
<1>1. reg \in SessionIds
  BY DEF Native, IInv, TypeOK, Optional
<1>2. ForgetsKeys
  BY ZenonT(60), <1>1 DEF Native, IInv, TypeOK, ForgetsKeys, ServerState
<1> QED
  BY <1>1, <1>2, OutsideKeeps DEF Native, IInv, TypeOK, Optional

LEMMA LogoutKeeps ==
  ASSUME IInv, Logout
  PROVE  IInv'
<1>1. bound \in SessionIds
  BY DEF Logout, IInv, TypeOK, Optional
<1>2. ForgetsKeys
  BY <1>1 DEF Logout, IInv, TypeOK, ForgetsKeys, ServerState, Unseen, Optional
<1>3. troubled' \in BOOLEAN
  BY Zenon DEF Logout
<1> QED
  BY <1>2, <1>3, OutsideKeeps DEF Logout, IInv, TypeOK, Optional

LEMMA BrowserKeeps ==
  ASSUME IInv, NEW t \in Tabs, ClearBoundKey(t) \/ StopBoundDbsc(t)
  PROVE  IInv'
<1>1. armed' \in [Tabs -> BOOLEAN]
  BY DEF ClearBoundKey, StopBoundDbsc, IInv, TypeOK
<1>2. reg' = reg /\ bound' = bound /\ record' \in {record, Null} /\ call' = call
      /\ posts' = posts /\ server' = server /\ stored' = stored /\ NothingLost
  BY DEF ClearBoundKey, StopBoundDbsc, browser
<1>3. failures' \in 0..MaxFailures /\ troubled' \in BOOLEAN
  BY <1>2, LostOrNot
<1> QED
  BY <1>1, <1>2, <1>3, OutsideKeeps DEF IInv, TypeOK, Optional

LEMMA CookieExpiresKeeps ==
  ASSUME IInv, CookieExpires
  PROVE  IInv'
<1>1. failures' \in 0..MaxFailures /\ troubled' \in BOOLEAN
  BY DEF CookieExpires, IInv, TypeOK
<1> QED
  BY <1>1, OutsideKeeps DEF CookieExpires, IInv, TypeOK, Optional

LEMMA CloseKeeps ==
  ASSUME IInv, NEW t \in Tabs, Close(t)
  PROVE  IInv'
<1>1. call' \in [Calls -> CallState] /\ \A c \in Calls : call'[c] \in {call[c], Idle}
  BY InitCall, IdleState DEF Close, IInv, TypeOK
<1>2. CallsInv'
  <2> SUFFICES ASSUME NEW c \in Calls
               PROVE  CallInv(call'[c], stored', posts')
    BY DEF CallsInv
  <2>1. CASE call'[c] = call[c]
    BY <2>1, CallFacts DEF Close, CallInv
  <2>2. CASE call'[c] = Idle
    BY <2>2, IdleState DEF CallInv
  <2> QED
    BY <1>1, <2>1, <2>2
<1>3. failures' \in 0..MaxFailures /\ troubled' \in BOOLEAN
  BY LostOrNot DEF Close
<1>4. TypeOK'
  BY <1>1, <1>3 DEF Close, browser, IInv, TypeOK
<1>5. RecordRegistered' /\ PostsInv' /\ ServerInv'
  BY DEF Close, browser, IInv, RecordRegistered, PostsInv, PostInv, ServerInv
<1> QED
  BY <1>2, <1>4, <1>5 DEF IInv

-----------------------------------------------------------------------------
\* Theorems.

LEMMA NextInv ==
  ASSUME IInv, [Next]_vars
  PROVE  IInv'
<1>1. CASE UNCHANGED vars
  BY <1>1
  DEF vars, browser, IInv, TypeOK, RecordRegistered, CallsInv, CallInv,
      PostsInv, PostInv, ServerInv
<1>2. ASSUME NEW t \in Tabs, Initialise(t)
      PROVE  IInv'
  BY <1>2, InitCall, FetchStateKeeps, SyncReadKeeps, SyncWriteKeeps, DecidingReturns,
     CompareRecordKeeps, DropRecordKeeps, DecidePollKeeps, DecideRegisterKeeps,
     SendRegistrationKeeps, SendLostKeeps, AnswerKeeps, StoreRecordKeeps,
     DecideRegisteredKeeps
  DEF Initialise
<1>3. ASSUME NEW t \in Tabs, Refresh(t)
      PROVE  IInv'
  BY <1>3, InitCall, FireKeeps, FetchChallengeKeeps, RefreshAcceptedKeeps,
     RefreshMismatchKeeps, RefreshRefusedKeeps, SyncReadKeeps, SyncWriteKeeps,
     RefreshDoneKeeps
  DEF Refresh
<1>4. ASSUME NEW t \in Tabs, Load(t) \/ ClearBoundKey(t) \/ StopBoundDbsc(t) \/ Close(t)
      PROVE  IInv'
  BY <1>4, LoadKeeps, BrowserKeeps, CloseKeeps
<1>5. CASE Server
  BY <1>5, PostCheckKeeps, PostWriteKeeps, PostPromoteKeeps, PostDroppedKeeps DEF Server
<1>6. ASSUME NEW s \in SessionIds, Login(s)
      PROVE  IInv'
  BY <1>6, LoginKeeps
<1>7. CASE Native \/ Logout \/ CookieExpires
  BY <1>7, NativeKeeps, LogoutKeeps, CookieExpiresKeeps
<1> QED
  BY <1>1, <1>2, <1>3, <1>4, <1>5, <1>6, <1>7 DEF Next

LEMMA Invariance == SafetySpec => []IInv
<1>1. Init => IInv
  BY InitInv
<1>2. IInv /\ [Next]_vars => IInv'
  BY NextInv
<1> QED
  BY <1>1, <1>2, PTL DEF SafetySpec

\* Every variable keeps its type, for any number of tabs that share one record.
THEOREM ClientTypeCorrect == SafetySpec => []TypeOK
<1>1. IInv => TypeOK
  BY DEF IInv
<1> QED
  BY <1>1, Invariance, PTL

\* The key record of IndexedDB only ever holds a key that the server accepted for
\* the record's session, whichever tab wrote it last.
THEOREM RecordRegisteredHolds == SafetySpec => []RecordRegistered
<1>1. IInv => RecordRegistered
  BY DEF IInv
<1> QED
  BY <1>1, Invariance, PTL

\* An honest browser raises session_stolen only after it signed with the key of
\* another session, or when two registrations of one session were accepted.
THEOREM AlarmExplainedHolds == SafetySpec => []AlarmExplained
<1>1. ASSUME IInv PROVE AlarmExplained
  <2> SUFFICES ASSUME NEW t \in Tabs,
                      call[<<t, "refresh">>].pc = "sign",
                      WrongKey(<<t, "refresh">>, CookieSession),
                      call[<<t, "refresh">>].rec.sid = CookieSession
               PROVE  \E k, l \in stored[CookieSession] : k # l
    BY DEF AlarmExplained
  <2> DEFINE c == <<t, "refresh">>
             s == CookieSession
  <2>1. s \in SessionIds
    BY <1>1, CookieSessionType DEF WrongKey, Optional
  <2>2. call[c].rec.key \in stored[s]
    BY <1>1, InitCall, CallFacts DEF CallInv
  <2>3. server[s].key \in stored[s]
    BY <1>1, <2>1 DEF WrongKey, IInv, ServerInv
  <2>4. call[c].rec.key # server[s].key
    BY DEF WrongKey
  <2> QED
    BY <2>2, <2>3, <2>4
<1> QED
  BY <1>1, Invariance, PTL
=============================================================================
