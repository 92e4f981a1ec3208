------------------------- MODULE ReplayGuardProofs -------------------------
(***************************************************************************)
(* The replay cache keeps its promise for every window, every number of    *)
(* requests and every set of proofs.                                       *)
(***************************************************************************)
EXTENDS ReplayGuard, TLAPS

\* A guard past its timestamp check found its proof inside the window.
InFlightInv ==
  \A r \in Requests : req[r].pc # "idle" =>
    /\ req[r].proof \in Proofs
    /\ req[r].at <= Stamp[req[r].proof] + Window
    /\ Stamp[req[r].proof] - Window <= req[r].at
    /\ req[r].at <= now

\* An accepted proof was inside the window, and holds its cache key for Ttl.
RecordInv ==
  \A p \in Proofs : acceptedAt[p] # Null =>
    /\ Stamp[p] - Window <= acceptedAt[p]
    /\ acceptedAt[p] <= now
    /\ \/ cache[ReplayKeyOf[p]] # Null /\ acceptedAt[p] + Ttl <= cache[ReplayKeyOf[p]]
       \/ cache[ReplayKeyOf[p]] = Null /\ acceptedAt[p] + Ttl <= now

GuardInv == TypeOK /\ InFlightInv /\ RecordInv /\ OnlyAcceptedRecorded

\* Idle is a request state, and numbers are never Null.
LEMMA IdleTyped == Idle \in RequestState /\ 0 \in Time /\ Ttl \in Nat
  BY TimeAssumption, NullAssumption DEF Idle, RequestState, Time, Optional, Ttl

\* Initially no guard is in flight and nothing was accepted.
LEMMA GuardInit == Init => GuardInv
<1> SUFFICES ASSUME Init PROVE GuardInv
  OBVIOUS
<1>1. TypeOK
  BY IdleTyped DEF Init, TypeOK, Optional
<1>2. InFlightInv
  BY DEF Init, InFlightInv, Idle
<1>3. RecordInv /\ OnlyAcceptedRecorded
  BY ProofAssumption DEF Init, RecordInv, OnlyAcceptedRecorded
<1> QED
  BY <1>1, <1>2, <1>3 DEF GuardInv

\* Steps that touch one request only: it was inside the window when it was
\* checked, or goes back to idle.
LEMMA RequestStep ==
  ASSUME GuardInv, NEW r \in Requests, NEW state \in RequestState,
         UNCHANGED <<now, cache, acceptedAt>>, boundKey' = boundKey,
         req' = [req EXCEPT ![r] = state],
         state.pc # "idle" =>
           /\ state.proof \in Proofs
           /\ state.at <= Stamp[state.proof] + Window
           /\ Stamp[state.proof] - Window <= state.at
           /\ state.at <= now
  PROVE  GuardInv'
<1>1. TypeOK'
  BY DEF GuardInv, TypeOK
<1>2. InFlightInv'
  BY DEF GuardInv, TypeOK, InFlightInv
<1>3. RecordInv' /\ OnlyAcceptedRecorded'
  BY DEF GuardInv, RecordInv, OnlyAcceptedRecorded
<1> QED
  BY <1>1, <1>2, <1>3 DEF GuardInv

\* A guard that ends disturbs nothing.
LEMMA FinishStep ==
  ASSUME GuardInv, NEW r \in Requests, Finish(r),
         UNCHANGED <<now, boundKey, cache, acceptedAt>>
  PROVE  GuardInv'
<1>1. req' = [req EXCEPT ![r] = Idle] /\ Idle.pc = "idle"
  BY DEF Finish, Idle
<1> QED
  BY <1>1, IdleTyped, RequestStep

\* The timestamp check puts the proof of the request inside the window.
LEMMA CheckStep ==
  ASSUME GuardInv, NEW r \in Requests, NEW p \in Proofs,
         CheckProof(r, p) \/ CheckDpop(r, p)
  PROVE  GuardInv'
<1> DEFINE state(pc) == [pc |-> pc, proof |-> p, at |-> now]
<1>1. PICK pc \in {"readKey", "record"} : req' = [req EXCEPT ![r] = state(pc)]
  BY DEF CheckProof, CheckDpop
<1>2. state(pc) \in RequestState
  BY DEF GuardInv, TypeOK, RequestState, Optional
<1>3. InWindow(p) /\ UNCHANGED <<now, boundKey, cache, acceptedAt>>
  BY DEF CheckProof, CheckDpop
<1>4. /\ state(pc).proof \in Proofs
      /\ state(pc).at <= Stamp[p] + Window
      /\ Stamp[p] - Window <= state(pc).at
      /\ state(pc).at <= now
  BY <1>3, ProofAssumption, TimeAssumption DEF InWindow, GuardInv, TypeOK, Time
<1> HIDE DEF state
<1>5. state(pc).proof = p
  BY DEF state
<1> QED
  BY <1>1, <1>2, <1>3, <1>4, <1>5, RequestStep

\* Reading the key moves the request on, or ends it.
LEMMA ReadKeyStep ==
  ASSUME GuardInv, NEW r \in Requests, ReadKey(r)
  PROVE  GuardInv'
<1>1. CASE Finish(r)
  BY <1>1, FinishStep DEF ReadKey
<1>2. CASE req' = [req EXCEPT ![r].pc = "record"]
  <2> DEFINE state == [req[r] EXCEPT !.pc = "record"]
  <2>1. req[r] \in RequestState /\ req[r].pc # "idle"
    BY DEF GuardInv, TypeOK, ReadKey
  <2>2. state \in RequestState /\ state.proof = req[r].proof /\ state.at = req[r].at
    BY <2>1 DEF RequestState
  <2>3. req' = [req EXCEPT ![r] = state]
    BY <1>2
  <2>4. /\ req[r].proof \in Proofs
        /\ req[r].at <= Stamp[req[r].proof] + Window
        /\ Stamp[req[r].proof] - Window <= req[r].at
        /\ req[r].at <= now
    BY <2>1 DEF GuardInv, InFlightInv
  <2>5. UNCHANGED <<now, boundKey, cache, acceptedAt>>
    BY DEF ReadKey
  <2> HIDE DEF state
  <2> QED
    BY <2>2, <2>3, <2>4, <2>5, RequestStep
<1> QED
  BY <1>1, <1>2 DEF ReadKey

\* Admitting a proof records it for Ttl from now; the proofs that held the key
\* before had let it go, so their time was over.
LEMMA AdmitStep ==
  ASSUME GuardInv, NEW r \in Requests, Admit(r)
  PROVE  GuardInv'
<1> DEFINE p == req[r].proof
           c == ReplayKeyOf[p]
<1>1. /\ p \in Proofs /\ c \in CacheKeys
      /\ Stamp[p] - Window <= req[r].at /\ req[r].at <= now
      /\ req[r].at \in Int /\ Stamp[p] \in Int /\ now \in Time /\ now \in Nat
  <2>1. p \in Proofs /\ Stamp[p] - Window <= req[r].at /\ req[r].at <= now
    BY DEF GuardInv, InFlightInv, Admit
  <2>2. req[r] \in RequestState /\ now \in Time
    BY DEF GuardInv, TypeOK
  <2>3. req[r].at \in Int /\ now \in Nat
    BY <2>2 DEF RequestState, Time
  <2> QED
    BY <2>1, <2>2, <2>3, ProofAssumption
<1>2. /\ cache[c] = Null
      /\ cache' = [cache EXCEPT ![c] = now + Ttl]
      /\ acceptedAt' = [acceptedAt EXCEPT ![p] = now]
      /\ req' = [req EXCEPT ![r] = Idle]
      /\ UNCHANGED <<now, boundKey>>
  BY DEF Admit, RecordKey, Finish
<1>3. now + Ttl \in Nat /\ now + Ttl # Null /\ now # Null /\ now <= now + Ttl
  BY <1>1, IdleTyped, NullAssumption
<1> HIDE DEF p, c
<1>4. TypeOK'
  BY <1>1, <1>2, <1>3, IdleTyped DEF GuardInv, TypeOK, Optional
<1>5. InFlightInv'
  BY <1>2 DEF GuardInv, TypeOK, InFlightInv, Idle
<1>6. RecordInv'
  <2> SUFFICES ASSUME NEW q \in Proofs, acceptedAt'[q] # Null
               PROVE  /\ Stamp[q] - Window <= acceptedAt'[q]
                      /\ acceptedAt'[q] <= now'
                      /\ \/ /\ cache'[ReplayKeyOf[q]] # Null
                            /\ acceptedAt'[q] + Ttl <= cache'[ReplayKeyOf[q]]
                         \/ /\ cache'[ReplayKeyOf[q]] = Null
                            /\ acceptedAt'[q] + Ttl <= now'
    BY DEF RecordInv
  <2>0. ReplayKeyOf[q] \in CacheKeys /\ Stamp[q] \in Int /\ ReplayKeyOf[p] = c
    BY ProofAssumption DEF c
  <2>1. CASE q = p
    <3>1. acceptedAt'[q] = now /\ cache'[ReplayKeyOf[q]] = now + Ttl
      BY <1>1, <1>2, <2>0, <2>1 DEF GuardInv, TypeOK
    <3>2. Stamp[q] - Window <= now
      BY <1>1, <2>1, TimeAssumption
    <3> QED
      BY <1>1, <1>2, <1>3, <3>1, <3>2
  <2>2. CASE q # p
    <3>1. acceptedAt'[q] = acceptedAt[q] /\ acceptedAt[q] # Null
      BY <1>2, <2>2 DEF GuardInv, TypeOK
    <3>2. acceptedAt[q] \in Nat
      BY <3>1 DEF GuardInv, TypeOK, Optional, Time
    <3>3. CASE ReplayKeyOf[q] = c
      <4>1. cache'[ReplayKeyOf[q]] = now + Ttl
        BY <1>1, <1>2, <3>3 DEF GuardInv, TypeOK
      <4>2. Stamp[q] - Window <= acceptedAt[q] /\ acceptedAt[q] <= now
        BY <3>1 DEF GuardInv, RecordInv
      <4>3. acceptedAt[q] + Ttl <= now + Ttl
        BY <4>2, <3>2, <1>1, IdleTyped
      <4> QED
        BY <1>2, <1>3, <3>1, <4>1, <4>2, <4>3
    <3>4. CASE ReplayKeyOf[q] # c
      <4>1. cache'[ReplayKeyOf[q]] = cache[ReplayKeyOf[q]]
        BY <1>2, <2>0, <3>4 DEF GuardInv, TypeOK
      <4> QED
        BY <1>2, <3>1, <4>1 DEF GuardInv, RecordInv
    <3> QED
      BY <3>3, <3>4
  <2> QED
    BY <2>1, <2>2
<1>7. OnlyAcceptedRecorded'
  <2> SUFFICES ASSUME NEW d \in CacheKeys, cache'[d] # Null
               PROVE  \E q \in Proofs : /\ ReplayKeyOf[q] = d
                                        /\ acceptedAt'[q] # Null
                                        /\ cache'[d] = acceptedAt'[q] + Ttl
    BY DEF OnlyAcceptedRecorded
  <2>1. CASE d = c
    <3>1. acceptedAt'[p] = now /\ cache'[d] = now + Ttl /\ ReplayKeyOf[p] = d
      BY <1>1, <1>2, <2>1 DEF GuardInv, TypeOK, c
    <3> QED
      BY <1>1, <1>3, <3>1
  <2>2. CASE d # c
    <3>1. cache'[d] = cache[d]
      BY <1>2, <2>2 DEF GuardInv, TypeOK
    <3>2. PICK q \in Proofs : /\ ReplayKeyOf[q] = d /\ acceptedAt[q] # Null
                              /\ cache[d] = acceptedAt[q] + Ttl
      BY <3>1 DEF GuardInv, OnlyAcceptedRecorded
    <3>3. acceptedAt'[q] = acceptedAt[q]
      BY <1>2, <2>2, <3>2 DEF GuardInv, TypeOK, c
    <3> QED
      BY <3>1, <3>2, <3>3
  <2> QED
    BY <2>1, <2>2
<1> QED
  BY <1>4, <1>5, <1>6, <1>7 DEF GuardInv

\* An entry leaves the cache no earlier than Ttl after its acceptance.
LEMMA ExpireStep ==
  ASSUME GuardInv, NEW c \in CacheKeys, Expire(c)
  PROVE  GuardInv'
<1>1. /\ cache[c] # Null /\ now >= cache[c]
      /\ cache' = [cache EXCEPT ![c] = Null]
      /\ UNCHANGED <<now, boundKey, req, acceptedAt>>
  BY DEF Expire
<1>2. TypeOK'
  BY <1>1 DEF GuardInv, TypeOK, Optional
<1>3. InFlightInv'
  BY <1>1 DEF GuardInv, InFlightInv
<1>4. RecordInv'
  <2> SUFFICES ASSUME NEW p \in Proofs, acceptedAt[p] # Null
               PROVE  /\ Stamp[p] - Window <= acceptedAt[p]
                      /\ acceptedAt[p] <= now
                      /\ \/ /\ cache'[ReplayKeyOf[p]] # Null
                            /\ acceptedAt[p] + Ttl <= cache'[ReplayKeyOf[p]]
                         \/ /\ cache'[ReplayKeyOf[p]] = Null
                            /\ acceptedAt[p] + Ttl <= now
    BY <1>1 DEF RecordInv
  <2>1. ReplayKeyOf[p] \in CacheKeys
    BY ProofAssumption
  <2>2. CASE ReplayKeyOf[p] = c
    <3>1. acceptedAt[p] + Ttl <= cache[c]
      BY <1>1, <2>2 DEF GuardInv, RecordInv
    <3>2. acceptedAt[p] \in Nat /\ cache[c] \in Nat /\ now \in Nat
      BY <1>1 DEF GuardInv, TypeOK, Optional, Time
    <3>3. acceptedAt[p] + Ttl <= now
      BY <1>1, <3>1, <3>2, IdleTyped
    <3>4. cache'[ReplayKeyOf[p]] = Null
      BY <1>1, <2>2 DEF GuardInv, TypeOK
    <3> QED
      BY <3>3, <3>4 DEF GuardInv, RecordInv
  <2>3. CASE ReplayKeyOf[p] # c
    <3>1. cache'[ReplayKeyOf[p]] = cache[ReplayKeyOf[p]]
      BY <1>1, <2>1, <2>3 DEF GuardInv, TypeOK
    <3> QED
      BY <3>1 DEF GuardInv, RecordInv
  <2> QED
    BY <2>2, <2>3
<1>5. OnlyAcceptedRecorded'
  BY <1>1 DEF GuardInv, TypeOK, OnlyAcceptedRecorded
<1> QED
  BY <1>2, <1>3, <1>4, <1>5 DEF GuardInv

\* Time passing only makes the bounds looser.
LEMMA TickStep ==
  ASSUME GuardInv, Tick
  PROVE  GuardInv'
<1>1. /\ now \in Nat /\ now' = now + 1 /\ now' \in Time
      /\ UNCHANGED <<boundKey, cache, req, acceptedAt>>
  BY TimeAssumption DEF GuardInv, TypeOK, Time, Tick
<1>2. TypeOK'
  BY <1>1 DEF GuardInv, TypeOK
<1>3. InFlightInv'
  <2>1. \A r \in Requests : req[r].at \in Nat
    BY DEF GuardInv, TypeOK, RequestState, Time
  <2> QED
    BY <1>1, <2>1 DEF GuardInv, InFlightInv
<1>4. RecordInv'
  <2>1. \A p \in Proofs : acceptedAt[p] # Null => acceptedAt[p] + Ttl \in Nat /\ acceptedAt[p] \in Nat
    BY IdleTyped DEF GuardInv, TypeOK, Optional, Time
  <2> QED
    BY <1>1, <2>1 DEF GuardInv, RecordInv
<1>5. OnlyAcceptedRecorded'
  BY <1>1 DEF GuardInv, OnlyAcceptedRecorded
<1> QED
  BY <1>2, <1>3, <1>4, <1>5 DEF GuardInv

\* Registration and revocation of the polyfill key.
LEMMA KeyStep ==
  ASSUME GuardInv, DropKey \/ \E k \in Keys : StoreKey(k)
  PROVE  GuardInv'
<1>1. boundKey' \in Optional(Keys) /\ UNCHANGED <<now, cache, req, acceptedAt>>
  BY DEF DropKey, StoreKey, Optional
<1> QED
  BY <1>1 DEF GuardInv, TypeOK, InFlightInv, RecordInv, OnlyAcceptedRecorded

\* After a restart nothing is in flight, recorded or remembered.
LEMMA RestartStep ==
  ASSUME GuardInv, Restart
  PROVE  GuardInv'
<1>1. TypeOK'
  BY IdleTyped DEF Restart, GuardInv, TypeOK, Optional
<1>2. InFlightInv'
  BY DEF Restart, InFlightInv, Idle
<1>3. RecordInv' /\ OnlyAcceptedRecorded'
  BY ProofAssumption DEF Restart, RecordInv, OnlyAcceptedRecorded
<1> QED
  BY <1>1, <1>2, <1>3 DEF GuardInv

\* Every step of the guards preserves the invariant.
LEMMA GuardNext == GuardInv /\ [Next]_vars => GuardInv'
<1> SUFFICES ASSUME GuardInv, [Next]_vars PROVE GuardInv'
  OBVIOUS
<1>1. ASSUME NEW r \in Requests, NEW p \in Proofs, CheckProof(r, p) \/ CheckDpop(r, p)
      PROVE  GuardInv'
  BY <1>1, CheckStep
<1>2. ASSUME NEW r \in Requests, ReadKey(r) PROVE GuardInv'
  BY <1>2, ReadKeyStep
<1>3. ASSUME NEW r \in Requests, Admit(r) PROVE GuardInv'
  BY <1>3, AdmitStep
<1>4. ASSUME NEW r \in Requests, Refuse(r) \/ Abort(r) PROVE GuardInv'
  BY <1>4, FinishStep DEF Refuse, Abort
<1>5. ASSUME NEW c \in CacheKeys, Expire(c) PROVE GuardInv'
  BY <1>5, ExpireStep
<1>6. CASE DropKey \/ \E k \in Keys : StoreKey(k)
  BY <1>6, KeyStep
<1>7. CASE Tick
  BY <1>7, TickStep
<1>8. CASE Restart
  BY <1>8, RestartStep
<1>9. CASE UNCHANGED vars
  BY <1>9 DEF vars, GuardInv, TypeOK, InFlightInv, RecordInv, OnlyAcceptedRecorded
<1> QED
  BY <1>1, <1>2, <1>3, <1>4, <1>5, <1>6, <1>7, <1>8, <1>9 DEF Next

\* The inductive invariant of the guards.
THEOREM GuardInvariant == Spec => []GuardInv
<1>1. Init => GuardInv
  BY GuardInit
<1>2. GuardInv /\ [Next]_vars => GuardInv'
  BY GuardNext
<1> QED
  BY <1>1, <1>2, PTL DEF Spec

\* Every cache entry is a time, and a guard in flight has a proof at hand.
THEOREM TypeCorrect == Spec => []TypeOK
<1>1. GuardInv => TypeOK
  BY DEF GuardInv
<1> QED
  BY <1>1, GuardInvariant, PTL

\* Only a proof that verified and was admitted holds a replay key: garbage never
\* makes a legitimate proof look like a replay.
THEOREM OnlyAcceptedRecordedHolds == Spec => []OnlyAcceptedRecorded
<1>1. GuardInv => OnlyAcceptedRecorded
  BY DEF GuardInv
<1> QED
  BY <1>1, GuardInvariant, PTL

\* The bound on replays: the entry lived until Ttl after the first acceptance,
\* and the second guard checked the timestamp before the window closed.
THEOREM ReplayNeedsDelayHolds == Spec => ReplayNeedsDelay
<1> DEFINE Bound(r) ==
      LET p == req[r].proof IN
      Admits(r) /\ acceptedAt[p] # Null =>
        now - req[r].at >= acceptedAt[p] - (Stamp[p] - Window)
<1>1. ASSUME GuardInv, NEW r \in Requests
      PROVE  Bound(r)
  <2> SUFFICES ASSUME Admits(r), acceptedAt[req[r].proof] # Null
               PROVE  now - req[r].at >=
                        acceptedAt[req[r].proof] - (Stamp[req[r].proof] - Window)
    OBVIOUS
  <2> DEFINE p == req[r].proof
  <2>1. p \in Proofs /\ req[r].at <= Stamp[p] + Window
    BY <1>1 DEF Admits, GuardInv, InFlightInv
  <2>2. acceptedAt[p] + Ttl <= now
    BY <1>1, <2>1 DEF Admits, GuardInv, RecordInv
  <2>3. /\ acceptedAt[p] \in Int /\ now \in Int /\ req[r].at \in Int
        /\ Stamp[p] \in Int /\ Window \in Int
    BY <1>1, <2>1, ProofAssumption, TimeAssumption
    DEF GuardInv, TypeOK, RequestState, Optional, Time
  <2> HIDE DEF p
  <2>4. now - req[r].at >= acceptedAt[p] - (Stamp[p] - Window)
    BY <2>1, <2>2, <2>3 DEF Ttl
  <2> QED
    BY <2>4 DEF p
<1>2. GuardInv => \A r \in Requests : Bound(r)
  BY <1>1
<1> QED
  BY <1>2, GuardInvariant, PTL DEF ReplayNeedsDelay
=============================================================================
