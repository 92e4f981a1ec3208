-------------------------- MODULE StorageReturnProofs --------------------------
(***************************************************************************)
(* Proofs about the calls of StorageBackends that return: what a finished  *)
(* revokeSession, revokeAllForUser, getBoundKey or setBoundKey has done,   *)
(* whatever ran beside it.  A call in flight is at each of its commands in *)
(* step with the tables, unless a mark in `overlaps` says which call beside *)
(* it changed them (ProgressInv); a step changes nothing that it does not  *)
(* mark in every call it is beside (Announces, Changes).                   *)
(***************************************************************************)
EXTENDS StorageProofs

-----------------------------------------------------------------------------
(***************************************************************************)
(* The invariant.                                                          *)
(***************************************************************************)

\* Of two calls in flight each has been told of the other.
Noticed ==
  \A c, d \in InFlight :
    c # d => Marks(call[c]) \cap Heeds(call[d]) \subseteq overlaps[d]

\* What a revokeAllForUser of this user may delete.
Owned(u) ==
  IF backend \in Postgres
  THEN ({"session"} \X SessionsOf(u)) \cup ({"key"} \X SessionsOf(u) \X Kinds)
         \cup ({"challenge"} \X Jtis)
  ELSE SessionsOf(u)

\* Redis: the keys of the member whose row went last are still to be deleted.
Pending == {"native", "bound", "unsuffixed"}

PurgesOwn(c) ==
  LET o == call[c] IN
  /\ o.had \subseteq SessionsOf(o.user)
  /\ o.found \subseteq Owned(o.user)
  /\ o.at \in Pending => o.sid \in SessionsOf(o.user)

OwnInv ==
  /\ \A u \in Users : index[u] \subseteq SessionsOf(u)
  /\ \A c \in Calls1(Purges) : PurgesOwn(c)

\* Only Redis has rows of v2.6.
LegacyInv == backend # "redis" => \A s \in Sessions : legacy[s] = Null

Noted(c, m) == m \in overlaps[c]

SetProgress(c) ==
  LET o == call[c] IN
  /\ o.at = "legacyDel" => o.kind = "native"
  /\ \/ Noted(c, <<"gone", o.sid>>) \/ Noted(c, <<"key", o.sid, o.kind>>)
     \/ /\ o.at = "legacyDel" => keys[o.sid][o.kind] = {o.key}
        /\ o.at = "create" => keys[o.sid][o.kind] = {}
        /\ o.at = "update" => keys[o.sid][o.kind] # {}

GetProgress(c) ==
  LET o == call[c] IN
  o.had =>
    \/ Noted(c, <<"gone", o.sid>>)
    \/ \E kind \in Kinds : Noted(c, <<"key", o.sid, kind>>)
    \/ /\ o.at = "legacy" => legacy[o.sid] # Null
       /\ o.at = "bound" => keys[o.sid]["bound"] # {}

KeyGone(c, s, kind) == keys[s][kind] = {} \/ Noted(c, <<"key", s, kind>>)

RevokeProgress(c) ==
  call[c].at = "session" => \A kind \in Kinds : KeyGone(c, call[c].sid, kind)

\* A session that was there is still to be reached, or was deleted as far as
\* the pipeline has come and its DELs have not failed.
RedisPurge(c, s) ==
  LET o == call[c] IN
  \/ Noted(c, <<"gone", s>>) \/ Noted(c, <<"session", s>>)
  \/ s \in o.found
  \/ /\ s \notin rows \/ <<"row", s>> \in o.refused
     /\ \/ <<"key", s>> \in o.refused
        \/ /\ \A kind \in Kinds :
                \/ KeyGone(c, s, kind)
                \/ s = o.sid /\ (o.at = "native" \/ (o.at = "bound" /\ kind = "bound"))
           /\ legacy[s] = Null \/ (s = o.sid /\ o.at \in Pending)

BetterAuthPurge(c, s) ==
  \/ s \in call[c].found
  \/ \A kind \in Kinds : KeyGone(c, s, kind)

\* Each DELETE has found what there was to find of the session, or the row that
\* referenced it was written since.
ChallengesFound(c, s) ==
  \/ Noted(c, <<"challenge", s>>)
  \/ \A j \in Jtis :
       challenges[j].sid = s /\ challenges[j].state = "open" =>
         <<"challenge", j>> \in call[c].found

KeysFound(c, s) ==
  \A kind \in Kinds : <<"key", s, kind>> \in call[c].found \/ KeyGone(c, s, kind)

PostgresPurge(c, s) ==
  \/ Noted(c, <<"gone", s>>) \/ Noted(c, <<"session", s>>)
  \/ /\ s \in rows
     /\ ChallengesFound(c, s)
     /\ call[c].at # "keys" => KeysFound(c, s)
     /\ call[c].at = "commit" => <<"session", s>> \in call[c].found

\* Rows go last, in Better Auth and in a transaction.
StillStored(c, s) == backend # "redis" => s \in rows \/ Noted(c, <<"gone", s>>)

PurgeProgress(c) ==
  LET o == call[c] IN
  /\ o.at \in {"index", "sessions"} /\ backend \notin Postgres => o.found = {}
  /\ \A s \in o.had :
       /\ StillStored(c, s)
       /\ backend = "redis" => RedisPurge(c, s)
       /\ backend \in BetterAuth => BetterAuthPurge(c, s)
       /\ backend \in Postgres => PostgresPurge(c, s)

\* What a call in flight has come to, by its command.
Progress(c) ==
  /\ call[c].op = "setBoundKey" => SetProgress(c)
  /\ call[c].op = "getBoundKey" => GetProgress(c)
  /\ call[c].op = "revokeSession" => RevokeProgress(c)
  /\ call[c].op = "revokeAllForUser" => PurgeProgress(c)

ProgressInv == \A c \in InFlight : Progress(c)

ReturnInv == Noticed /\ OwnInv /\ LegacyInv /\ ProgressInv

-----------------------------------------------------------------------------
(***************************************************************************)
(* A step tells every call that it is beside what it changes.              *)
(***************************************************************************)

\* The calls other than A stay as they are and heed the marks M.
Announces(M, A) ==
  \A d \in Calls \ A :
    /\ call'[d] = call[d]
    /\ call[d] # Null =>
         /\ overlaps[d] \subseteq overlaps'[d]
         /\ \A m \in M : m \in Heeds(call[d]) => m \in overlaps'[d]

\* What the marks M allow of the tables.
RowsChange(M) ==
  \A s \in Sessions :
    /\ s \in rows' => s \in rows \/ <<"session", s>> \in M
    /\ backend # "redis" /\ s \in rows => s \in rows' \/ <<"gone", s>> \in M

KeysChange(M) ==
  \A s \in Sessions, kind \in Kinds :
    \/ keys'[s][kind] = keys[s][kind]
    \/ <<"key", s, kind>> \in M
    \/ keys'[s][kind] = {} /\ <<"gone", s>> \in M

LegacyChange(M) ==
  \A s \in Sessions :
    \/ legacy'[s] = legacy[s]
    \/ legacy'[s] = Null /\ (<<"gone", s>> \in M \/ <<"key", s, "native">> \in M)

ChallengesChange(M) ==
  \A j \in Jtis :
    challenges'[j].state = "open" =>
      \/ challenges'[j] = challenges[j]
      \/ <<"challenge", challenges'[j].sid>> \in M

Changes(M) ==
  RowsChange(M) /\ KeysChange(M) /\ LegacyChange(M) /\ ChallengesChange(M)

\* The calls beside a step keep their progress.
LEMMA SetKept ==
  ASSUME CallTypes, NEW M, NEW A, Announces(M, A), KeysChange(M),
         NEW d \in Calls \ A, call[d] # Null, call[d].op = "setBoundKey",
         SetProgress(d)
  PROVE  SetProgress(d)'
<1> DEFINE o == call[d]
<1>1. o \in Operations /\ o.sid \in Sessions /\ o.kind \in Kinds
  BY Fields DEF CallTypes, SessionOperations
<1>2. Heeds(o) = {<<"gone", o.sid>>, <<"key", o.sid, o.kind>>}
  BY DEF Heeds
<1>3. call'[d] = o /\ overlaps[d] \subseteq overlaps'[d]
  BY DEF Announces
<1>4. /\ <<"gone", o.sid>> \in M => <<"gone", o.sid>> \in overlaps'[d]
      /\ <<"key", o.sid, o.kind>> \in M => <<"key", o.sid, o.kind>> \in overlaps'[d]
  BY <1>2 DEF Announces
<1>5. \/ keys'[o.sid][o.kind] = keys[o.sid][o.kind]
      \/ <<"key", o.sid, o.kind>> \in overlaps'[d]
      \/ <<"gone", o.sid>> \in overlaps'[d]
  BY <1>1, <1>4 DEF KeysChange
<1> QED
  BY <1>3, <1>5 DEF SetProgress, Noted

LEMMA GetKept ==
  ASSUME CallTypes, NEW M, NEW A, Announces(M, A), KeysChange(M), LegacyChange(M),
         NEW d \in Calls \ A, call[d] # Null, call[d].op = "getBoundKey",
         GetProgress(d)
  PROVE  GetProgress(d)'
<1> DEFINE o == call[d]
<1>1. o \in Operations /\ o.sid \in Sessions /\ {"native", "bound"} = Kinds
  BY Fields DEF CallTypes, SessionOperations, Kinds
<1>2. Heeds(o) = {<<"gone", o.sid>>} \cup ({"key"} \X {o.sid} \X Kinds)
  BY DEF Heeds
<1>3. call'[d] = o /\ overlaps[d] \subseteq overlaps'[d]
  BY DEF Announces
<1>4. /\ <<"gone", o.sid>> \in M => <<"gone", o.sid>> \in overlaps'[d]
      /\ \A kind \in Kinds :
           <<"key", o.sid, kind>> \in M => <<"key", o.sid, kind>> \in overlaps'[d]
  BY <1>2 DEF Announces
<1>5. \/ keys'[o.sid]["bound"] = keys[o.sid]["bound"]
      \/ <<"key", o.sid, "bound">> \in overlaps'[d]
      \/ <<"gone", o.sid>> \in overlaps'[d]
  BY <1>1, <1>4 DEF KeysChange
<1>6. \/ legacy'[o.sid] = legacy[o.sid]
      \/ <<"key", o.sid, "native">> \in overlaps'[d]
      \/ <<"gone", o.sid>> \in overlaps'[d]
  BY <1>1, <1>4 DEF LegacyChange
<1> QED
  BY <1>1, <1>3, <1>5, <1>6 DEF GetProgress, Noted

LEMMA KeyGoneKept ==
  ASSUME NEW M, NEW A, Announces(M, A), KeysChange(M),
         NEW d \in Calls \ A, call[d] # Null, NEW s \in Sessions, NEW kind \in Kinds,
         <<"key", s, kind>> \in Heeds(call[d]), KeyGone(d, s, kind)
  PROVE  KeyGone(d, s, kind)'
<1>1. overlaps[d] \subseteq overlaps'[d]
      /\ (<<"key", s, kind>> \in M => <<"key", s, kind>> \in overlaps'[d])
  BY DEF Announces
<1> QED
  BY <1>1 DEF KeyGone, Noted, KeysChange

LEMMA RevokeKept ==
  ASSUME CallTypes, NEW M, NEW A, Announces(M, A), KeysChange(M),
         NEW d \in Calls \ A, call[d] # Null, call[d].op = "revokeSession",
         RevokeProgress(d)
  PROVE  RevokeProgress(d)'
<1>1. call[d].sid \in Sessions
  BY Fields DEF CallTypes, SessionOperations
<1>2. \A kind \in Kinds : <<"key", call[d].sid, kind>> \in Heeds(call[d])
  BY DEF Heeds
<1>3. call'[d] = call[d]
  BY DEF Announces
<1> QED
  BY <1>1, <1>2, <1>3, KeyGoneKept DEF RevokeProgress

LEMMA PurgeHeeds ==
  ASSUME NEW o, o.op = "revokeAllForUser", NEW s \in SessionsOf(o.user)
  PROVE  /\ {<<"session", s>>, <<"challenge", s>>, <<"gone", s>>} \subseteq Heeds(o)
         /\ \A kind \in Kinds : <<"key", s, kind>> \in Heeds(o)
BY DEF Heeds

LEMMA RedisPurgeKept ==
  ASSUME NEW M, NEW A, Announces(M, A), Changes(M),
         NEW d \in Calls \ A, call[d] # Null, call[d].op = "revokeAllForUser",
         NEW s \in SessionsOf(call[d].user), RedisPurge(d, s)
  PROVE  RedisPurge(d, s)'
<1>1. call'[d] = call[d] /\ overlaps[d] \subseteq overlaps'[d]
  BY DEF Announces
<1>2. s \in Sessions
  BY DEF SessionsOf
<1>3. /\ <<"session", s>> \in M => <<"session", s>> \in overlaps'[d]
      /\ <<"gone", s>> \in M => <<"gone", s>> \in overlaps'[d]
      /\ \A kind \in Kinds : KeyGone(d, s, kind) => KeyGone(d, s, kind)'
  BY <1>2, PurgeHeeds, KeyGoneKept DEF Announces, Changes
<1>4. s \in rows' => s \in rows \/ <<"session", s>> \in overlaps'[d]
  BY <1>2, <1>3 DEF Changes, RowsChange
<1>5. legacy[s] = Null => legacy'[s] = Null
  BY <1>2 DEF Changes, LegacyChange
<1> QED
  BY <1>1, <1>3, <1>4, <1>5 DEF RedisPurge, Noted

LEMMA BetterAuthPurgeKept ==
  ASSUME NEW M, NEW A, Announces(M, A), Changes(M),
         NEW d \in Calls \ A, call[d] # Null, call[d].op = "revokeAllForUser",
         NEW s \in SessionsOf(call[d].user), BetterAuthPurge(d, s)
  PROVE  BetterAuthPurge(d, s)'
<1>1. call'[d] = call[d]
  BY DEF Announces
<1>2. s \in Sessions
  BY DEF SessionsOf
<1>3. \A kind \in Kinds : KeyGone(d, s, kind) => KeyGone(d, s, kind)'
  BY <1>2, PurgeHeeds, KeyGoneKept DEF Changes
<1> QED
  BY <1>1, <1>3 DEF BetterAuthPurge

LEMMA PostgresPurgeKept ==
  ASSUME NEW M, NEW A, Announces(M, A), Changes(M), backend \in Postgres,
         NEW d \in Calls \ A, call[d] # Null, call[d].op = "revokeAllForUser",
         NEW s \in SessionsOf(call[d].user), PostgresPurge(d, s)
  PROVE  PostgresPurge(d, s)'
<1>1. call'[d] = call[d] /\ overlaps[d] \subseteq overlaps'[d]
  BY DEF Announces
<1>2. s \in Sessions
  BY DEF SessionsOf
<1>3. /\ <<"gone", s>> \in M => <<"gone", s>> \in overlaps'[d]
      /\ <<"challenge", s>> \in M => <<"challenge", s>> \in overlaps'[d]
      /\ \A kind \in Kinds : KeyGone(d, s, kind) => KeyGone(d, s, kind)'
  BY <1>2, PurgeHeeds, KeyGoneKept DEF Announces, Changes
<1>4. s \in rows => s \in rows' \/ <<"gone", s>> \in overlaps'[d]
  BY <1>2, <1>3 DEF Changes, RowsChange, Postgres
<1>5. ChallengesFound(d, s) => ChallengesFound(d, s)'
  <2>1. \A j \in Jtis :
          challenges'[j].sid = s /\ challenges'[j].state = "open" =>
            \/ challenges'[j] = challenges[j]
            \/ <<"challenge", s>> \in overlaps'[d]
    BY <1>3 DEF Changes, ChallengesChange
  <2> QED
    BY <1>1, <2>1 DEF ChallengesFound, Noted
<1>6. KeysFound(d, s) => KeysFound(d, s)'
  BY <1>1, <1>3 DEF KeysFound
<1> QED
  BY <1>1, <1>4, <1>5, <1>6 DEF PostgresPurge, Noted

LEMMA StillStoredKept ==
  ASSUME NEW M, NEW A, Announces(M, A), Changes(M), UNCHANGED backend,
         NEW d \in Calls \ A, call[d] # Null, call[d].op = "revokeAllForUser",
         NEW s \in SessionsOf(call[d].user), StillStored(d, s)
  PROVE  StillStored(d, s)'
<1>1. overlaps[d] \subseteq overlaps'[d] /\ s \in Sessions
  BY DEF Announces, SessionsOf
<1>2. <<"gone", s>> \in M => <<"gone", s>> \in overlaps'[d]
  BY PurgeHeeds DEF Announces
<1>3. backend # "redis" /\ s \in rows => s \in rows' \/ <<"gone", s>> \in overlaps'[d]
  BY <1>1, <1>2 DEF Changes, RowsChange
<1> QED
  BY <1>1, <1>3 DEF StillStored, Noted

LEMMA ProgressKept ==
  ASSUME CallTypes, OwnInv, NEW M, NEW A, Announces(M, A), Changes(M),
         UNCHANGED backend, NEW d \in Calls \ A, call[d] # Null, Progress(d)
  PROVE  Progress(d)'
<1>1. call'[d] = call[d]
  BY DEF Announces
<1>2. KeysChange(M) /\ LegacyChange(M)
  BY DEF Changes
<1>3. call[d].op = "setBoundKey" => SetProgress(d)'
  BY <1>2, SetKept DEF Progress
<1>4. call[d].op = "getBoundKey" => GetProgress(d)'
  BY <1>2, GetKept DEF Progress
<1>5. call[d].op = "revokeSession" => RevokeProgress(d)'
  BY <1>2, RevokeKept DEF Progress
<1>6. ASSUME call[d].op = "revokeAllForUser" PROVE PurgeProgress(d)'
  <2>1. PurgeProgress(d) /\ \A s \in call[d].had : s \in SessionsOf(call[d].user)
    BY <1>6 DEF Progress, OwnInv, PurgesOwn, Calls1, Purges
  <2>2. ASSUME NEW s \in call[d].had
        PROVE  /\ StillStored(d, s)'
               /\ backend = "redis" => RedisPurge(d, s)'
               /\ backend \in BetterAuth => BetterAuthPurge(d, s)'
               /\ backend \in Postgres => PostgresPurge(d, s)'
    <3>1. s \in SessionsOf(call[d].user)
      BY <2>1
    <3>2. /\ StillStored(d, s)
          /\ backend = "redis" => RedisPurge(d, s)
          /\ backend \in BetterAuth => BetterAuthPurge(d, s)
          /\ backend \in Postgres => PostgresPurge(d, s)
      BY <2>1 DEF PurgeProgress
    <3>3. backend = "redis" => RedisPurge(d, s)'
      BY <1>6, <3>1, <3>2, RedisPurgeKept
    <3>4. backend \in BetterAuth => BetterAuthPurge(d, s)'
      BY <1>6, <3>1, <3>2, BetterAuthPurgeKept
    <3>5. backend \in Postgres => PostgresPurge(d, s)'
      BY <1>6, <3>1, <3>2, PostgresPurgeKept
    <3>6. StillStored(d, s)'
      BY <1>6, <3>1, <3>2, StillStoredKept
    <3> QED
      BY <3>3, <3>4, <3>5, <3>6
  <2> QED
    BY <1>1, <2>1, <2>2 DEF PurgeProgress
<1> QED
  BY <1>1, <1>3, <1>4, <1>5, <1>6 DEF Progress

-----------------------------------------------------------------------------
(***************************************************************************)
(* Steps.                                                                  *)
(***************************************************************************)

\* RevocationComplete, RevocationRepeatable and KeysAnswered, of one call.
RevocationDone(c) ==
  call[c].op \in {"revokeSession", "revokeAllForUser"} =>
    \A s \in Targets(call[c]) :
      \/ call[c].op = "revokeAllForUser" /\ <<"gone", s>> \in overlaps[c]
      \/ RevokedFor(c, s)

ReadDone(c) ==
  call[c].op = "getBoundKey" /\ call[c].had /\ ~Found(c) => MissesForCause(c)

WriteDone(c) == call[c].op = "setBoundKey" => KeyLeft(c)

Done(c) == RevocationDone(c) /\ ReadDone(c) /\ WriteDone(c)

BrokenOff(c) ==
  call[c].op = "revokeAllForUser" =>
    \A s \in call[c].had : s \in rows' \/ <<"gone", s>> \in overlaps[c]

\* A call that takes a step has done its work, or broken off, or gone on with it.
Acted(c) ==
  /\ Returns(c) => Done(c)
  /\ Breaks(c) => BrokenOff(c)
  /\ call'[c] # Null => Progress(c)'

StepSound ==
  /\ Noticed'
  /\ \E M, A : Announces(M, A) /\ Changes(M) /\ \A c \in A : Acted(c)

\* Call c goes on, alone, with the marks it has, or ends.
Proceeds(c) ==
  /\ call[c] # Null
  /\ \A d \in Calls \ {c} : call'[d] = call[d] /\ overlaps'[d] = overlaps[d]
  /\ \/ call'[c] \in {Null, Failed}
     \/ /\ Marks(call'[c]) = Marks(call[c]) /\ Heeds(call'[c]) = Heeds(call[c])
        /\ overlaps'[c] = overlaps[c]

LEMMA MarksOfInFlight ==
  ASSUME NEW c \in InFlight, NEW m \in Marks(call[c])
  PROVE  m \in MarksInFlight
BY DEF MarksInFlight

LEMMA AnswersProceeds ==
  ASSUME CallTypes, NEW c \in Calls, call[c] # Null, Answers(c)
  PROVE  Proceeds(c) /\ call'[c] = Null
BY DEF Answers, Proceeds, CallTypes

LEMMA ThrowsProceeds ==
  ASSUME CallTypes, NEW c \in Calls, call[c] # Null, Throws(c)
  PROVE  Proceeds(c) /\ call'[c] = Failed
BY DEF Throws, Proceeds, CallTypes

LEMMA EntersStep ==
  ASSUME CallTypes, Noticed, NEW c \in Calls, NEW o, Enters(c, o)
  PROVE  /\ Noticed' /\ Announces(Marks(o), {c})
         /\ call[c] = Null /\ call'[c] = o
         /\ overlaps'[c] = MarksInFlight \cap Heeds(o)
<1>1. /\ call[c] = Null /\ call'[c] = o
      /\ overlaps'[c] = MarksInFlight \cap Heeds(o)
      /\ \A d \in Calls \ {c} : call'[d] = call[d] /\ overlaps'[d] = Beside(o)[d]
  BY DEF Enters, CallTypes, Beside
<1>2. ASSUME NEW d \in Calls \ {c}, call[d] # Null
      PROVE  /\ overlaps[d] \subseteq overlaps'[d]
             /\ Marks(o) \cap Heeds(call[d]) \subseteq overlaps'[d]
  BY <1>1, <1>2, BesideGrows
<1>3. Announces(Marks(o), {c})
  BY <1>1, <1>2 DEF Announces
<1>4. ASSUME NEW d \in InFlight', NEW e \in InFlight', d # e,
             NEW m \in Marks(call'[d]), m \in Heeds(call'[e])
      PROVE  m \in overlaps'[e]
  <2>1. CASE d # c /\ e # c
    <3>1. d \in InFlight /\ e \in InFlight /\ call'[d] = call[d] /\ call'[e] = call[e]
      BY <1>1, <2>1, <1>4 DEF InFlight
    <3>2. m \in overlaps[e]
      BY <1>4, <3>1 DEF Noticed
    <3> QED
      BY <1>2, <2>1, <3>1, <3>2 DEF InFlight
  <2>2. CASE d = c /\ e # c
    <3>1. e \in Calls \ {c} /\ call[e] # Null /\ call'[e] = call[e]
      BY <1>1, <2>2, <1>4 DEF InFlight
    <3> QED
      BY <1>1, <1>2, <1>4, <2>2, <3>1
  <2>3. CASE d # c /\ e = c
    <3>1. d \in InFlight /\ call'[d] = call[d]
      BY <1>1, <2>3, <1>4 DEF InFlight
    <3>2. m \in MarksInFlight
      BY <3>1, MarksOfInFlight
    <3> QED
      BY <1>1, <1>4, <2>3, <3>2
  <2> QED
    BY <1>4, <2>1, <2>2, <2>3
<1>5. Noticed'
  BY <1>4 DEF Noticed
<1> QED
  BY <1>1, <1>3, <1>5

LEMMA PassesStep ==
  ASSUME CallTypes, Noticed, NEW o, Passes(o)
  PROVE  Noticed' /\ Announces(Marks(o), {})
<1>1. \A d \in Calls : call'[d] = call[d]
  BY DEF Passes
<1>2. ASSUME NEW d \in Calls, call[d] # Null
      PROVE  /\ overlaps[d] \subseteq overlaps'[d]
             /\ Marks(o) \cap Heeds(call[d]) \subseteq overlaps'[d]
  BY <1>2, BesideGrows DEF Passes
<1>3. Announces(Marks(o), {})
  BY <1>1, <1>2 DEF Announces
<1>4. InFlight' = InFlight
  BY DEF Passes, InFlight
<1>5. Noticed'
  BY <1>1, <1>2, <1>4 DEF Noticed, InFlight
<1> QED
  BY <1>3, <1>5

LEMMA ProceedsStep ==
  ASSUME CallTypes, Noticed, NEW c \in Calls, Proceeds(c)
  PROVE  Noticed' /\ Announces(Marks(call[c]), {c})
<1>1. \A d \in Calls \ {c} : call'[d] = call[d] /\ overlaps'[d] = overlaps[d]
  BY DEF Proceeds
<1>2. c \in InFlight
  BY DEF Proceeds, InFlight
<1>3. Announces(Marks(call[c]), {c})
  BY <1>1, <1>2 DEF Announces, Noticed, InFlight
<1>4. ASSUME NEW d \in InFlight', NEW e \in InFlight', d # e,
             NEW m \in Marks(call'[d]), m \in Heeds(call'[e])
      PROVE  m \in overlaps'[e]
  <2>1. d \in InFlight /\ m \in Marks(call[d])
    <3>1. CASE d # c
      BY <1>1, <1>4, <3>1 DEF InFlight
    <3>2. CASE d = c
      <4>1. call'[c] # Failed
        BY <1>4, <3>2 DEF Marks, Failed
      <4>2. call'[c] # Null
        BY <1>4, <3>2 DEF InFlight
      <4> QED
        BY <1>2, <1>4, <3>2, <4>1, <4>2 DEF Proceeds
    <3> QED
      BY <3>1, <3>2
  <2>2. e \in InFlight /\ m \in Heeds(call[e]) /\ overlaps'[e] = overlaps[e]
    <3>1. CASE e # c
      BY <1>1, <1>4, <3>1 DEF InFlight
    <3>2. CASE e = c
      <4>1. call'[c] # Failed
        BY <1>4, <3>2 DEF Heeds, Failed
      <4>2. call'[c] # Null
        BY <1>4, <3>2 DEF InFlight
      <4> QED
        BY <1>2, <1>4, <3>2, <4>1, <4>2 DEF Proceeds
    <3> QED
      BY <3>1, <3>2
  <2> QED
    BY <1>4, <2>1, <2>2 DEF Noticed
<1>5. Noticed'
  BY <1>4 DEF Noticed
<1> QED
  BY <1>3, <1>5

\* How an action is shown sound: by what it does to the tables, and by what the
\* call that takes it has come to.
LEMMA EntersSound ==
  ASSUME CallTypes, Noticed, NEW c \in Calls, NEW o, Enters(c, o), Changes(Marks(o)),
         Progress(c)'
  PROVE  StepSound
<1>1. Noticed' /\ Announces(Marks(o), {c}) /\ call[c] = Null
  BY EntersStep
<1>2. Acted(c)
  BY <1>1 DEF Acted, Returns, Breaks
<1> QED
  BY <1>1, <1>2 DEF StepSound

LEMMA PassesSound ==
  ASSUME CallTypes, Noticed, NEW o, Passes(o), Changes(Marks(o))
  PROVE  StepSound
BY PassesStep DEF StepSound

LEMMA ProceedsSound ==
  ASSUME CallTypes, Noticed, NEW c \in Calls, Proceeds(c), Changes(Marks(call[c])),
         Acted(c)
  PROVE  StepSound
<1>1. Noticed' /\ Announces(Marks(call[c]), {c})
  BY ProceedsStep
<1> QED
  BY <1>1 DEF StepSound

LEMMA QuietSound ==
  ASSUME Noticed, UNCHANGED <<call, overlaps>>, Changes({})
  PROVE  StepSound
<1>1. Announces({}, {})
  BY DEF Announces
<1>2. Noticed'
  BY DEF Noticed, InFlight
<1> QED
  BY <1>1, <1>2 DEF StepSound

LEMMA FailedIsCall == Failed # Null
BY NullIsNoCall DEF Operations, OperationsOn

LEMMA ReturnsSound ==
  ASSUME CallTypes, Noticed, NEW c \in Calls, call[c] # Null, Answers(c),
         Changes(Marks(call[c])), Done(c)
  PROVE  StepSound
<1>1. Proceeds(c) /\ call'[c] = Null
  BY AnswersProceeds
<1>2. Acted(c)
  BY <1>1, FailedIsCall DEF Acted, Breaks
<1> QED
  BY <1>1, <1>2, ProceedsSound

LEMMA ThrowsSound ==
  ASSUME CallTypes, Noticed, NEW c \in Calls, call[c] # Null, Throws(c),
         Changes(Marks(call[c])), BrokenOff(c)
  PROVE  StepSound
<1>1. Proceeds(c) /\ call'[c] = Failed
  BY ThrowsProceeds
<1>2. Failed # Null
  BY FailedIsCall
<1>3. Acted(c)
  BY <1>1, <1>2 DEF Acted, Returns, Progress, Failed
<1> QED
  BY <1>1, <1>3, ProceedsSound

LEMMA SoundStep ==
  ASSUME CallTypes, OwnInv, ProgressInv, UNCHANGED backend, StepSound
  PROVE  /\ Noticed' /\ ProgressInv'
         /\ \A c \in Calls : (Returns(c) => Done(c)) /\ (Breaks(c) => BrokenOff(c))
<1>1. PICK M, A : Announces(M, A) /\ Changes(M) /\ \A c \in A : Acted(c)
  BY DEF StepSound
<1>2. ASSUME NEW c \in InFlight' PROVE Progress(c)'
  <2>1. CASE c \in A
    BY <1>1, <1>2, <2>1 DEF Acted, InFlight
  <2>2. CASE c \notin A
    <3>1. c \in Calls \ A /\ call[c] # Null
      BY <1>1, <1>2, <2>2 DEF Announces, InFlight
    <3>2. Progress(c)
      BY <3>1 DEF ProgressInv, InFlight
    <3> QED
      BY <1>1, <3>1, <3>2, ProgressKept
  <2> QED
    BY <2>1, <2>2
<1>3. ASSUME NEW c \in Calls, Returns(c) \/ Breaks(c)
      PROVE  (Returns(c) => Done(c)) /\ (Breaks(c) => BrokenOff(c))
  <2>1. c \in A
    BY <1>1, <1>3 DEF Announces, Returns, Breaks
  <2> QED
    BY <1>1, <1>3, <2>1 DEF Acted
<1> QED
  BY <1>2, <1>3 DEF StepSound, ProgressInv

-----------------------------------------------------------------------------
(***************************************************************************)
(* What the commands do to the tables.                                     *)
(***************************************************************************)

LEMMA SameChanges ==
  ASSUME UNCHANGED <<rows, keys, legacy, challenges>>, NEW M
  PROVE  Changes(M)
BY DEF Changes, RowsChange, KeysChange, LegacyChange, ChallengesChange

LEMMA SameRows ==
  ASSUME UNCHANGED rows, NEW M
  PROVE  RowsChange(M)
BY DEF RowsChange

\* EX drops rows of Redis at any time; a row of another backend goes by a call.
LEMMA FewerRows ==
  ASSUME rows' \subseteq rows, backend = "redis", NEW M
  PROVE  RowsChange(M)
BY DEF RowsChange

LEMMA RowsGone ==
  ASSUME NEW S, rows' = rows \ S, NEW M, \A s \in S : <<"gone", s>> \in M
  PROVE  RowsChange(M)
BY DEF RowsChange

LEMMA SameKeys ==
  ASSUME UNCHANGED keys, NEW M
  PROVE  KeysChange(M)
BY DEF KeysChange

LEMMA NoKeysChange ==
  ASSUME DataTypes, NEW s, NEW kinds, keys' = NoKeys(s, kinds), NEW M, <<"gone", s>> \in M
  PROVE  KeysChange(M)
<1> SUFFICES ASSUME NEW t \in Sessions, NEW kind \in Kinds
             PROVE  keys'[t][kind] = keys[t][kind]
                    \/ (keys'[t][kind] = {} /\ <<"gone", t>> \in M)
  BY DEF KeysChange
<1> QED
  BY DEF NoKeys, DataTypes

LEMMA SetKeyChange ==
  ASSUME DataTypes, NEW s \in Sessions, NEW kind \in Kinds, NEW K,
         keys' = [keys EXCEPT ![s][kind] = K], NEW M, <<"key", s, kind>> \in M
  PROVE  KeysChange(M)
BY DEF KeysChange, DataTypes

LEMMA SameLegacy ==
  ASSUME UNCHANGED legacy, NEW M
  PROVE  LegacyChange(M)
BY DEF LegacyChange

LEMMA NoLegacyChange ==
  ASSUME DataTypes, NEW s, legacy' = [legacy EXCEPT ![s] = Null],
         NEW M, <<"gone", s>> \in M \/ <<"key", s, "native">> \in M
  PROVE  LegacyChange(M)
BY DEF LegacyChange, DataTypes

LEMMA SameChallenges ==
  ASSUME UNCHANGED challenges, NEW M
  PROVE  ChallengesChange(M)
BY DEF ChallengesChange

LEMMA StoreChange ==
  ASSUME DataTypes, NEW j, NEW s, StoreChallenge(j, s), NEW M, <<"challenge", s>> \in M
  PROVE  ChallengesChange(M)
<1> SUFFICES ASSUME NEW k \in Jtis
             PROVE  challenges'[k] = challenges[k]
                    \/ <<"challenge", challenges'[k].sid>> \in M
  BY DEF ChallengesChange
<1>1. challenges' = [challenges EXCEPT ![j] = [sid |-> s, state |-> "open"]]
  BY DEF StoreChallenge
<1>2. CASE k = j
  BY <1>1, <1>2 DEF DataTypes
<1>3. CASE k # j
  BY <1>1, <1>3 DEF DataTypes
<1> QED
  BY <1>2, <1>3

LEMMA CloseChange ==
  ASSUME DataTypes, NEW j, NEW state, state # "open",
         challenges' = [challenges EXCEPT ![j].state = state], NEW M
  PROVE  ChallengesChange(M)
<1> SUFFICES ASSUME NEW k \in Jtis, challenges'[k].state = "open"
             PROVE  challenges'[k] = challenges[k]
  BY DEF ChallengesChange
<1>1. challenges[k] \in [sid : Sessions \cup {Null}, state : ChallengeStates]
  BY DEF DataTypes
<1>2. CASE k = j
  BY <1>1, <1>2 DEF DataTypes
<1>3. CASE k # j
  BY <1>3 DEF DataTypes
<1> QED
  BY <1>2, <1>3

\* The next command of a call does not change who it is about.
LEMMA SameFields ==
  ASSUME NEW o \in Operations, o # Failed, NEW step, NEW p,
         p = [o EXCEPT !.at = step]
  PROVE  /\ p.op = o.op /\ p.at = step
         /\ p.op \in SessionOperations => p.sid = o.sid
         /\ p.op = "setBoundKey" => p.kind = o.kind
         /\ p.op = "consumeChallenge" => p.jti = o.jti
         /\ p.op = "revokeAllForUser" =>
              /\ p.user = o.user /\ p.found = o.found /\ p.had = o.had
              /\ p.sid = o.sid /\ p.refused = o.refused
BY DEF Operations, OperationsOn, SessionCalls, SessionOperations

LEMMA SameMarks ==
  ASSUME NEW o, NEW p, p.op = o.op,
         p.op \in SessionOperations => p.sid = o.sid,
         p.op = "setBoundKey" => p.kind = o.kind,
         p.op = "consumeChallenge" => p.jti = o.jti,
         p.op = "revokeAllForUser" => p.user = o.user,
         o.op \in SessionOperations \cup {"consumeChallenge", "revokeAllForUser"}
  PROVE  Marks(p) = Marks(o) /\ Heeds(p) = Heeds(o)
<1>1. Marks(p) = Marks(o)
  BY DEF Marks, SessionOperations
<1>2. Heeds(p) = Heeds(o)
  BY DEF Heeds, SessionOperations
<1> QED
  BY <1>1, <1>2

LEMMA KnownOps ==
  ASSUME NEW o \in Operations, o # Failed
  PROVE  o.op \in SessionOperations \cup {"consumeChallenge", "revokeAllForUser"}
BY DEF Operations, OperationsOn, SessionCalls, SessionOperations

LEMMA GoesToProceeds ==
  ASSUME CallTypes, NEW c \in Calls, call[c] \notin {Null, Failed},
         NEW step \in Steps, GoesTo(c, step), UNCHANGED backend
  PROVE  /\ Proceeds(c) /\ ~Returns(c) /\ ~Breaks(c)
         /\ call'[c] = [call[c] EXCEPT !.at = step]
<1>1. call[c] \in Operations
  BY DEF CallTypes
<1>2. /\ call'[c] = [call[c] EXCEPT !.at = step] /\ UNCHANGED overlaps
      /\ \A d \in Calls \ {c} : call'[d] = call[d]
  BY DEF GoesTo, CallTypes
<1>3. Marks(call'[c]) = Marks(call[c]) /\ Heeds(call'[c]) = Heeds(call[c])
  BY <1>1, <1>2, SameFields, SameMarks, KnownOps
<1>4. call'[c] # Null
  BY <1>1, <1>2, OtherStep, NullIsNoCall
<1>5. call'[c] # Failed
  BY <1>1, <1>2, SameFields, KnownOps DEF Failed, SessionOperations
<1> QED
  BY <1>2, <1>3, <1>4, <1>5 DEF Proceeds, Returns, Breaks

LEMMA EntersPlainSound ==
  ASSUME CallTypes, Noticed, NEW c \in Calls, NEW o, Enters(c, o), Changes(Marks(o)),
         o.op \in {"setSession", "deleteBoundKey", "consumeChallenge"}
  PROVE  StepSound
<1>1. call'[c] = o
  BY EntersStep
<1>2. Progress(c)'
  BY <1>1 DEF Progress
<1> QED
  BY <1>2, EntersSound

\* A call that owes nothing when it answers.
LEMMA ReturnsPlainSound ==
  ASSUME CallTypes, Noticed, NEW c \in Calls, call[c] # Null, Answers(c),
         Changes(Marks(call[c])),
         call[c].op \notin {"revokeSession", "revokeAllForUser", "getBoundKey",
                            "setBoundKey"}
  PROVE  StepSound
<1>1. Done(c)
  BY DEF Done, RevocationDone, ReadDone, WriteDone
<1> QED
  BY <1>1, ReturnsSound

\* A revokeAllForUser that breaks off has deleted no row yet.
LEMMA FailsSound ==
  ASSUME CallTypes, Noticed, ProgressInv, NEW c \in Calls, Fails(c),
         backend # "redis" \/ call[c].op # "revokeAllForUser",
         UNCHANGED <<rows, keys, legacy, challenges>>
  PROVE  StepSound
<1>1. call[c] # Null /\ Throws(c)
  BY DEF Fails
<1>2. call[c].op = "revokeAllForUser" => PurgeProgress(c)
  BY <1>1 DEF ProgressInv, InFlight, Progress
<1>3. BrokenOff(c)
  BY <1>2 DEF BrokenOff, PurgeProgress, StillStored, Noted
<1> QED
  BY <1>1, <1>3, SameChanges, ThrowsSound

LEMMA NoKeyLeft ==
  ASSUME NEW s, \A kind \in Kinds : keys'[s][kind] = {}, legacy'[s] = Null
  PROVE  HasKey(s, Kinds)' = FALSE
BY DEF HasKey

-----------------------------------------------------------------------------
(***************************************************************************)
(* Redis.                                                                  *)
(***************************************************************************)

ReturnTypes ==
  CallTypes /\ DataTypes /\ IndexInv /\ ReturnInv

LEMMA RedisKeyCallSound ==
  ASSUME ReturnTypes, UNCHANGED backend, NEW c \in Calls, NEW s \in Sessions,
         \/ \E kinds \in KindSets : GetKey(c, s, kinds)
         \/ \E key \in Keys : SetNativeKey(c, s, key)
  PROVE  StepSound
<1> USE DEF ReturnTypes, ReturnInv
<1>1. ASSUME NEW kinds \in KindSets, GetKey(c, s, kinds)
      PROVE  StepSound
  <2> DEFINE o == [op |-> "getBoundKey", sid |-> s, kinds |-> kinds,
                   had |-> HasKey(s, kinds), at |-> "legacy"]
  <2>1. Enters(c, o) /\ UNCHANGED tables
    BY <1>1 DEF GetKey
  <2>2. HasKey(s, kinds) => legacy'[s] # Null
    BY <1>1 DEF GetKey, HasKey, tables
  <2>3. call'[c] = o
    BY <2>1, EntersStep
  <2>4. GetProgress(c)'
    BY <2>2, <2>3 DEF GetProgress
  <2>5. Progress(c)'
    BY <2>3, <2>4 DEF Progress
  <2> QED
    BY <2>1, <2>5, SameChanges, EntersSound DEF tables
<1>2. ASSUME NEW key \in Keys, SetNativeKey(c, s, key)
      PROVE  StepSound
  <2> DEFINE o == [op |-> "setBoundKey", sid |-> s, kind |-> "native", key |-> key,
                   at |-> "legacyDel"]
  <2>1. /\ Enters(c, o) /\ UNCHANGED <<rows, legacy, challenges>>
        /\ keys' = [keys EXCEPT ![s]["native"] = {key}]
    BY <1>2 DEF SetNativeKey, SetKey
  <2>2. <<"key", s, "native">> \in Marks(o)
    BY DEF Marks
  <2>3. call'[c] = o
    BY <2>1, EntersStep
  <2> HIDE DEF o
  <2>4. o.op = "setBoundKey" /\ o.sid = s /\ o.kind = "native" /\ o.key = key
        /\ o.at = "legacyDel" /\ "native" \in Kinds
    BY DEF o, Kinds
  <2>5. keys'[s]["native"] = {key}
    BY <2>1, <2>4 DEF DataTypes
  <2>6. Progress(c)'
    BY <2>3, <2>4, <2>5 DEF Progress, SetProgress
  <2>7. KeysChange(Marks(o))
    BY <2>1, <2>2, <2>4, SetKeyChange
  <2>8. Changes(Marks(o))
    BY <2>1, <2>7, SameRows, SameLegacy, SameChallenges DEF Changes
  <2> QED
    BY <2>1, <2>6, <2>8, EntersSound
<1> QED
  BY <1>1, <1>2

\* SMEMBERS: a session that is no stray is in the index, or a call that marks it
\* covers it.
LEMMA SMembersSound ==
  ASSUME ReturnTypes, UNCHANGED backend, NEW c \in Calls, NEW u \in Users, SMembers(c, u)
  PROVE  StepSound
<1> USE DEF ReturnTypes, ReturnInv
<1> DEFINE o == [op |-> "revokeAllForUser", user |-> u, sid |-> Null,
                 found |-> index[u], had |-> (rows \cap SessionsOf(u)) \ strays,
                 refused |-> {}, at |-> "row"]
<1>1. Enters(c, o) /\ UNCHANGED tables /\ backend = "redis"
  BY DEF SMembers, OnRedis, Serves
<1>2. call[c] = Null /\ call'[c] = o /\ overlaps'[c] = MarksInFlight \cap Heeds(o)
  BY <1>1, EntersStep
<1>3. /\ o.op = "revokeAllForUser" /\ o.user = u /\ o.found = index[u]
      /\ o.had = (rows \cap SessionsOf(u)) \ strays /\ o.at = "row"
  OBVIOUS
<1> HIDE DEF o
<1>4. ASSUME NEW s \in o.had PROVE RedisPurge(c, s)'
  <2>1. s \in rows /\ s \notin strays /\ s \in SessionsOf(u) /\ UserOf[s] = u
    BY <1>3 DEF SessionsOf
  <2>2. Reachable(s)
    BY <1>1, <2>1 DEF IndexInv
  <2>3. CASE s \in index[u]
    BY <1>2, <1>3, <2>3 DEF RedisPurge
  <2>4. CASE \E d \in Calls : HalfDone(d) /\ call[d].sid = s
    <3>1. PICK d \in Calls : HalfDone(d) /\ call[d].sid = s
      BY <2>4
    <3>2. d \in InFlight /\ call[d].op \in {"setSession", "revokeSession"}
      BY <3>1 DEF HalfDone, At, InFlight
    <3>3. <<"session", s>> \in Marks(call[d]) \/ <<"gone", s>> \in Marks(call[d])
      BY <3>1, <3>2 DEF Marks
    <3>4. {<<"session", s>>, <<"gone", s>>} \subseteq Heeds(o)
      BY <1>3, <2>1, PurgeHeeds
    <3>5. <<"session", s>> \in overlaps'[c] \/ <<"gone", s>> \in overlaps'[c]
      BY <1>2, <3>2, <3>3, <3>4, MarksOfInFlight
    <3> QED
      BY <3>5 DEF RedisPurge, Noted
  <2> QED
    BY <2>1, <2>2, <2>3, <2>4 DEF Reachable
<1>5. PurgeProgress(c)'
  BY <1>1, <1>2, <1>3, <1>4 DEF PurgeProgress, StillStored, Postgres, BetterAuth
<1>6. Progress(c)'
  BY <1>2, <1>3, <1>5 DEF Progress
<1> QED
  BY <1>1, <1>6, SameChanges, EntersSound DEF tables

LEMMA RedisCallSound ==
  ASSUME ReturnTypes, UNCHANGED backend, NEW c \in Calls, RedisCall(c)
  PROVE  StepSound
<1> USE DEF ReturnTypes, ReturnInv
<1>1. ASSUME NEW s \in Sessions, SetRow(c, s) PROVE StepSound
  <2> DEFINE o == [op |-> "setSession", sid |-> s, at |-> "sadd"]
  <2>1. /\ Enters(c, o) /\ rows' = rows \cup {s} /\ backend = "redis"
        /\ UNCHANGED <<keys, legacy, challenges>>
    BY <1>1 DEF SetRow, OnRedis, Serves
  <2>2. <<"session", s>> \in Marks(o)
    BY DEF Marks
  <2>3. RowsChange(Marks(o))
    BY <2>1, <2>2 DEF RowsChange, Postgres
  <2>4. Changes(Marks(o))
    BY <2>1, <2>3, SameKeys, SameLegacy, SameChallenges DEF Changes
  <2> QED
    BY <2>1, <2>4, EntersPlainSound
<1>2. ASSUME NEW s \in Sessions, GetRow(c, s) PROVE StepSound
  <2> DEFINE o == [op |-> "revokeSession", sid |-> s,
                   at |-> IF s \in rows THEN "srem" ELSE "del"]
  <2>1. Enters(c, o) /\ UNCHANGED tables
    BY <1>2 DEF GetRow
  <2>2. call'[c] = o
    BY <2>1, EntersStep
  <2>3. Progress(c)'
    BY <2>2 DEF Progress, RevokeProgress
  <2> QED
    BY <2>1, <2>3, SameChanges, EntersSound DEF tables
<1>3. ASSUME NEW s \in Sessions, DelNativeKey(c, s) PROVE StepSound
  <2> DEFINE o == [op |-> "deleteBoundKey", sid |-> s, at |-> "legacyDel"]
  <2>1. /\ Enters(c, o) /\ keys' = NoKeys(s, {"native"})
        /\ UNCHANGED <<rows, legacy, challenges>>
    BY <1>3 DEF DelNativeKey
  <2>2. <<"gone", s>> \in Marks(o)
    BY DEF Marks
  <2>3. Changes(Marks(o))
    BY <2>1, <2>2, SameRows, NoKeysChange, SameLegacy, SameChallenges DEF Changes
  <2> QED
    BY <2>1, <2>3, EntersPlainSound
<1> QED
  BY <1>1, <1>2, <1>3, RedisKeyCallSound, SMembersSound DEF RedisCall

\* What a command of a revokeAllForUser starts from.
LEMMA PurgeFacts ==
  ASSUME ReturnTypes, NEW c \in Calls, NEW step, At(c, {"revokeAllForUser"}, step)
  PROVE  /\ call[c] \in Operations /\ call[c] \notin {Null, Failed}
         /\ call[c].op = "revokeAllForUser" /\ call[c].at = step
         /\ call[c].user \in Users /\ PurgesOwn(c) /\ PurgeProgress(c)
         /\ \A s \in SessionsOf(call[c].user) : <<"gone", s>> \in Marks(call[c])
<1>1. /\ call[c] \in Operations /\ call[c] \notin {Null, Failed}
      /\ call[c].op = "revokeAllForUser" /\ call[c].at = step
  BY AtIsInFlight DEF At, ReturnTypes
<1>2. call[c].user \in Users
  BY <1>1, Fields
<1>3. PurgesOwn(c)
  BY <1>1 DEF ReturnTypes, ReturnInv, OwnInv, Calls1, Purges
<1>4. PurgeProgress(c)
  BY <1>1 DEF ReturnTypes, ReturnInv, ProgressInv, InFlight, Progress
<1>5. \A s \in SessionsOf(call[c].user) : <<"gone", s>> \in Marks(call[c])
  BY <1>1 DEF Marks
<1> QED
  BY <1>1, <1>2, <1>3, <1>4, <1>5

LEMMA PipelineGoesSound ==
  ASSUME ReturnTypes, UNCHANGED backend, backend = "redis", NEW c \in Calls,
         At(c, {"revokeAllForUser"}, call[c].at),
         NEW step \in Steps, step # "sessions", GoesTo(c, step),
         step = "index" => call[c].found = {},
         Changes(Marks(call[c])),
         \A s \in call[c].had : RedisPurge(c, s)'
  PROVE  StepSound
<1> USE DEF ReturnTypes, ReturnInv
<1>1. /\ call[c] \in Operations /\ call[c] \notin {Null, Failed}
      /\ call[c].op = "revokeAllForUser"
  BY PurgeFacts
<1>2. /\ Proceeds(c) /\ ~Returns(c) /\ ~Breaks(c)
      /\ call'[c] = [call[c] EXCEPT !.at = step]
  BY <1>1, GoesToProceeds
<1>3. /\ call'[c].op = "revokeAllForUser" /\ call'[c].at = step
      /\ call'[c].found = call[c].found /\ call'[c].had = call[c].had
  BY <1>1, <1>2, SameFields
<1>4. PurgeProgress(c)'
  BY <1>3 DEF PurgeProgress, StillStored, Postgres, BetterAuth
<1>5. Acted(c)
  BY <1>2, <1>3, <1>4 DEF Acted, Progress
<1> QED
  BY <1>2, <1>5, ProceedsSound

\* DEL of the row of the next member, done or refused.
LEMMA PipelineRowSound ==
  ASSUME ReturnTypes, UNCHANGED backend, NEW c \in Calls,
         PipelineDelRow(c) \/ PipelineKeepsRow(c)
  PROVE  StepSound
<1> USE DEF ReturnTypes, ReturnInv
<1>1. PICK s \in call[c].found :
        \/ /\ rows' = rows \ {s}
           /\ call' = [call EXCEPT ![c].at = "native", ![c].sid = s,
                                   ![c].found = @ \ {s}]
        \/ /\ UNCHANGED rows
           /\ call' = [call EXCEPT ![c].at = "native", ![c].sid = s,
                                   ![c].found = @ \ {s},
                                   ![c].refused = @ \cup {<<"row", s>>}]
  BY DEF PipelineDelRow, PipelineKeepsRow, tables
<1>2. /\ UNCHANGED <<keys, legacy, challenges, overlaps>> /\ backend = "redis"
      /\ At(c, {"revokeAllForUser"}, "row")
  BY DEF PipelineDelRow, PipelineKeepsRow, OnRedis, Serves, tables
<1>3. /\ call[c] \in Operations /\ call[c] \notin {Null, Failed}
      /\ call[c].op = "revokeAllForUser" /\ call[c].at = "row" /\ PurgeProgress(c)
  BY <1>2, PurgeFacts
<1>4. call[c] \in [op : {"revokeAllForUser"}, user : Users, sid : Sessions \cup {Null},
                   found : SUBSET Findable, had : SUBSET Sessions,
                   refused : SUBSET ({"row", "key"} \X (Sessions \cup {Null})),
                   at : Steps]
  BY <1>3 DEF Operations, OperationsOn, SessionCalls
<1>5. /\ \/ /\ call'[c] = [call[c] EXCEPT !.at = "native", !.sid = s, !.found = @ \ {s}]
            /\ s \notin rows'
         \/ call'[c] = [call[c] EXCEPT !.at = "native", !.sid = s, !.found = @ \ {s},
                                       !.refused = @ \cup {<<"row", s>>}]
      /\ \A d \in Calls \ {c} : call'[d] = call[d]
  BY <1>1 DEF CallTypes
<1>6. /\ call'[c].op = "revokeAllForUser" /\ call'[c].user = call[c].user
      /\ call'[c].found = call[c].found \ {s} /\ call'[c].had = call[c].had
      /\ call'[c].at = "native" /\ call'[c].sid = s
      /\ call[c].refused \subseteq call'[c].refused
      /\ s \notin rows' \/ <<"row", s>> \in call'[c].refused
  <2>1. CASE /\ call'[c] = [call[c] EXCEPT !.at = "native", !.sid = s, !.found = @ \ {s}]
             /\ s \notin rows'
    BY <1>4, <2>1
  <2>2. CASE call'[c] = [call[c] EXCEPT !.at = "native", !.sid = s, !.found = @ \ {s},
                                       !.refused = @ \cup {<<"row", s>>}]
    <3>1. call'[c].refused = call[c].refused \cup {<<"row", s>>}
      BY <1>4, <2>2
    <3>2. /\ call'[c].op = "revokeAllForUser" /\ call'[c].user = call[c].user
          /\ call'[c].found = call[c].found \ {s} /\ call'[c].had = call[c].had
          /\ call'[c].at = "native" /\ call'[c].sid = s
      BY <1>4, <2>2
    <3> QED
      BY <3>1, <3>2
  <2> QED
    BY <1>5, <2>1, <2>2
<1>7. Proceeds(c)
  <2>1. Marks(call'[c]) = Marks(call[c]) /\ Heeds(call'[c]) = Heeds(call[c])
    BY <1>3, <1>6, SameMarks DEF SessionOperations
  <2> QED
    BY <1>2, <1>3, <1>5, <2>1 DEF Proceeds
<1>8. call'[c] \notin {Null, Failed}
  <2>1. s \in Sessions
    BY <1>2, <1>4 DEF Findable, Postgres
  <2>2. call'[c] \in Operations
    <3>1. [call[c] EXCEPT !.at = "native", !.sid = s, !.found = @ \ {s}] \in Operations
      BY ZenonT(30), <1>3, <2>1 DEF SessionCalls, Operations, OperationsOn, Steps
    <3>2. [call[c] EXCEPT !.at = "native", !.sid = s, !.found = @ \ {s},
                          !.refused = @ \cup {<<"row", s>>}] \in Operations
      BY <1>3, <2>1, RefusedTyped
    <3> QED
      BY <1>5, <3>1, <3>2
  <2> QED
    BY <1>6, <2>2, NullIsNoCall DEF Failed
<1>9. rows' \subseteq rows /\ \A t \in rows : t # s => t \in rows'
  BY <1>1
<1>10. ASSUME NEW t \in call[c].had PROVE RedisPurge(c, t)'
  <2>1. RedisPurge(c, t)
    BY <1>2, <1>3, <1>10 DEF PurgeProgress
  <2>2. CASE t = s
    BY <1>6, <2>2 DEF RedisPurge, Pending
  <2>3. CASE t # s
    BY <1>2, <1>3, <1>6, <1>9, <2>1, <2>3 DEF RedisPurge, Noted, KeyGone, Pending
  <2> QED
    BY <2>2, <2>3
<1>11. PurgeProgress(c)'
  BY <1>2, <1>6, <1>10 DEF PurgeProgress, StillStored, Postgres, BetterAuth
<1>12. Acted(c)
  BY <1>6, <1>8, <1>11 DEF Acted, Progress, Returns, Breaks
<1>13. RowsChange(Marks(call[c]))
  BY <1>2, <1>9, FewerRows
<1>14. Changes(Marks(call[c]))
  BY <1>2, <1>13, SameKeys, SameLegacy, SameChallenges DEF Changes
<1> QED
  BY <1>7, <1>12, <1>14, ProceedsSound

\* A DEL of keys that fails: the call goes on and has been told.
LEMMA KeepsKeyFields ==
  ASSUME CallTypes, UNCHANGED backend, NEW c \in Calls, NEW next \in Steps,
         call[c] \in Operations, call[c] # Null, call[c].op = "revokeAllForUser",
         KeepsKey(c, next)
  PROVE  /\ Proceeds(c) /\ ~Returns(c) /\ ~Breaks(c) /\ UNCHANGED <<tables, overlaps>>
         /\ \A d \in Calls \ {c} : call'[d] = call[d]
         /\ call'[c].op = "revokeAllForUser" /\ call'[c].user = call[c].user
         /\ call'[c].found = call[c].found /\ call'[c].had = call[c].had
         /\ call'[c].at = next /\ call'[c].sid = call[c].sid
         /\ call'[c].refused = call[c].refused \cup {<<"key", call[c].sid>>}
<1>1. call[c] \in [op : {"revokeAllForUser"}, user : Users, sid : Sessions \cup {Null},
                   found : SUBSET Findable, had : SUBSET Sessions,
                   refused : SUBSET ({"row", "key"} \X (Sessions \cup {Null})),
                   at : Steps]
  BY DEF Operations, OperationsOn, SessionCalls, Failed
<1>2. /\ call'[c] = [call[c] EXCEPT !.at = next,
                                    !.refused = @ \cup {<<"key", call[c].sid>>}]
      /\ \A d \in Calls \ {c} : call'[d] = call[d]
      /\ UNCHANGED <<tables, overlaps>>
  BY DEF KeepsKey, CallTypes
<1>3. call'[c].refused = call[c].refused \cup {<<"key", call[c].sid>>}
  BY <1>1, <1>2
<1>4. /\ call'[c].op = "revokeAllForUser" /\ call'[c].user = call[c].user
      /\ call'[c].found = call[c].found /\ call'[c].had = call[c].had
      /\ call'[c].at = next /\ call'[c].sid = call[c].sid
  BY <1>1, <1>2
<1>5. call'[c] # Null /\ call'[c] # Failed
  <2>1. call'[c] \in Operations
    BY ZenonT(30), <1>2, RefusedTyped
  <2> QED
    BY <1>4, <2>1, NullIsNoCall DEF Failed
<1>6. Proceeds(c)
  <2>1. Marks(call'[c]) = Marks(call[c]) /\ Heeds(call'[c]) = Heeds(call[c])
    BY <1>4, SameMarks DEF SessionOperations
  <2> QED
    BY <1>2, <2>1 DEF Proceeds
<1> QED
  BY <1>2, <1>3, <1>4, <1>5, <1>6 DEF Returns, Breaks

LEMMA PipelineKeepsKeySound ==
  ASSUME ReturnTypes, UNCHANGED backend, backend = "redis", NEW c \in Calls,
         NEW at, At(c, {"revokeAllForUser"}, at), at \in Pending,
         NEW next \in Steps, next # "sessions",
         next = "index" => call[c].found = {},
         next = "bound" => at = "native",
         next \in {"bound", "unsuffixed", "row", "index"},
         KeepsKey(c, next)
  PROVE  StepSound
<1> USE DEF ReturnTypes, ReturnInv
<1>1. /\ call[c] \in Operations /\ call[c] \notin {Null, Failed}
      /\ call[c].op = "revokeAllForUser" /\ call[c].at = at
      /\ PurgesOwn(c) /\ PurgeProgress(c)
  BY PurgeFacts
<1>2. /\ Proceeds(c) /\ ~Returns(c) /\ ~Breaks(c) /\ UNCHANGED <<tables, overlaps>>
      /\ call'[c].op = "revokeAllForUser"
      /\ call'[c].found = call[c].found /\ call'[c].had = call[c].had
      /\ call'[c].at = next /\ call'[c].sid = call[c].sid
      /\ call'[c].refused = call[c].refused \cup {<<"key", call[c].sid>>}
  BY <1>1, KeepsKeyFields
<1>3. ASSUME NEW t \in call[c].had PROVE RedisPurge(c, t)'
  <2>1. RedisPurge(c, t)
    BY <1>1, <1>3 DEF PurgeProgress
  <2>2. CASE t # call[c].sid
    BY <1>2, <2>1, <2>2 DEF RedisPurge, Noted, KeyGone, tables
  <2>3. CASE t = call[c].sid
    BY <1>2, <2>1, <2>3 DEF RedisPurge, Noted, tables
  <2> QED
    BY <2>2, <2>3
<1>4. PurgeProgress(c)'
  BY <1>2, <1>3 DEF PurgeProgress, StillStored, Postgres, BetterAuth
<1>5. Acted(c)
  BY <1>2, <1>4 DEF Acted, Progress
<1> QED
  BY <1>2, <1>5, SameChanges, ProceedsSound DEF tables

LEMMA PipelineDelKeySound ==
  ASSUME ReturnTypes, UNCHANGED backend, NEW c \in Calls,
         NEW kind \in Kinds, NEW next \in Steps,
         <<kind, next>> \in {<<"native", "bound">>, <<"bound", "unsuffixed">>},
         PipelineDelKey(c, kind, next)
  PROVE  StepSound
<1> USE DEF ReturnTypes, ReturnInv
<1>1. /\ UNCHANGED <<rows, legacy, challenges>> /\ backend = "redis"
      /\ keys' = NoKeys(call[c].sid, {kind}) /\ GoesTo(c, next)
      /\ At(c, {"revokeAllForUser"}, kind)
  BY DEF PipelineDelKey, OnRedis, Serves
<1>2. /\ call[c] \in Operations /\ call[c] \notin {Null, Failed}
      /\ call[c].op = "revokeAllForUser" /\ call[c].at = kind
      /\ PurgesOwn(c) /\ PurgeProgress(c)
      /\ \A s \in SessionsOf(call[c].user) : <<"gone", s>> \in Marks(call[c])
  BY <1>1, PurgeFacts
<1>3. call[c].sid \in SessionsOf(call[c].user) /\ call[c].sid \in Sessions
  BY <1>2 DEF PurgesOwn, Pending, SessionsOf
<1>4. Changes(Marks(call[c]))
  BY <1>1, <1>2, <1>3, SameRows, NoKeysChange, SameLegacy, SameChallenges DEF Changes
<1>5. /\ call'[c].at = next /\ call'[c].sid = call[c].sid
      /\ call'[c].found = call[c].found /\ call'[c].had = call[c].had
      /\ call'[c].refused = call[c].refused /\ UNCHANGED overlaps
  <2>1. call'[c] = [call[c] EXCEPT !.at = next] /\ UNCHANGED overlaps
    BY <1>1 DEF GoesTo, CallTypes
  <2>2. call'[c].op = "revokeAllForUser" /\ call'[c].at = next
    BY <1>2, <2>1, SameFields
  <2> QED
    BY <1>2, <2>1, <2>2, SameFields
<1>6. ASSUME NEW t \in call[c].had PROVE RedisPurge(c, t)'
  <2>1. RedisPurge(c, t) /\ t \in Sessions
    BY <1>1, <1>2, <1>6 DEF PurgeProgress, PurgesOwn, SessionsOf
  <2>2. \A k \in Kinds : KeyGone(c, t, k) => KeyGone(c, t, k)'
    BY <1>1, <1>5, <2>1 DEF KeyGone, Noted, NoKeys, DataTypes
  <2>3. CASE t # call[c].sid
    BY <1>1, <1>5, <2>1, <2>2, <2>3 DEF RedisPurge, Noted
  <2>4. CASE t = call[c].sid
    <3>1. KeyGone(c, t, kind)'
      BY <1>1, <2>1, <2>4 DEF KeyGone, NoKeys, DataTypes
    <3> QED
      BY <1>1, <1>2, <1>5, <2>1, <2>2, <2>4, <3>1 DEF RedisPurge, Noted, Kinds, Pending
  <2> QED
    BY <2>3, <2>4
<1>7. next # "index" /\ next # "sessions"
  OBVIOUS
<1> QED
  BY <1>1, <1>2, <1>4, <1>6, <1>7, PipelineGoesSound

LEMMA PipelineDelLegacySound ==
  ASSUME ReturnTypes, UNCHANGED backend, NEW c \in Calls, PipelineDelLegacy(c)
  PROVE  StepSound
<1> USE DEF ReturnTypes, ReturnInv
<1>1. /\ UNCHANGED <<rows, keys, challenges>> /\ backend = "redis"
      /\ legacy' = [legacy EXCEPT ![call[c].sid] = Null]
      /\ GoesTo(c, IF call[c].found = {} THEN "index" ELSE "row")
      /\ At(c, {"revokeAllForUser"}, "unsuffixed")
  BY DEF PipelineDelLegacy, NextMember, OnRedis, Serves
<1>2. PICK next \in {"index", "row"} :
        GoesTo(c, next) /\ (next = "index" => call[c].found = {})
  <2>1. CASE call[c].found = {}
    BY <1>1, <2>1
  <2>2. CASE call[c].found # {}
    BY <1>1, <2>2
  <2> QED
    BY <2>1, <2>2
<1>3. /\ call[c] \in Operations /\ call[c] \notin {Null, Failed}
      /\ call[c].op = "revokeAllForUser" /\ call[c].at = "unsuffixed"
      /\ PurgesOwn(c) /\ PurgeProgress(c)
      /\ \A s \in SessionsOf(call[c].user) : <<"gone", s>> \in Marks(call[c])
  BY <1>1, PurgeFacts
<1>4. call[c].sid \in SessionsOf(call[c].user) /\ call[c].sid \in Sessions
  BY <1>3 DEF PurgesOwn, Pending, SessionsOf
<1>5. LegacyChange(Marks(call[c]))
  BY <1>1, <1>3, <1>4, NoLegacyChange
<1>6. Changes(Marks(call[c]))
  BY <1>1, <1>5, SameRows, SameKeys, SameChallenges DEF Changes
<1>7. /\ call'[c].at = next /\ call'[c].sid = call[c].sid
      /\ call'[c].found = call[c].found /\ call'[c].had = call[c].had
      /\ call'[c].refused = call[c].refused /\ UNCHANGED overlaps
  <2>1. call'[c] = [call[c] EXCEPT !.at = next] /\ UNCHANGED overlaps
    BY <1>2 DEF GoesTo, CallTypes
  <2>2. call'[c].op = "revokeAllForUser" /\ call'[c].at = next
    BY <1>3, <2>1, SameFields
  <2> QED
    BY <1>3, <2>1, <2>2, SameFields
<1>8. ASSUME NEW t \in call[c].had PROVE RedisPurge(c, t)'
  <2>1. RedisPurge(c, t) /\ t \in Sessions
    BY <1>1, <1>3, <1>8 DEF PurgeProgress, PurgesOwn, SessionsOf
  <2>2. \A k \in Kinds : KeyGone(c, t, k) => KeyGone(c, t, k)'
    BY <1>1, <1>7 DEF KeyGone, Noted
  <2>3. legacy'[t] = Null \/ (t # call[c].sid /\ legacy'[t] = legacy[t])
    BY <1>1, <2>1 DEF DataTypes
  <2> QED
    BY <1>1, <1>3, <1>7, <2>1, <2>2, <2>3 DEF RedisPurge, Noted, Pending
<1>9. next \in Steps /\ next # "sessions"
  BY DEF Steps
<1> QED
  BY <1>1, <1>2, <1>3, <1>6, <1>8, <1>9, PipelineGoesSound

LEMMA PipelineKeepsLegacySound ==
  ASSUME ReturnTypes, UNCHANGED backend, NEW c \in Calls, PipelineKeepsLegacy(c)
  PROVE  StepSound
<1>1. /\ backend = "redis" /\ At(c, {"revokeAllForUser"}, "unsuffixed")
      /\ KeepsKey(c, IF call[c].found = {} THEN "index" ELSE "row")
  BY DEF PipelineKeepsLegacy, NextMember, OnRedis, Serves
<1>2. PICK next \in {"index", "row"} :
        KeepsKey(c, next) /\ (next = "index" => call[c].found = {})
  <2>1. CASE call[c].found = {}
    BY <1>1, <2>1
  <2>2. CASE call[c].found # {}
    BY <1>1, <2>2
  <2> QED
    BY <2>1, <2>2
<1>3. /\ next \in Steps /\ next # "sessions" /\ next # "bound"
      /\ next \in {"bound", "unsuffixed", "row", "index"} /\ "unsuffixed" \in Pending
  BY DEF Steps, Pending
<1> QED
  BY <1>1, <1>2, <1>3, PipelineKeepsKeySound

\* The last DEL, done or refused: the call returns either way.
LEMMA PipelineIndexSound ==
  ASSUME ReturnTypes, UNCHANGED backend, NEW c \in Calls,
         PipelineDelIndex(c) \/ PipelineKeepsIndex(c)
  PROVE  StepSound
<1> USE DEF ReturnTypes, ReturnInv
<1>1. /\ UNCHANGED <<rows, keys, legacy, challenges>> /\ backend = "redis"
      /\ Answers(c) /\ At(c, {"revokeAllForUser"}, "index")
  BY DEF PipelineDelIndex, PipelineKeepsIndex, OnRedis, Serves, tables
<1>2. /\ call[c] \in Operations /\ call[c] \notin {Null, Failed}
      /\ call[c].op = "revokeAllForUser" /\ call[c].at = "index"
      /\ PurgesOwn(c) /\ PurgeProgress(c)
  BY <1>1, PurgeFacts
<1>3. ASSUME NEW s \in call[c].had
      PROVE  <<"gone", s>> \in overlaps[c] \/ RevokedFor(c, s)
  <2>1. RedisPurge(c, s) /\ s \notin call[c].found
    BY <1>1, <1>2, <1>3 DEF PurgeProgress, Postgres
  <2>2. CASE <<"gone", s>> \in overlaps[c] \/ <<"session", s>> \in overlaps[c]
    BY <1>1, <2>2 DEF RevokedFor, Postgres
  <2>3. CASE /\ s \notin rows \/ <<"row", s>> \in call[c].refused
             /\ \/ <<"key", s>> \in call[c].refused
                \/ (\A kind \in Kinds : KeyGone(c, s, kind)) /\ legacy[s] = Null
    <3>1. \/ HasKey(s, Kinds)' = FALSE
          \/ \E kind \in Kinds : <<"key", s, kind>> \in overlaps[c]
          \/ <<"key", s>> \in call[c].refused
      <4>1. CASE (\A kind \in Kinds : keys[s][kind] = {}) /\ legacy[s] = Null
        BY <1>1, <4>1, NoKeyLeft
      <4> QED
        BY <2>3, <4>1 DEF KeyGone, Noted
    <3>2. Refused(call[c]) = call[c].refused
      BY <1>2 DEF Refused
    <3> QED
      BY <1>1, <2>3, <3>1, <3>2 DEF RevokedFor
  <2>4. call[c].at \notin Pending
    BY <1>2 DEF Pending
  <2> QED
    BY <1>2, <2>1, <2>2, <2>3, <2>4 DEF RedisPurge, Noted
<1>4. Done(c)
  BY <1>2, <1>3 DEF Done, RevocationDone, ReadDone, WriteDone, Targets
<1> QED
  BY <1>1, <1>2, <1>4, SameChanges, ReturnsSound

LEMMA RedisCommandSound ==
  ASSUME ReturnTypes, UNCHANGED backend, NEW c \in Calls, RedisCommand(c)
  PROVE  StepSound
<1> USE DEF ReturnTypes, ReturnInv
<1>1. CASE AddToIndex(c)
  <2>1. /\ Answers(c) /\ UNCHANGED <<rows, keys, legacy, challenges>>
        /\ call[c] # Null /\ call[c].op = "setSession"
    BY <1>1 DEF AddToIndex, At
  <2> QED
    BY <2>1, SameChanges, ReturnsPlainSound
<1>2. CASE RemoveFromIndex(c)
  <2>1. /\ GoesTo(c, "del") /\ UNCHANGED <<rows, keys, legacy, challenges>>
        /\ At(c, {"revokeSession"}, "srem")
    BY <1>2 DEF RemoveFromIndex
  <2>2. call[c] \in Operations /\ call[c] \notin {Null, Failed}
        /\ call[c].op = "revokeSession"
    BY <2>1, AtIsInFlight
  <2>3. /\ Proceeds(c) /\ ~Returns(c) /\ ~Breaks(c)
        /\ call'[c] = [call[c] EXCEPT !.at = "del"]
    BY <2>1, <2>2, GoesToProceeds DEF Steps
  <2>4. call'[c].op = "revokeSession" /\ call'[c].at = "del"
    BY <2>2, <2>3, SameFields
  <2>5. Acted(c)
    BY <2>3, <2>4 DEF Acted, Progress, RevokeProgress
  <2> QED
    BY <2>1, <2>3, <2>5, SameChanges, ProceedsSound
<1>3. CASE DelSession(c)
  <2>1. At(c, {"revokeSession"}, "del") /\ Answers(c)
    BY <1>3 DEF DelSession
  <2>2. /\ call[c] \in Operations /\ call[c] \notin {Null, Failed}
        /\ call[c].op = "revokeSession" /\ call[c].sid \in Sessions
    BY SMTT(30), <2>1, AtIsInFlight, Fields DEF SessionOperations
  <2>3. PICK s \in Sessions : s = call[c].sid
    BY <2>2
  <2>4. /\ rows' = rows \ {s} /\ UNCHANGED challenges /\ backend = "redis"
        /\ keys' = [keys EXCEPT ![s] = [kind \in Kinds |-> {}]]
        /\ legacy' = [legacy EXCEPT ![s] = Null]
    BY <1>3, <2>3 DEF DelSession, OnRedis, Serves
  <2>5. <<"gone", s>> \in Marks(call[c])
    BY <2>2, <2>3 DEF Marks
  <2>6. (\A kind \in Kinds : keys'[s][kind] = {}) /\ legacy'[s] = Null
    BY <2>4 DEF DataTypes
  <2>7. KeysChange(Marks(call[c]))
    BY <2>4, <2>5, <2>6 DEF KeysChange, DataTypes
  <2>8. Changes(Marks(call[c]))
    BY <2>4, <2>5, <2>7, FewerRows, NoLegacyChange, SameChallenges DEF Changes
  <2>9. RevokedFor(c, s)
    <3>1. HasKey(s, Kinds)' = FALSE
      BY <2>6, NoKeyLeft
    <3> QED
      BY <2>4, <3>1 DEF RevokedFor
  <2>10. Done(c)
    BY <2>2, <2>3, <2>9 DEF Done, RevocationDone, ReadDone, WriteDone, Targets
  <2> QED
    BY <2>1, <2>2, <2>8, <2>10, ReturnsSound
<1>4. CASE GetLegacyKey(c)
  <2>1. Answers(c) /\ UNCHANGED tables /\ At(c, {"getBoundKey"}, "legacy")
    BY <1>4 DEF GetLegacyKey
  <2>2. /\ call[c] # Null /\ call[c].op = "getBoundKey" /\ call[c].at = "legacy"
        /\ GetProgress(c)
    BY <2>1 DEF At, ProgressInv, InFlight, Progress
  <2>3. ReadDone(c)
    BY <2>2 DEF ReadDone, MissesForCause, Found, GetProgress, Noted
  <2>4. Done(c)
    BY <2>2, <2>3 DEF Done, RevocationDone, WriteDone
  <2> QED
    BY <2>1, <2>2, <2>4, SameChanges, ReturnsSound DEF tables
<1>5. CASE DelLegacyKey(c)
  <2> DEFINE s == call[c].sid
  <2>1. /\ Answers(c) /\ UNCHANGED <<rows, keys, challenges>>
        /\ legacy' = [legacy EXCEPT ![s] = Null]
        /\ At(c, {"setBoundKey", "deleteBoundKey"}, "legacyDel")
    BY <1>5 DEF DelLegacyKey
  <2>2. /\ call[c] \in Operations /\ call[c] \notin {Null, Failed}
        /\ call[c].op \in {"setBoundKey", "deleteBoundKey"} /\ s \in Sessions
        /\ call[c].at = "legacyDel"
    BY <2>1, AtIsInFlight, Fields DEF SessionOperations, At
  <2>3. call[c].op = "setBoundKey" => SetProgress(c)
    BY <2>2 DEF ProgressInv, InFlight, Progress
  <2>4. <<"gone", s>> \in Marks(call[c]) \/ <<"key", s, "native">> \in Marks(call[c])
    BY <2>2, <2>3 DEF Marks, SetProgress
  <2>5. WriteDone(c)
    BY <2>1, <2>2, <2>3 DEF WriteDone, KeyLeft, SetProgress, Noted, DataTypes
  <2> HIDE DEF s
  <2>6. LegacyChange(Marks(call[c]))
    BY <2>1, <2>4, NoLegacyChange
  <2>7. Changes(Marks(call[c]))
    BY <2>1, <2>6, SameRows, SameKeys, SameChallenges DEF Changes
  <2>8. Done(c)
    BY <2>2, <2>5 DEF Done, RevocationDone, ReadDone
  <2> QED
    BY <2>1, <2>2, <2>7, <2>8, ReturnsSound
<1>6. CASE RedisFails(c)
  BY <1>6, FailsSound DEF RedisFails, tables
<1>7. CASE PipelineDelKey(c, "native", "bound") \/ PipelineDelKey(c, "bound", "unsuffixed")
  BY <1>7, PipelineDelKeySound DEF Kinds, Steps
<1>8. CASE \/ PipelineKeepsKey(c, "native", "bound")
           \/ PipelineKeepsKey(c, "bound", "unsuffixed")
  <2>1. PICK at \in {"native", "bound"}, next \in {"bound", "unsuffixed"} :
          PipelineKeepsKey(c, at, next) /\ (next = "bound" => at = "native")
    BY <1>8
  <2>2. /\ At(c, {"revokeAllForUser"}, at) /\ KeepsKey(c, next) /\ backend = "redis"
        /\ at \in Pending /\ next \in Steps
        /\ next \in {"bound", "unsuffixed", "row", "index"}
        /\ next # "index" /\ next # "sessions"
    BY <2>1 DEF PipelineKeepsKey, OnRedis, Serves, Pending, Steps
  <2> QED
    BY <2>1, <2>2, PipelineKeepsKeySound
<1> QED
  BY <1>1, <1>2, <1>3, <1>4, <1>5, <1>6, <1>7, <1>8, PipelineRowSound,
     PipelineDelLegacySound, PipelineKeepsLegacySound, PipelineIndexSound
     DEF RedisCommand

LEMMA RedisSound ==
  ASSUME ReturnTypes, UNCHANGED backend, RedisNext
  PROVE  StepSound
<1> USE DEF ReturnTypes, ReturnInv
<1>1. CASE \E c \in Calls : RedisCall(c) \/ RedisCommand(c)
  BY <1>1, RedisCallSound, RedisCommandSound
<1>2. ASSUME NEW s \in Sessions, NEW key \in Keys, SetPolyfillKey(s, key)
      PROVE  StepSound
  <2> DEFINE o == [op |-> "setBoundKey", sid |-> s, kind |-> "bound"]
  <2>1. /\ Passes(o) /\ UNCHANGED <<rows, legacy, challenges>>
        /\ keys' = [keys EXCEPT ![s]["bound"] = {key}]
    BY <1>2 DEF SetPolyfillKey, SetKey
  <2>2. <<"key", s, "bound">> \in Marks(o) /\ "bound" \in Kinds
    BY DEF Marks, Kinds
  <2>3. KeysChange(Marks(o))
    BY <2>1, <2>2, SetKeyChange
  <2> QED
    BY <2>1, <2>3, SameRows, SameLegacy, SameChallenges, PassesSound DEF Changes
<1>3. ASSUME NEW s \in Sessions, NEW kinds \in KindSets, DelKeys(s, kinds)
      PROVE  StepSound
  <2> DEFINE o == [op |-> "deleteBoundKey", sid |-> s]
  <2>1. /\ Passes(o) /\ UNCHANGED <<rows, challenges>> /\ keys' = NoKeys(s, kinds)
        /\ legacy' = legacy \/ legacy' = [legacy EXCEPT ![s] = Null]
    BY <1>3 DEF DelKeys
  <2>2. <<"gone", s>> \in Marks(o)
    BY DEF Marks
  <2>3. LegacyChange(Marks(o))
    BY <2>1, <2>2, SameLegacy, NoLegacyChange
  <2> QED
    BY <2>1, <2>2, <2>3, SameRows, NoKeysChange, SameChallenges, PassesSound DEF Changes
<1>4. ASSUME NEW s \in Sessions, NEW j \in Jtis, SetChallengeRow(j, s)
      PROVE  StepSound
  <2> DEFINE o == [op |-> "setChallenge", sid |-> s]
  <2>1. Passes(o) /\ UNCHANGED <<rows, keys, legacy>> /\ StoreChallenge(j, s)
    BY <1>4 DEF SetChallengeRow
  <2>2. <<"challenge", s>> \in Marks(o)
    BY DEF Marks
  <2> QED
    BY <2>1, <2>2, SameRows, SameKeys, SameLegacy, StoreChange, PassesSound DEF Changes
<1>5. ASSUME NEW j \in Jtis, EvalConsume(j) PROVE StepSound
  <2>1. /\ UNCHANGED <<rows, keys, legacy, call, overlaps>>
        /\ challenges' = [challenges EXCEPT ![j].state = "consumed"]
    BY <1>5 DEF EvalConsume, callVars
  <2> QED
    BY <2>1, SameRows, SameKeys, SameLegacy, CloseChange, QuietSound DEF Changes
<1>6. CASE Evicts
  <2>1. UNCHANGED <<keys, legacy, call, overlaps>> /\ rows' \subseteq rows /\ backend = "redis"
    BY <1>6 DEF Evicts, callVars, OnRedis, Serves
  <2>2. ChallengesChange({})
    <3>1. CASE UNCHANGED challenges
      BY <3>1, SameChallenges
    <3>2. CASE \E j \in Jtis : challenges' = [challenges EXCEPT ![j].state = "gone"]
      BY <3>2, CloseChange
    <3> QED
      BY <1>6, <3>1, <3>2 DEF Evicts
  <2> QED
    BY <2>1, <2>2, FewerRows, SameKeys, SameLegacy, QuietSound DEF Changes
<1> QED
  BY <1>1, <1>2, <1>3, <1>4, <1>5, <1>6 DEF RedisNext

-----------------------------------------------------------------------------
(***************************************************************************)
(* PostgreSQL.                                                             *)
(***************************************************************************)

LEMMA DropRowsChange ==
  ASSUME DataTypes, NEW R, DropRows(R), NEW M,
         \A s \in Sessions : <<"session", s>> \in R => <<"gone", s>> \in M,
         \A s \in Sessions, kind \in Kinds :
           <<"key", s, kind>> \in R => <<"gone", s>> \in M
  PROVE  Changes(M)
<1>1. RowsChange(M)
  BY DEF DropRows, RowsChange
<1>2. KeysChange(M)
  <2> SUFFICES ASSUME NEW s \in Sessions, NEW kind \in Kinds
               PROVE  \/ keys'[s][kind] = keys[s][kind]
                      \/ keys'[s][kind] = {} /\ <<"gone", s>> \in M
    BY DEF KeysChange
  <2>1. keys'[s][kind] = IF <<"key", s, kind>> \in R THEN {} ELSE keys[s][kind]
    BY DEF DropRows
  <2> QED
    BY <2>1
<1>3. ChallengesChange(M)
  <2> SUFFICES ASSUME NEW j \in Jtis, challenges'[j].state = "open"
               PROVE  challenges'[j] = challenges[j]
    BY DEF ChallengesChange
  <2>1. challenges'[j] = IF <<"challenge", j>> \in R
                         THEN [challenges[j] EXCEPT !.state = "gone"]
                         ELSE challenges[j]
    BY DEF DropRows
  <2>2. challenges[j] \in [sid : Sessions \cup {Null}, state : ChallengeStates]
    BY DEF DataTypes
  <2> QED
    BY <2>1, <2>2
<1> QED
  BY <1>1, <1>2, <1>3, SameLegacy DEF Changes, DropRows

LEMMA DeleteUserChallengesSound ==
  ASSUME ReturnTypes, UNCHANGED backend, NEW c \in Calls, NEW u \in Users,
         DeleteUserChallenges(c, u)
  PROVE  StepSound
<1> USE DEF ReturnTypes, ReturnInv
<1> DEFINE R == ChallengeRows(StoredSessionsOf(u))
           o == [op |-> "revokeAllForUser", user |-> u, sid |-> Null, found |-> R,
                 had |-> StoredSessionsOf(u), refused |-> {}, at |-> "keys"]
<1>1. Enters(c, o) /\ UNCHANGED tables /\ backend \in Postgres
  BY DEF DeleteUserChallenges, OnPostgres, Serves
<1>2. /\ o.op = "revokeAllForUser" /\ o.at = "keys" /\ o.found = R
      /\ o.had = StoredSessionsOf(u)
  OBVIOUS
<1> HIDE DEF o
<1>3. call'[c] = o
  BY <1>1, EntersStep
<1>4. ASSUME NEW s \in o.had PROVE PostgresPurge(c, s)'
  <2>1. s \in rows'
    BY <1>1, <1>2 DEF StoredSessionsOf, tables
  <2>2. ChallengesFound(c, s)'
    BY <1>1, <1>2, <1>3 DEF ChallengesFound, ChallengeRows, tables
  <2> QED
    BY <1>2, <1>3, <2>1, <2>2 DEF PostgresPurge
<1>5. PurgeProgress(c)'
  <2>1. \A s \in o.had : StillStored(c, s)'
    BY <1>1, <1>2 DEF StillStored, StoredSessionsOf, tables
  <2> QED
    BY <1>1, <1>2, <1>3, <1>4, <2>1 DEF PurgeProgress, Postgres, BetterAuth
<1>6. Progress(c)'
  BY <1>2, <1>3, <1>5 DEF Progress
<1> QED
  BY <1>1, <1>6, SameChanges, EntersSound DEF tables

\* A further DELETE of a transaction: what it has found joins the rest.
LEMMA AlsoDeletesSound ==
  ASSUME ReturnTypes, UNCHANGED backend, NEW c \in Calls,
         NEW step, NEW next \in Steps \ {"index"}, NEW R \in SUBSET Findable,
         AlsoDeletes(c, step, next, R),
         \A s \in rows \cap SessionsOf(call[c].user) :
           /\ step = "keys" \/ next = "commit"
           /\ step = "keys" => next = "sessions" /\ KeyRows({s}) \subseteq R
           /\ next = "commit" => step = "sessions" /\ <<"session", s>> \in R
  PROVE  StepSound
<1> USE DEF ReturnTypes, ReturnInv
<1>1. /\ call' = [call EXCEPT ![c].at = next, ![c].found = @ \cup R]
      /\ UNCHANGED <<tables, overlaps>> /\ backend \in Postgres
      /\ At(c, {"revokeAllForUser"}, step)
  BY DEF AlsoDeletes, OnPostgres, Serves
<1>2. /\ call[c] \in Operations /\ call[c] \notin {Null, Failed}
      /\ call[c].op = "revokeAllForUser" /\ call[c].at = step
      /\ PurgesOwn(c) /\ PurgeProgress(c)
  BY <1>1, PurgeFacts
<1>3. call[c] \in [op : {"revokeAllForUser"}, user : Users, sid : Sessions \cup {Null},
                   found : SUBSET Findable, had : SUBSET Sessions,
                   refused : SUBSET ({"row", "key"} \X (Sessions \cup {Null})), at : Steps]
  BY <1>2 DEF Operations, OperationsOn, SessionCalls
<1>4. /\ call'[c] = [call[c] EXCEPT !.at = next, !.found = @ \cup R]
      /\ \A d \in Calls \ {c} : call'[d] = call[d]
  BY <1>1 DEF CallTypes
<1>5. /\ call'[c].op = "revokeAllForUser" /\ call'[c].user = call[c].user
      /\ call'[c].found = call[c].found \cup R /\ call'[c].had = call[c].had
      /\ call'[c].at = next
  BY <1>3, <1>4
<1>6. Proceeds(c)
  <2>1. Marks(call'[c]) = Marks(call[c]) /\ Heeds(call'[c]) = Heeds(call[c])
    BY <1>2, <1>5, SameMarks DEF SessionOperations
  <2> QED
    BY <1>1, <1>2, <1>4, <2>1 DEF Proceeds
<1>7. call'[c] # Null
  <2>1. [call[c] EXCEPT !.at = next, !.found = @ \cup R] \in Operations
    BY <1>2 DEF SessionCalls, Operations, OperationsOn
  <2> QED
    BY <1>4, <2>1, NullIsNoCall
<1>8. ASSUME NEW s \in call[c].had PROVE PostgresPurge(c, s)'
  <2>1. PostgresPurge(c, s) /\ s \in SessionsOf(call[c].user)
    BY <1>1, <1>2, <1>8 DEF PurgeProgress, PurgesOwn
  <2>2. CASE <<"gone", s>> \in overlaps[c] \/ <<"session", s>> \in overlaps[c]
    BY <1>1, <2>2 DEF PostgresPurge, Noted
  <2>3. CASE /\ s \in rows /\ ChallengesFound(c, s)
             /\ call[c].at # "keys" => KeysFound(c, s)
    <3>1. ChallengesFound(c, s)'
      BY <1>1, <1>5, <2>3 DEF ChallengesFound, Noted, tables
    <3>2. KeysFound(c, s)'
      <4>1. CASE step # "keys"
        BY <1>1, <1>2, <1>5, <2>3, <4>1 DEF KeysFound, KeyGone, Noted, tables
      <4>2. CASE step = "keys"
        <5>1. \A kind \in Kinds : keys[s][kind] # {} => <<"key", s, kind>> \in R
          BY <2>1, <2>3, <4>2 DEF KeyRows
        <5> QED
          BY <1>1, <1>5, <5>1 DEF KeysFound, KeyGone, tables
      <4> QED
        BY <4>1, <4>2
    <3>3. next = "commit" => <<"session", s>> \in call'[c].found
      BY <1>5, <2>1, <2>3
    <3>4. s \in rows'
      BY <1>1, <2>3 DEF tables
    <3> QED
      BY <1>5, <3>1, <3>2, <3>3, <3>4 DEF PostgresPurge
  <2> QED
    BY <2>1, <2>2, <2>3 DEF PostgresPurge, Noted
<1>9. PurgeProgress(c)'
  <2>1. \A s \in call[c].had : StillStored(c, s)'
    BY <1>1, <1>2 DEF PurgeProgress, StillStored, Noted, tables
  <2> QED
    BY <1>1, <1>5, <1>8, <2>1 DEF PurgeProgress, Postgres, BetterAuth
<1>10. Acted(c)
  BY <1>5, <1>7, <1>9 DEF Acted, Progress, Returns, Breaks, Failed
<1> QED
  BY <1>1, <1>6, <1>10, SameChanges, ProceedsSound DEF tables

LEMMA CommitSound ==
  ASSUME ReturnTypes, UNCHANGED backend, NEW c \in Calls, Commit(c)
  PROVE  StepSound
<1> USE DEF ReturnTypes, ReturnInv
<1>1. /\ DropRows(call[c].found) /\ Answers(c) /\ backend \in Postgres
      /\ At(c, {"revokeAllForUser"}, "commit")
  BY DEF Commit, OnPostgres, Serves
<1>2. /\ call[c] \in Operations /\ call[c] \notin {Null, Failed}
      /\ call[c].op = "revokeAllForUser" /\ call[c].at = "commit"
      /\ PurgesOwn(c) /\ PurgeProgress(c)
      /\ \A s \in SessionsOf(call[c].user) : <<"gone", s>> \in Marks(call[c])
  BY <1>1, PurgeFacts
<1>3. Changes(Marks(call[c]))
  <2>1. \A r \in call[c].found : r \in Owned(call[c].user)
    BY <1>2 DEF PurgesOwn
  <2>2. /\ \A s \in Sessions :
             <<"session", s>> \in call[c].found => s \in SessionsOf(call[c].user)
        /\ \A s \in Sessions, kind \in Kinds :
             <<"key", s, kind>> \in call[c].found => s \in SessionsOf(call[c].user)
    BY <1>1, <2>1 DEF Owned
  <2> QED
    BY <1>1, <1>2, <2>2, DropRowsChange
<1>4. ASSUME NEW s \in call[c].had
      PROVE  <<"gone", s>> \in overlaps[c] \/ RevokedFor(c, s)
  <2>1. PostgresPurge(c, s) /\ s \in Sessions
    BY <1>1, <1>2, <1>4 DEF PurgeProgress, PurgesOwn, SessionsOf
  <2>2. CASE <<"gone", s>> \in overlaps[c] \/ <<"session", s>> \in overlaps[c]
    BY <2>2 DEF RevokedFor
  <2>3. CASE /\ ChallengesFound(c, s) /\ KeysFound(c, s)
             /\ <<"session", s>> \in call[c].found
    <3>1. s \notin rows'
      BY <1>1, <2>3 DEF DropRows
    <3>2. HasKey(s, Kinds)' = FALSE
          \/ \E kind \in Kinds : <<"key", s, kind>> \in overlaps[c]
      <4>1. CASE \A kind \in Kinds :
                   <<"key", s, kind>> \in call[c].found \/ keys[s][kind] = {}
        <5>1. \A kind \in Kinds : keys'[s][kind] = {}
          BY <1>1, <2>1, <4>1 DEF DropRows
        <5>2. legacy'[s] = Null
          BY <1>1, <2>1 DEF DropRows, LegacyInv, Postgres
        <5> QED
          BY <5>1, <5>2, NoKeyLeft
      <4> QED
        BY <2>3, <4>1 DEF KeysFound, KeyGone, Noted
    <3>3. \/ \A j \in Jtis : challenges[j].sid = s => challenges'[j].state # "open"
          \/ <<"challenge", s>> \in overlaps[c]
      <4>1. ASSUME NEW j \in Jtis, challenges[j].sid = s, challenges'[j].state = "open"
            PROVE  challenges[j].state = "open" /\ <<"challenge", j>> \notin call[c].found
        <5>1. challenges'[j] = IF <<"challenge", j>> \in call[c].found
                               THEN [challenges[j] EXCEPT !.state = "gone"]
                               ELSE challenges[j]
          BY <1>1 DEF DropRows
        <5>2. challenges[j] \in [sid : Sessions \cup {Null}, state : ChallengeStates]
          BY DEF DataTypes
        <5> QED
          BY <4>1, <5>1, <5>2
      <4> QED
        BY <2>3, <4>1 DEF ChallengesFound, Noted
    <3> QED
      BY <3>1, <3>2, <3>3 DEF RevokedFor
  <2> QED
    BY <1>2, <2>1, <2>2, <2>3 DEF PostgresPurge, Noted
<1>5. Done(c)
  BY <1>2, <1>4 DEF Done, RevocationDone, ReadDone, WriteDone, Targets
<1> QED
  BY <1>1, <1>2, <1>3, <1>5, ReturnsSound

LEMMA PostgresCommandSound ==
  ASSUME ReturnTypes, UNCHANGED backend, OnPostgres, NEW c \in Calls, PostgresCommand(c)
  PROVE  StepSound
<1> USE DEF ReturnTypes, ReturnInv
<1>1. \A S \in SUBSET Sessions : KeyRows(S) \in SUBSET Findable
                                 /\ Cascade(S) \in SUBSET Findable
  BY FoundTyped
<1>2. "sessions" \in Steps \ {"index"} /\ "commit" \in Steps \ {"index"}
  BY DEF Steps
<1>3. ASSUME DeleteUserKeys(c) PROVE StepSound
  <2>1. PICK S : S = StoredSessionsOf(call[c].user)
    OBVIOUS
  <2>2. AlsoDeletes(c, "keys", "sessions", KeyRows(S)) /\ S \in SUBSET Sessions
    BY <1>3, <2>1 DEF DeleteUserKeys, StoredSessionsOf, SessionsOf
  <2>3. \A s \in rows \cap SessionsOf(call[c].user) : KeyRows({s}) \subseteq KeyRows(S)
    BY <2>1 DEF KeyRows, StoredSessionsOf
  <2> QED
    BY <1>1, <1>2, <2>2, <2>3, AlsoDeletesSound
<1>4. ASSUME DeleteUserSessions(c) PROVE StepSound
  <2>1. PICK S : S = StoredSessionsOf(call[c].user)
    OBVIOUS
  <2>2. AlsoDeletes(c, "sessions", "commit", Cascade(S)) /\ S \in SUBSET Sessions
    BY <1>4, <2>1 DEF DeleteUserSessions, StoredSessionsOf, SessionsOf
  <2>3. \A s \in rows \cap SessionsOf(call[c].user) : <<"session", s>> \in Cascade(S)
    BY <2>1 DEF Cascade, SessionRows, StoredSessionsOf
  <2> QED
    BY <1>1, <1>2, <2>2, <2>3, AlsoDeletesSound
<1>5. CASE RollsBack(c)
  BY <1>5, FailsSound DEF RollsBack, OnPostgres, Serves, Postgres, tables
<1> QED
  BY <1>3, <1>4, <1>5, DeleteUserChallengesSound, CommitSound DEF PostgresCommand

LEMMA PostgresSound ==
  ASSUME ReturnTypes, UNCHANGED backend, PostgresNext
  PROVE  StepSound
<1> USE DEF ReturnTypes, ReturnInv
<1>1. CASE \E c \in Calls : PostgresCommand(c)
  BY <1>1, PostgresCommandSound, PostgresServes
<1>2. ASSUME NEW s \in Sessions, UpsertSession(s) PROVE StepSound
  <2> DEFINE o == [op |-> "setSession", sid |-> s]
  <2>1. /\ Passes(o) /\ rows' = rows \cup {s}
        /\ UNCHANGED <<keys, legacy, challenges>>
    BY <1>2 DEF UpsertSession
  <2>2. <<"session", s>> \in Marks(o)
    BY DEF Marks
  <2>3. RowsChange(Marks(o))
    BY <2>1, <2>2 DEF RowsChange
  <2> QED
    BY <2>1, <2>3, SameKeys, SameLegacy, SameChallenges, PassesSound DEF Changes
<1>3. ASSUME NEW s \in Sessions, DeleteSession(s) PROVE StepSound
  <2> DEFINE o == [op |-> "revokeSession", sid |-> s]
  <2>1. Passes(o) /\ DropRows(Cascade({s}))
    BY <1>3 DEF DeleteSession
  <2>2. <<"gone", s>> \in Marks(o)
    BY DEF Marks
  <2>3. /\ \A t \in Sessions : <<"session", t>> \in Cascade({s}) => t = s
        /\ \A t \in Sessions, kind \in Kinds :
             <<"key", t, kind>> \in Cascade({s}) => t = s
    BY DEF Cascade, SessionRows, KeyRows, ChallengeRows
  <2>4. Changes(Marks(o))
    BY <2>1, <2>2, <2>3, DropRowsChange
  <2> QED
    BY <2>1, <2>4, PassesSound
<1>4. ASSUME NEW s \in Sessions, NEW kind \in Kinds, NEW key \in Keys,
             UpsertKey(s, kind, key)
      PROVE  StepSound
  <2> DEFINE o == [op |-> "setBoundKey", sid |-> s, kind |-> kind]
  <2>1. /\ Passes(o) /\ UNCHANGED <<rows, legacy, challenges>>
        /\ keys' = [keys EXCEPT ![s][kind] = {key}]
    BY <1>4 DEF UpsertKey
  <2>2. <<"key", s, kind>> \in Marks(o)
    BY DEF Marks
  <2>3. KeysChange(Marks(o))
    BY <2>1, <2>2, SetKeyChange
  <2> QED
    BY <2>1, <2>3, SameRows, SameLegacy, SameChallenges, PassesSound DEF Changes
<1>5. ASSUME NEW s \in Sessions, NEW kinds \in KindSets, DeleteKeys(s, kinds)
      PROVE  StepSound
  <2> DEFINE o == [op |-> "deleteBoundKey", sid |-> s]
             R == {"key"} \X {s} \X kinds
  <2>1. Passes(o) /\ DropRows(R)
    BY <1>5 DEF DeleteKeys
  <2>2. <<"gone", s>> \in Marks(o)
    BY DEF Marks
  <2>3. /\ \A t \in Sessions : <<"session", t>> \notin R
        /\ \A t \in Sessions, kind \in Kinds : <<"key", t, kind>> \in R => t = s
    OBVIOUS
  <2> HIDE DEF R
  <2>4. Changes(Marks(o))
    BY <2>1, <2>2, <2>3, DropRowsChange
  <2> QED
    BY <2>1, <2>4, PassesSound
<1>6. ASSUME NEW s \in Sessions, NEW j \in Jtis, InsertChallenge(j, s)
      PROVE  StepSound
  <2> DEFINE o == [op |-> "setChallenge", sid |-> s]
  <2>1. Passes(o) /\ UNCHANGED <<rows, keys, legacy>> /\ StoreChallenge(j, s)
    BY <1>6 DEF InsertChallenge
  <2>2. <<"challenge", s>> \in Marks(o)
    BY DEF Marks
  <2> QED
    BY <2>1, <2>2, SameRows, SameKeys, SameLegacy, StoreChange, PassesSound DEF Changes
<1>7. ASSUME NEW j \in Jtis, UpdateChallenge(j) PROVE StepSound
  <2>1. /\ UNCHANGED <<rows, keys, legacy, call, overlaps>>
        /\ challenges' = [challenges EXCEPT ![j].state = "consumed"]
    BY <1>7 DEF UpdateChallenge, callVars
  <2> QED
    BY <2>1, SameRows, SameKeys, SameLegacy, CloseChange, QuietSound DEF Changes
<1> QED
  BY <1>1, <1>2, <1>3, <1>4, <1>5, <1>6, <1>7 DEF PostgresNext

-----------------------------------------------------------------------------
(***************************************************************************)
(* Better Auth.                                                            *)
(***************************************************************************)

LEMMA DropRowChange ==
  ASSUME DataTypes, backend \in BetterAuth, NEW s, DropRow(s),
         NEW M, <<"gone", s>> \in M
  PROVE  Changes(M)
<1>1. RowsChange(M)
  <2>1. rows' = rows \ {s}
    BY DEF DropRow
  <2> QED
    BY <2>1 DEF RowsChange
<1>2. KeysChange(M)
  BY SameKeys, NoKeysChange DEF DropRow
<1> QED
  BY <1>1, <1>2, SameLegacy, SameChallenges DEF Changes, DropRow

LEMMA RemoveChange ==
  ASSUME DataTypes, NEW j, RemoveVerification(j), NEW M
  PROVE  ChallengesChange(M)
<1>1. CASE UNCHANGED challenges
  BY <1>1, SameChallenges
<1>2. CASE challenges' = [challenges EXCEPT ![j].state = "gone"]
  BY <1>2, CloseChange
<1> QED
  BY <1>1, <1>2 DEF RemoveVerification

LEMMA KeyEntersSound ==
  ASSUME ReturnTypes, UNCHANGED backend, backend \in BetterAuth,
         NEW c \in Calls, NEW s \in Sessions,
         \/ FindNativeKey(c, s)
         \/ \E kind \in Kinds, key \in Keys : FindKeyToSet(c, s, kind, key)
  PROVE  StepSound
<1> USE DEF ReturnTypes, ReturnInv
<1>1. ASSUME FindNativeKey(c, s) PROVE StepSound
  <2> DEFINE o == [op |-> "getBoundKey", sid |-> s, kinds |-> Kinds,
                   had |-> HasKey(s, Kinds), at |-> "bound"]
  <2>1. Enters(c, o) /\ UNCHANGED tables
    BY <1>1 DEF FindNativeKey
  <2>2. HasKey(s, Kinds) => keys'[s]["bound"] # {}
    <3>1. legacy[s] = Null
      BY DEF LegacyInv, BetterAuth
    <3> QED
      BY <1>1, <3>1 DEF FindNativeKey, HasKey, Kinds, tables
  <2>3. call'[c] = o
    BY <2>1, EntersStep
  <2>4. GetProgress(c)'
    BY <2>2, <2>3 DEF GetProgress
  <2>5. Progress(c)'
    BY <2>3, <2>4 DEF Progress
  <2> QED
    BY <2>1, <2>5, SameChanges, EntersSound DEF tables
<1>2. ASSUME NEW kind \in Kinds, NEW key \in Keys, FindKeyToSet(c, s, kind, key)
      PROVE  StepSound
  <2> DEFINE o == [op |-> "setBoundKey", sid |-> s, kind |-> kind, key |-> key,
                   at |-> IF keys[s][kind] = {} THEN "create" ELSE "update"]
  <2>1. Enters(c, o) /\ UNCHANGED tables
    BY <1>2 DEF FindKeyToSet, EntersBeside
  <2>2. /\ o.op = "setBoundKey" /\ o.sid = s /\ o.kind = kind
        /\ o.at = IF keys[s][kind] = {} THEN "create" ELSE "update"
    OBVIOUS
  <2>3. call'[c] = o
    BY <2>1, EntersStep
  <2> HIDE DEF o
  <2>4. SetProgress(c)'
    BY <2>1, <2>2, <2>3 DEF SetProgress, tables
  <2>5. Progress(c)'
    BY <2>2, <2>3, <2>4 DEF Progress
  <2> QED
    BY <2>1, <2>5, SameChanges, EntersSound DEF tables
<1> QED
  BY <1>1, <1>2

LEMMA BetterAuthCallSound ==
  ASSUME ReturnTypes, UNCHANGED backend, backend \in BetterAuth,
         NEW c \in Calls, BetterAuthCall(c)
  PROVE  StepSound
<1> USE DEF ReturnTypes, ReturnInv
<1>1. ASSUME NEW s \in Sessions, FindSession(c, s) PROVE StepSound
  <2> DEFINE o == [op |-> "setSession", sid |-> s,
                   at |-> IF s \in rows THEN "update" ELSE "create"]
  <2>1. Enters(c, o) /\ UNCHANGED tables
    BY <1>1 DEF FindSession
  <2> QED
    BY <2>1, SameChanges, EntersPlainSound DEF tables
<1>2. ASSUME NEW s \in Sessions, RevokeKeys(c, s) PROVE StepSound
  <2> DEFINE o == [op |-> "revokeSession", sid |-> s, at |-> "session"]
  <2>1. /\ Enters(c, o) /\ keys' = NoKeys(s, Kinds)
        /\ UNCHANGED <<rows, legacy, challenges>>
    BY <1>2 DEF RevokeKeys
  <2>2. <<"gone", s>> \in Marks(o)
    BY DEF Marks
  <2>3. call'[c] = o
    BY <2>1, EntersStep
  <2>4. \A kind \in Kinds : keys'[s][kind] = {}
    BY <2>1 DEF NoKeys, DataTypes
  <2>5. Progress(c)'
    BY <2>3, <2>4 DEF Progress, RevokeProgress, KeyGone
  <2>6. Changes(Marks(o))
    BY <2>1, <2>2, SameRows, NoKeysChange, SameLegacy, SameChallenges DEF Changes
  <2> QED
    BY <2>1, <2>5, <2>6, EntersSound
<1>3. ASSUME NEW j \in Jtis, FindVerification(c, j) PROVE StepSound
  <2>1. CASE EntersBeside(c, [op |-> "consumeChallenge", jti |-> j, at |-> "delete"])
    BY <1>3, <2>1, SameChanges, EntersPlainSound DEF FindVerification, EntersBeside, tables
  <2>2. CASE UNCHANGED callVars
    BY <1>3, <2>2, SameChanges, QuietSound DEF FindVerification, callVars, tables
  <2> QED
    BY <1>3, <2>1, <2>2 DEF FindVerification
<1>4. ASSUME NEW u \in Users, FindUserSessions(c, u) PROVE StepSound
  <2> DEFINE stored == rows \cap SessionsOf(u)
             o == [op |-> "revokeAllForUser", user |-> u, sid |-> Null,
                   found |-> stored, had |-> stored, refused |-> {},
                   at |-> IF stored = {} THEN "sessions" ELSE "keys"]
  <2>1. Enters(c, o) /\ UNCHANGED tables
    BY <1>4 DEF FindUserSessions
  <2> HIDE DEF stored
  <2>2. /\ o.op = "revokeAllForUser" /\ o.found = stored /\ o.had = stored
        /\ o.at = IF stored = {} THEN "sessions" ELSE "keys"
    OBVIOUS
  <2>3. call'[c] = o
    BY <2>1, EntersStep
  <2> HIDE DEF o
  <2>4. PurgeProgress(c)'
    <3>1. \A s \in o.had : StillStored(c, s)'
      BY <2>1, <2>2 DEF StillStored, stored, tables
    <3> QED
      BY <2>2, <2>3, <3>1 DEF PurgeProgress, BetterAuthPurge, Postgres, BetterAuth
  <2>5. Progress(c)'
    BY <2>2, <2>3, <2>4 DEF Progress
  <2> QED
    BY <2>1, <2>5, SameChanges, EntersSound DEF tables
<1> QED
  BY <1>1, <1>2, <1>3, <1>4, KeyEntersSound DEF BetterAuthCall

LEMMA RevokeRowSound ==
  ASSUME ReturnTypes, UNCHANGED backend, backend \in BetterAuth,
         NEW c \in Calls, RevokeRow(c)
  PROVE  StepSound
<1> USE DEF ReturnTypes, ReturnInv
<1>1. At(c, {"revokeSession"}, "session") /\ Answers(c)
  BY DEF RevokeRow
<1>2. /\ call[c] \in Operations /\ call[c] \notin {Null, Failed}
      /\ call[c].op = "revokeSession" /\ call[c].sid \in Sessions
      /\ call[c].at = "session"
  BY <1>1, AtIsInFlight, Fields DEF SessionOperations, At
<1>3. PICK s \in Sessions : s = call[c].sid
  BY <1>2
<1>4. DropRow(s) /\ rows' = rows \ {s} /\ UNCHANGED legacy
  BY <1>3 DEF RevokeRow, DropRow
<1>5. <<"gone", s>> \in Marks(call[c])
  BY <1>2, <1>3 DEF Marks
<1>6. \A kind \in Kinds : KeyGone(c, s, kind)
  BY <1>2, <1>3 DEF ProgressInv, InFlight, Progress, RevokeProgress
<1>7. \A kind \in Kinds : keys[s][kind] = {} => keys'[s][kind] = {}
  BY <1>4 DEF DropRow, NoKeys, DataTypes
<1>8. HasKey(s, Kinds)' = FALSE
      \/ \E kind \in Kinds : <<"key", s, kind>> \in overlaps[c]
  <2>1. CASE \A kind \in Kinds : keys[s][kind] = {}
    <3>1. legacy'[s] = Null
      BY <1>4 DEF LegacyInv, BetterAuth
    <3> QED
      BY <1>7, <2>1, <3>1, NoKeyLeft
  <2> QED
    BY <1>6, <2>1 DEF KeyGone, Noted
<1>9. RevokedFor(c, s)
  BY <1>4, <1>8 DEF RevokedFor, BetterAuth
<1>10. Done(c)
  BY <1>2, <1>3, <1>9 DEF Done, RevocationDone, ReadDone, WriteDone, Targets
<1> QED
  BY <1>1, <1>2, <1>4, <1>5, <1>10, DropRowChange, ReturnsSound

\* The second command of setBoundKey, which finds the keys as the first did.
LEMMA WriteKeySound ==
  ASSUME ReturnTypes, UNCHANGED backend, backend \in BetterAuth,
         NEW c \in Calls, UpdateKey(c) \/ CreateKey(c)
  PROVE  StepSound
<1> USE DEF ReturnTypes, ReturnInv
<1>1. PICK step \in {"update", "create"} :
        /\ At(c, {"setBoundKey"}, step) /\ Answers(c)
        /\ UNCHANGED <<rows, legacy, challenges>>
        /\ step = "update" => UpdateKey(c)
        /\ step = "create" => CreateKey(c)
  BY DEF UpdateKey, CreateKey
<1>2. call[c] \in Operations /\ call[c] \notin {Null, Failed}
      /\ call[c].op = "setBoundKey" /\ call[c].at = step
  BY <1>1, AtIsInFlight DEF At
<1>3. call[c].sid \in Sessions /\ call[c].kind \in Kinds /\ call[c].key \in Keys
  BY <1>2, Fields DEF SessionOperations
<1>4. PICK s \in Sessions, kind \in Kinds, key \in Keys :
        s = call[c].sid /\ kind = call[c].kind /\ key = call[c].key
  BY <1>3
<1>5. SetProgress(c)
  BY <1>2 DEF ProgressInv, InFlight, Progress
<1>6. <<"key", s, kind>> \in Marks(call[c])
  BY <1>2, <1>4 DEF Marks
<1>7. PICK K : /\ keys' = [keys EXCEPT ![s][kind] = K]
               /\ step = "update" /\ keys[s][kind] # {} => K = {key}
               /\ step = "create" /\ keys[s][kind] = {} => K = {key}
  <2>1. CASE step = "update"
    <3>1. keys' = [keys EXCEPT ![s][kind] = IF keys[s][kind] = {} THEN {} ELSE {key}]
      BY <1>1, <1>4, <2>1 DEF UpdateKey, DataTypes
    <3> QED
      BY <2>1, <3>1
  <2>2. CASE step = "create"
    <3>1. keys' = [keys EXCEPT ![s][kind] = keys[s][kind] \cup {key}]
      BY <1>1, <1>4, <2>2 DEF CreateKey, DataTypes
    <3> QED
      BY <2>2, <3>1
  <2> QED
    BY <2>1, <2>2
<1>8. KeysChange(Marks(call[c]))
  BY <1>6, <1>7, SetKeyChange
<1>9. Changes(Marks(call[c]))
  BY <1>1, <1>8, SameRows, SameLegacy, SameChallenges DEF Changes
<1>10. keys'[s][kind] = K /\ legacy'[s] = Null
  BY <1>1, <1>7 DEF DataTypes, LegacyInv, BetterAuth
<1>11. WriteDone(c)
  BY <1>2, <1>4, <1>5, <1>7, <1>10 DEF WriteDone, KeyLeft, SetProgress, Noted
<1>12. Done(c)
  BY <1>2, <1>11 DEF Done, RevocationDone, ReadDone
<1> QED
  BY <1>1, <1>2, <1>9, <1>12, ReturnsSound

LEMMA RevokeUserKeysSound ==
  ASSUME ReturnTypes, UNCHANGED backend, backend \in BetterAuth,
         NEW c \in Calls, RevokeUserKeys(c)
  PROVE  StepSound
<1> USE DEF ReturnTypes, ReturnInv
<1>1. PICK s \in call[c].found :
        /\ keys' = NoKeys(s, Kinds)
        /\ call' = [call EXCEPT
                      ![c].at = IF call[c].found = {s} THEN "sessions" ELSE "keys",
                      ![c].found = @ \ {s}]
  BY DEF RevokeUserKeys
<1>2. /\ UNCHANGED <<rows, legacy, challenges, overlaps>>
      /\ At(c, {"revokeAllForUser"}, "keys")
  BY DEF RevokeUserKeys
<1>3. /\ call[c] \in Operations /\ call[c] \notin {Null, Failed}
      /\ call[c].op = "revokeAllForUser" /\ call[c].at = "keys"
      /\ PurgesOwn(c) /\ PurgeProgress(c)
      /\ \A t \in SessionsOf(call[c].user) : <<"gone", t>> \in Marks(call[c])
  BY <1>2, PurgeFacts
<1>4. call[c] \in [op : {"revokeAllForUser"}, user : Users, sid : Sessions \cup {Null},
                   found : SUBSET Findable, had : SUBSET Sessions,
                   refused : SUBSET ({"row", "key"} \X (Sessions \cup {Null})), at : Steps]
  BY <1>3 DEF Operations, OperationsOn, SessionCalls
<1>5. PICK step \in {"sessions", "keys"} :
        /\ call'[c] = [call[c] EXCEPT !.at = step, !.found = @ \ {s}]
        /\ step = "sessions" => call[c].found = {s}
        /\ \A d \in Calls \ {c} : call'[d] = call[d]
  <2>1. CASE call[c].found = {s}
    BY <1>1, <2>1 DEF CallTypes
  <2>2. CASE call[c].found # {s}
    BY <1>1, <2>2 DEF CallTypes
  <2> QED
    BY <2>1, <2>2
<1>6. /\ call'[c].op = "revokeAllForUser" /\ call'[c].user = call[c].user
      /\ call'[c].found = call[c].found \ {s} /\ call'[c].had = call[c].had
      /\ call'[c].at = step
  BY <1>4, <1>5
<1>7. Proceeds(c)
  <2>1. Marks(call'[c]) = Marks(call[c]) /\ Heeds(call'[c]) = Heeds(call[c])
    BY <1>3, <1>6, SameMarks DEF SessionOperations
  <2> QED
    BY <1>2, <1>3, <1>5, <2>1 DEF Proceeds
<1>8. call'[c] # Null
  <2>1. step \in Steps
    BY DEF Steps
  <2>2. [call[c] EXCEPT !.at = step, !.found = @ \ {s}] \in Operations
    BY <1>3, <2>1 DEF SessionCalls, Operations, OperationsOn
  <2> QED
    BY <1>5, <2>2, NullIsNoCall
<1>9. ASSUME NEW t \in call[c].had PROVE BetterAuthPurge(c, t)'
  <2>1. BetterAuthPurge(c, t) /\ t \in Sessions
    BY <1>3, <1>9 DEF PurgeProgress, PurgesOwn, SessionsOf
  <2>2. \A kind \in Kinds : keys'[t][kind] = {} \/ (t # s /\ keys'[t][kind] = keys[t][kind])
    BY <1>1, <2>1 DEF NoKeys, DataTypes
  <2> QED
    BY <1>2, <1>6, <2>1, <2>2 DEF BetterAuthPurge, KeyGone, Noted
<1>10. PurgeProgress(c)'
  <2>1. \A t \in call[c].had : StillStored(c, t)'
    BY <1>2, <1>3 DEF PurgeProgress, StillStored, Noted
  <2> QED
    BY <1>5, <1>6, <1>9, <2>1 DEF PurgeProgress, Postgres, BetterAuth
<1>11. Acted(c)
  BY <1>6, <1>8, <1>10 DEF Acted, Progress, Returns, Breaks, Failed
<1>12. Changes(Marks(call[c]))
  <2>1. s \in SessionsOf(call[c].user)
    BY <1>3 DEF PurgesOwn, Owned, Postgres, BetterAuth
  <2> QED
    BY <1>1, <1>2, <1>3, <2>1, SameRows, NoKeysChange, SameLegacy, SameChallenges
       DEF Changes
<1> QED
  BY <1>7, <1>11, <1>12, ProceedsSound

LEMMA RevokeUserSessionsSound ==
  ASSUME ReturnTypes, UNCHANGED backend, backend \in BetterAuth,
         NEW c \in Calls, RevokeUserSessions(c)
  PROVE  StepSound
<1> USE DEF ReturnTypes, ReturnInv
<1>1. /\ UNCHANGED <<legacy, challenges>> /\ Answers(c)
      /\ At(c, {"revokeAllForUser"}, "sessions")
  BY DEF RevokeUserSessions
<1>2. PICK gone : gone = SessionsOf(call[c].user)
  OBVIOUS
<1>3. /\ rows' = rows \ gone
      /\ \/ UNCHANGED keys
         \/ keys' = [s \in Sessions |->
                       IF s \in gone THEN [kind \in Kinds |-> {}] ELSE keys[s]]
  BY <1>2 DEF RevokeUserSessions
<1>4. /\ call[c] \in Operations /\ call[c] \notin {Null, Failed}
      /\ call[c].op = "revokeAllForUser" /\ call[c].at = "sessions"
      /\ PurgesOwn(c) /\ PurgeProgress(c)
      /\ \A s \in gone : <<"gone", s>> \in Marks(call[c])
  BY <1>1, <1>2, PurgeFacts
<1>5. \A s \in Sessions, kind \in Kinds :
        keys'[s][kind] = keys[s][kind] \/ (keys'[s][kind] = {} /\ s \in gone)
  BY <1>3
<1>6. KeysChange(Marks(call[c]))
  BY <1>4, <1>5 DEF KeysChange
<1>7. Changes(Marks(call[c]))
  BY <1>1, <1>3, <1>4, <1>6, RowsGone, SameLegacy, SameChallenges DEF Changes
<1>8. ASSUME NEW s \in call[c].had PROVE RevokedFor(c, s)
  <2>1. /\ s \in gone /\ s \in Sessions
        /\ \A kind \in Kinds : KeyGone(c, s, kind)
    BY <1>2, <1>4, <1>8
       DEF PurgeProgress, BetterAuthPurge, PurgesOwn, SessionsOf, Postgres, BetterAuth
  <2>2. HasKey(s, Kinds)' = FALSE
        \/ \E kind \in Kinds : <<"key", s, kind>> \in overlaps[c]
    <3>1. CASE \A kind \in Kinds : keys[s][kind] = {}
      <4>1. \A kind \in Kinds : keys'[s][kind] = {}
        BY <1>5, <2>1, <3>1
      <4>2. legacy'[s] = Null
        BY <1>1, <2>1 DEF LegacyInv, BetterAuth
      <4> QED
        BY <4>1, <4>2, NoKeyLeft
    <3> QED
      BY <2>1, <3>1 DEF KeyGone, Noted
  <2> QED
    BY <1>3, <2>1, <2>2 DEF RevokedFor, BetterAuth
<1>9. Done(c)
  BY <1>4, <1>8 DEF Done, RevocationDone, ReadDone, WriteDone, Targets
<1> QED
  BY <1>1, <1>4, <1>7, <1>9, ReturnsSound

LEMMA BetterAuthCommandSound ==
  ASSUME ReturnTypes, UNCHANGED backend, backend \in BetterAuth,
         NEW c \in Calls, BetterAuthCommand(c)
  PROVE  StepSound
<1> USE DEF ReturnTypes, ReturnInv
<1>1. CASE UpdateSession(c)
  <2>1. Answers(c) /\ UNCHANGED tables /\ call[c] # Null /\ call[c].op = "setSession"
    BY <1>1 DEF UpdateSession, At
  <2> QED
    BY <2>1, SameChanges, ReturnsPlainSound DEF tables
<1>2. CASE CreateSession(c)
  <2>1. /\ call[c] # Null /\ call[c].op = "setSession"
        /\ UNCHANGED <<keys, legacy, challenges>>
        /\ \/ rows' = rows \cup {call[c].sid} /\ Answers(c)
           \/ UNCHANGED rows /\ Throws(c)
    BY <1>2 DEF CreateSession, At
  <2>2. <<"session", call[c].sid>> \in Marks(call[c])
    BY <2>1 DEF Marks
  <2>3. RowsChange(Marks(call[c]))
    BY <2>1, <2>2 DEF RowsChange, Postgres, BetterAuth
  <2>4. Changes(Marks(call[c]))
    BY <2>1, <2>3, SameKeys, SameLegacy, SameChallenges DEF Changes
  <2>5. BrokenOff(c)
    BY <2>1 DEF BrokenOff
  <2> QED
    BY <2>1, <2>4, <2>5, ReturnsPlainSound, ThrowsSound
<1>3. CASE FindBoundKey(c)
  <2>1. Answers(c) /\ UNCHANGED tables /\ At(c, {"getBoundKey"}, "bound")
    BY <1>3 DEF FindBoundKey
  <2>2. /\ call[c] # Null /\ call[c].op = "getBoundKey" /\ call[c].at = "bound"
        /\ GetProgress(c)
    BY <2>1 DEF At, ProgressInv, InFlight, Progress
  <2>3. ReadDone(c)
    BY <2>2 DEF ReadDone, MissesForCause, Found, GetProgress, Noted
  <2>4. Done(c)
    BY <2>2, <2>3 DEF Done, RevocationDone, WriteDone
  <2> QED
    BY <2>1, <2>2, <2>4, SameChanges, ReturnsSound DEF tables
<1>4. CASE DeleteVerification(c)
  <2>1. /\ Answers(c) /\ UNCHANGED <<rows, keys, legacy>>
        /\ call[c] # Null /\ call[c].op = "consumeChallenge"
        /\ RemoveVerification(call[c].jti)
    BY <1>4 DEF DeleteVerification, At
  <2>2. Changes(Marks(call[c]))
    BY <2>1, RemoveChange, SameRows, SameKeys, SameLegacy DEF Changes
  <2> QED
    BY <2>1, <2>2, ReturnsPlainSound
<1>5. CASE DatabaseFails(c)
  BY <1>5, FailsSound DEF DatabaseFails, BetterAuth, tables
<1> QED
  BY <1>1, <1>2, <1>3, <1>4, <1>5, RevokeRowSound, WriteKeySound, RevokeUserKeysSound,
     RevokeUserSessionsSound DEF BetterAuthCommand

LEMMA BetterAuthSound ==
  ASSUME ReturnTypes, UNCHANGED backend, BetterAuthNext
  PROVE  StepSound
<1> USE DEF ReturnTypes, ReturnInv
<1>1. backend \in BetterAuth
  BY BetterAuthServes DEF OnBetterAuth, Serves
<1>2. CASE \E c \in Calls : BetterAuthCall(c) \/ BetterAuthCommand(c)
  BY <1>1, <1>2, BetterAuthCallSound, BetterAuthCommandSound
<1>3. ASSUME NEW s \in Sessions, DeleteSessionRow(s) PROVE StepSound
  <2> DEFINE o == [op |-> "deleteSession", sid |-> s]
  <2>1. Passes(o) /\ DropRow(s)
    BY <1>3 DEF DeleteSessionRow
  <2>2. <<"gone", s>> \in Marks(o)
    BY DEF Marks
  <2>3. Changes(Marks(o))
    BY <1>1, <2>1, <2>2, DropRowChange
  <2> QED
    BY <2>1, <2>3, PassesSound
<1>4. ASSUME NEW s \in Sessions, NEW kinds \in KindSets, DeleteKeyRows(s, kinds)
      PROVE  StepSound
  <2> DEFINE o == [op |-> "deleteBoundKey", sid |-> s]
  <2>1. Passes(o) /\ keys' = NoKeys(s, kinds) /\ UNCHANGED <<rows, legacy, challenges>>
    BY <1>4 DEF DeleteKeyRows
  <2>2. <<"gone", s>> \in Marks(o)
    BY DEF Marks
  <2> QED
    BY <2>1, <2>2, SameRows, NoKeysChange, SameLegacy, SameChallenges, PassesSound
       DEF Changes
<1>5. ASSUME NEW s \in Sessions, NEW j \in Jtis, CreateVerification(j, s)
      PROVE  StepSound
  <2> DEFINE o == [op |-> "setChallenge", sid |-> s]
  <2>1. Passes(o) /\ UNCHANGED <<rows, keys, legacy>> /\ StoreChallenge(j, s)
    BY <1>5 DEF CreateVerification
  <2>2. <<"challenge", s>> \in Marks(o)
    BY DEF Marks
  <2> QED
    BY <2>1, <2>2, SameRows, SameKeys, SameLegacy, StoreChange, PassesSound DEF Changes
<1>6. ASSUME NEW j \in Jtis, ConsumeVerification(j) PROVE StepSound
  <2>1. UNCHANGED <<rows, keys, legacy, call, overlaps>> /\ RemoveVerification(j)
    BY <1>6 DEF ConsumeVerification, callVars
  <2> QED
    BY <2>1, SameRows, SameKeys, SameLegacy, RemoveChange, QuietSound DEF Changes
<1> QED
  BY <1>2, <1>3, <1>4, <1>5, <1>6 DEF BetterAuthNext

-----------------------------------------------------------------------------
(***************************************************************************)
(* Whose sessions a revokeAllForUser deletes.                              *)
(***************************************************************************)

IndexOwn == \A u \in Users : index[u] \subseteq SessionsOf(u)

CallsOwn == \A c \in Calls1(Purges) : PurgesOwn(c)

LEMMA OwnKeeps ==
  ASSUME CallTypes, CallsOwn, Keeps(Purges), UNCHANGED backend
  PROVE  CallsOwn'
<1> SUFFICES ASSUME NEW c \in Calls1(Purges)' PROVE PurgesOwn(c)'
  BY DEF CallsOwn
<1>1. call'[c] = call[c] /\ c \in Calls1(Purges)
  BY DEF Keeps, Calls1
<1>2. PurgesOwn(c)
  BY <1>1 DEF CallsOwn
<1> QED
  BY <1>1, <1>2 DEF PurgesOwn, Owned, SessionsOf

\* One call takes a step; the others are as they were.
LEMMA OwnMoves ==
  ASSUME CallTypes, CallsOwn, UNCHANGED backend, NEW c \in Calls,
         \A d \in Calls \ {c} : call'[d] = call[d],
         call'[c] # Null => PurgesOwn(c)'
  PROVE  CallsOwn'
<1> SUFFICES ASSUME NEW d \in Calls1(Purges)' PROVE PurgesOwn(d)'
  BY DEF CallsOwn
<1>1. CASE d = c
  BY <1>1 DEF Calls1
<1>2. CASE d # c
  <2>1. call'[d] = call[d] /\ d \in Calls1(Purges)
    BY <1>2 DEF Calls1
  <2>2. PurgesOwn(d)
    BY <2>1 DEF CallsOwn
  <2> QED
    BY <2>1, <2>2 DEF PurgesOwn, Owned, SessionsOf
<1> QED
  BY <1>1, <1>2

LEMMA OwnGoes ==
  ASSUME ReturnTypes, CallsOwn, UNCHANGED backend, NEW c \in Calls, NEW at,
         At(c, {"revokeAllForUser"}, at),
         NEW step, GoesTo(c, step), step \in Pending => at \in Pending
  PROVE  CallsOwn'
<1>1. /\ call[c] \in Operations /\ call[c] \notin {Null, Failed}
      /\ call[c].op = "revokeAllForUser" /\ call[c].at = at /\ PurgesOwn(c)
  BY PurgeFacts
<1>2. /\ call'[c] = [call[c] EXCEPT !.at = step]
      /\ \A d \in Calls \ {c} : call'[d] = call[d]
  BY DEF GoesTo, CallTypes, ReturnTypes
<1>3. call'[c].op = "revokeAllForUser" /\ call'[c].at = step
  BY <1>1, <1>2, SameFields
<1>4. /\ call'[c].user = call[c].user /\ call'[c].found = call[c].found
      /\ call'[c].had = call[c].had /\ call'[c].sid = call[c].sid
  BY <1>1, <1>2, <1>3, SameFields
<1>5. PurgesOwn(c)'
  BY <1>1, <1>3, <1>4 DEF PurgesOwn, Owned, SessionsOf
<1> QED
  BY <1>2, <1>5, OwnMoves DEF ReturnTypes

LEMMA RedisCallOwn ==
  ASSUME ReturnTypes, CallsOwn, IndexOwn, UNCHANGED backend, NEW c \in Calls, RedisCall(c)
  PROVE  CallsOwn'
<1> USE DEF ReturnTypes
<1>1. ASSUME NEW u \in Users, SMembers(c, u) PROVE CallsOwn'
  <2> DEFINE o == [op |-> "revokeAllForUser", user |-> u, sid |-> Null,
                   found |-> index[u], had |-> (rows \cap SessionsOf(u)) \ strays,
                   refused |-> {}, at |-> "row"]
  <2>1. Enters(c, o) /\ backend = "redis"
    BY <1>1 DEF SMembers, OnRedis, Serves
  <2>2. call'[c] = o /\ \A d \in Calls \ {c} : call'[d] = call[d]
    BY <2>1 DEF Enters, CallTypes
  <2>3. /\ o.user = u /\ o.found = index[u] /\ o.had \subseteq SessionsOf(u)
        /\ o.at = "row"
    OBVIOUS
  <2> HIDE DEF o
  <2>4. PurgesOwn(c)'
    BY <2>1, <2>2, <2>3 DEF PurgesOwn, Owned, IndexOwn, Postgres, Pending, SessionsOf
  <2> QED
    BY <2>2, <2>4, OwnMoves
<1>2. ASSUME NEW o, Enters(c, o), o.op \notin Purges PROVE CallsOwn'
  BY <1>2, EntersKeeps, OwnKeeps
<1>3. ASSUME NEW s, SetRow(c, s) PROVE CallsOwn'
  BY <1>2, <1>3 DEF SetRow, Purges
<1>4. ASSUME NEW s, GetRow(c, s) PROVE CallsOwn'
  BY <1>2, <1>4 DEF GetRow, Purges
<1>5. ASSUME NEW s, DelNativeKey(c, s) PROVE CallsOwn'
  BY <1>2, <1>5 DEF DelNativeKey, Purges
<1>6. ASSUME NEW s, NEW kinds, GetKey(c, s, kinds) PROVE CallsOwn'
  BY <1>2, <1>6 DEF GetKey, Purges
<1>7. ASSUME NEW s, NEW key, SetNativeKey(c, s, key) PROVE CallsOwn'
  BY <1>2, <1>7 DEF SetNativeKey, Purges
<1> QED
  BY <1>1, <1>3, <1>4, <1>5, <1>6, <1>7 DEF RedisCall

LEMMA RedisCommandOwn ==
  ASSUME ReturnTypes, CallsOwn, IndexOwn, UNCHANGED backend,
         NEW c \in Calls, RedisCommand(c)
  PROVE  CallsOwn'
<1> USE DEF ReturnTypes
<1>1. ASSUME Answers(c) \/ Throws(c) PROVE CallsOwn'
  BY <1>1, AnswersKeeps, ThrowsKeeps, OwnKeeps DEF Purges
<1>2. CASE RemoveFromIndex(c)
  <2>1. At(c, {"revokeSession"}, "srem") /\ GoesTo(c, "del")
    BY <1>2 DEF RemoveFromIndex
  <2>2. call[c] \in Operations /\ call[c].op \notin Purges
    BY <2>1, AtIsInFlight DEF Purges
  <2> QED
    BY <2>1, <2>2, GoesToKeeps, OwnKeeps
<1>3. CASE PipelineDelRow(c) \/ PipelineKeepsRow(c)
  <2>1. PICK s \in call[c].found :
          \/ call' = [call EXCEPT ![c].at = "native", ![c].sid = s, ![c].found = @ \ {s}]
          \/ call' = [call EXCEPT ![c].at = "native", ![c].sid = s,
                                  ![c].found = @ \ {s},
                                  ![c].refused = @ \cup {<<"row", s>>}]
    BY <1>3 DEF PipelineDelRow, PipelineKeepsRow
  <2>2. At(c, {"revokeAllForUser"}, "row") /\ backend = "redis"
    BY <1>3 DEF PipelineDelRow, PipelineKeepsRow, OnRedis, Serves
  <2>3. /\ call[c] \in Operations /\ call[c] # Failed
        /\ call[c].op = "revokeAllForUser" /\ PurgesOwn(c)
    BY <2>2, PurgeFacts
  <2>4. call[c] \in [op : {"revokeAllForUser"}, user : Users, sid : Sessions \cup {Null},
                     found : SUBSET Findable, had : SUBSET Sessions,
                     refused : SUBSET ({"row", "key"} \X (Sessions \cup {Null})), at : Steps]
    BY <2>3 DEF Operations, OperationsOn, SessionCalls
  <2>5. /\ \/ call'[c] = [call[c] EXCEPT !.at = "native", !.sid = s, !.found = @ \ {s}]
           \/ call'[c] = [call[c] EXCEPT !.at = "native", !.sid = s, !.found = @ \ {s},
                                         !.refused = @ \cup {<<"row", s>>}]
        /\ \A d \in Calls \ {c} : call'[d] = call[d]
    BY <2>1 DEF CallTypes
  <2>6. /\ call'[c].user = call[c].user /\ call'[c].found = call[c].found \ {s}
        /\ call'[c].had = call[c].had /\ call'[c].sid = s
    BY <2>4, <2>5
  <2>7. s \in SessionsOf(call[c].user)
    BY <2>2, <2>3 DEF PurgesOwn, Owned, Postgres
  <2>8. PurgesOwn(c)'
    BY <2>2, <2>3, <2>6, <2>7 DEF PurgesOwn, Owned, SessionsOf, Postgres
  <2> QED
    BY <2>5, <2>8, OwnMoves
<1>4. CASE PipelineDelKey(c, "native", "bound") \/ PipelineDelKey(c, "bound", "unsuffixed")
  BY <1>4, OwnGoes DEF PipelineDelKey, Pending
<1>5. CASE PipelineDelLegacy(c)
  <2>1. GoesTo(c, "index") \/ GoesTo(c, "row")
    BY <1>5 DEF PipelineDelLegacy, NextMember
  <2>2. At(c, {"revokeAllForUser"}, "unsuffixed")
    BY <1>5 DEF PipelineDelLegacy
  <2> QED
    BY <2>1, <2>2, OwnGoes DEF Pending
<1>6. ASSUME NEW at \in Pending, At(c, {"revokeAllForUser"}, at),
             NEW next \in Steps, KeepsKey(c, next)
      PROVE  CallsOwn'
  <2>1. /\ call[c] \in Operations /\ call[c] # Null
        /\ call[c].op = "revokeAllForUser" /\ call[c].at \in Pending /\ PurgesOwn(c)
    BY <1>6, PurgeFacts
  <2>2. /\ call'[c].user = call[c].user /\ call'[c].sid = call[c].sid
        /\ call'[c].found = call[c].found /\ call'[c].had = call[c].had
        /\ \A d \in Calls \ {c} : call'[d] = call[d]
    BY <1>6, <2>1, KeepsKeyFields
  <2>3. PurgesOwn(c)'
    BY <2>1, <2>2 DEF PurgesOwn, Owned, SessionsOf
  <2> QED
    BY <2>2, <2>3, OwnMoves
<1>7. CASE \/ PipelineKeepsKey(c, "native", "bound")
           \/ PipelineKeepsKey(c, "bound", "unsuffixed")
  BY <1>6, <1>7 DEF PipelineKeepsKey, Pending, Steps
<1>8. CASE PipelineKeepsLegacy(c)
  <2>1. KeepsKey(c, "index") \/ KeepsKey(c, "row")
    BY <1>8 DEF PipelineKeepsLegacy, NextMember
  <2> QED
    BY <1>6, <1>8, <2>1 DEF PipelineKeepsLegacy, Pending, Steps
<1> QED
  BY <1>1, <1>2, <1>3, <1>4, <1>5, <1>7, <1>8
     DEF RedisCommand, AddToIndex, DelSession, GetLegacyKey, DelLegacyKey,
         PipelineDelIndex, PipelineKeepsIndex, RedisFails, Fails

LEMMA RedisIndexOwn ==
  ASSUME ReturnTypes, IndexOwn, RedisNext
  PROVE  IndexOwn'
<1> USE DEF ReturnTypes
<1>1. CASE \E c \in Calls : RedisCall(c)
  BY <1>1 DEF IndexOwn, RedisCall, SetRow, GetRow, DelNativeKey, GetKey, SetNativeKey, SetKey,
              SMembers, tables, SessionsOf
<1>2. ASSUME NEW c \in Calls, RedisCommand(c) PROVE IndexOwn'
  <2>1. CASE AddToIndex(c)
    <3>1. call[c] \in Operations /\ call[c].op = "setSession"
      <4>1. At(c, {"setSession"}, "sadd")
        BY <2>1 DEF AddToIndex
      <4> QED
        BY <4>1, AtIsInFlight
    <3>2. PICK s \in Sessions : s = call[c].sid
      BY <3>1, Fields DEF SessionOperations
    <3>3. index' = [index EXCEPT ![UserOf[s]] = @ \cup {s}]
      BY <2>1, <3>2 DEF AddToIndex
    <3> QED
      BY <3>3 DEF SessionsOf, IndexOwn, DataTypes
  <2>2. CASE RemoveFromIndex(c)
    <3>1. PICK s : index' = [index EXCEPT ![UserOf[s]] = @ \ {s}]
      BY <2>2 DEF RemoveFromIndex
    <3> QED
      BY <3>1 DEF SessionsOf, IndexOwn, DataTypes
  <2>3. CASE PipelineDelIndex(c)
    <3>1. PICK u : index' = [index EXCEPT ![u] = {}]
      BY <2>3 DEF PipelineDelIndex
    <3> QED
      BY <3>1 DEF SessionsOf, IndexOwn, DataTypes
  <2> QED
    BY <1>2, <2>1, <2>2, <2>3
       DEF IndexOwn, RedisCommand, DelSession, GetLegacyKey, DelLegacyKey, PipelineDelRow,
           PipelineDelKey, PipelineDelLegacy, PipelineKeepsRow, PipelineKeepsKey,
           PipelineKeepsLegacy, PipelineKeepsIndex, KeepsKey, RedisFails, tables,
           SessionsOf
<1> QED
  BY <1>1, <1>2 DEF IndexOwn, RedisNext, SetPolyfillKey, SetKey, DelKeys, SetChallengeRow,
                    EvalConsume, Evicts, SessionsOf


LEMMA RedisOwn ==
  ASSUME ReturnTypes, OwnInv, UNCHANGED backend, RedisNext
  PROVE  OwnInv'
<1> USE DEF ReturnTypes
<1>1. CallsOwn /\ IndexOwn
  BY DEF OwnInv, CallsOwn, IndexOwn
<1>2. ASSUME \E c \in Calls : RedisCall(c) \/ RedisCommand(c) PROVE CallsOwn'
  BY <1>1, <1>2, RedisCallOwn, RedisCommandOwn
<1>3. ASSUME ~\E c \in Calls : RedisCall(c) \/ RedisCommand(c) PROVE CallsOwn'
  <2>1. UNCHANGED call
    BY <1>3 DEF RedisNext, SetPolyfillKey, SetKey, DelKeys, SetChallengeRow,
                EvalConsume, Evicts, Passes, callVars
  <2> QED
    BY <1>1, <2>1, SameKeeps, OwnKeeps
<1>4. IndexOwn'
  BY <1>1, RedisIndexOwn
<1> QED
  BY <1>2, <1>3, <1>4 DEF OwnInv, CallsOwn, IndexOwn

\* What the DELETEs of a user's sessions find is the user's.
LEMMA UserRowsOwned ==
  ASSUME DataTypes, backend \in Postgres, NEW u \in Users
  PROVE  /\ ChallengeRows(StoredSessionsOf(u)) \subseteq Owned(u)
         /\ KeyRows(StoredSessionsOf(u)) \subseteq Owned(u)
         /\ Cascade(StoredSessionsOf(u)) \subseteq Owned(u)
<1>1. StoredSessionsOf(u) \subseteq SessionsOf(u)
  BY DEF StoredSessionsOf
<1>2. ChallengeRows(StoredSessionsOf(u)) \subseteq {"challenge"} \X Jtis
  BY DEF ChallengeRows
<1>3. KeyRows(StoredSessionsOf(u)) \subseteq {"key"} \X SessionsOf(u) \X Kinds
  BY <1>1 DEF KeyRows
<1>4. SessionRows(StoredSessionsOf(u)) \subseteq {"session"} \X SessionsOf(u)
  BY <1>1 DEF SessionRows
<1> QED
  BY <1>2, <1>3, <1>4 DEF Cascade, Owned

LEMMA AlsoDeletesOwn ==
  ASSUME ReturnTypes, CallsOwn, UNCHANGED backend, NEW c \in Calls,
         NEW step, NEW next, next \notin Pending, NEW R, AlsoDeletes(c, step, next, R),
         R \subseteq Owned(call[c].user)
  PROVE  CallsOwn'
<1> USE DEF ReturnTypes
<1>1. /\ call' = [call EXCEPT ![c].at = next, ![c].found = @ \cup R]
      /\ At(c, {"revokeAllForUser"}, step)
  BY DEF AlsoDeletes
<1>2. /\ call[c] \in Operations /\ call[c] # Failed
      /\ call[c].op = "revokeAllForUser" /\ PurgesOwn(c)
  BY <1>1, PurgeFacts
<1>3. call[c] \in [op : {"revokeAllForUser"}, user : Users, sid : Sessions \cup {Null},
                   found : SUBSET Findable, had : SUBSET Sessions,
                   refused : SUBSET ({"row", "key"} \X (Sessions \cup {Null})), at : Steps]
  BY <1>2 DEF Operations, OperationsOn, SessionCalls
<1>4. /\ call'[c] = [call[c] EXCEPT !.at = next, !.found = @ \cup R]
      /\ \A d \in Calls \ {c} : call'[d] = call[d]
  BY <1>1 DEF CallTypes
<1>5. /\ call'[c].user = call[c].user /\ call'[c].had = call[c].had
      /\ call'[c].found = call[c].found \cup R /\ call'[c].at = next
  BY <1>3, <1>4
<1>6. PurgesOwn(c)'
  BY <1>2, <1>5 DEF PurgesOwn, Owned, SessionsOf
<1> QED
  BY <1>4, <1>6, OwnMoves

LEMMA PostgresOwn ==
  ASSUME ReturnTypes, OwnInv, UNCHANGED backend, PostgresNext
  PROVE  OwnInv'
<1> USE DEF ReturnTypes
<1>1. CallsOwn /\ IndexOwn /\ backend \in Postgres
  BY PostgresServes DEF OwnInv, CallsOwn, IndexOwn, OnPostgres, Serves
<1>2. ASSUME NEW c \in Calls, PostgresCommand(c) PROVE CallsOwn'
  <2>1. ASSUME NEW u \in Users, DeleteUserChallenges(c, u) PROVE CallsOwn'
    <3> DEFINE R == ChallengeRows(StoredSessionsOf(u))
               o == [op |-> "revokeAllForUser", user |-> u, sid |-> Null, found |-> R,
                     had |-> StoredSessionsOf(u), refused |-> {}, at |-> "keys"]
    <3>1. Enters(c, o)
      BY <2>1 DEF DeleteUserChallenges
    <3>2. call'[c] = o /\ \A d \in Calls \ {c} : call'[d] = call[d]
      BY <3>1 DEF Enters, CallTypes
    <3>3. /\ o.user = u /\ o.found = R /\ o.had \subseteq SessionsOf(u)
          /\ o.at = "keys"
      BY DEF StoredSessionsOf
    <3>4. R \subseteq Owned(u)
      BY <1>1, UserRowsOwned
    <3> HIDE DEF o, R
    <3>5. PurgesOwn(c)'
      BY <3>2, <3>3, <3>4 DEF PurgesOwn, Owned, Pending, SessionsOf
    <3> QED
      BY <1>1, <3>2, <3>5, OwnMoves
  <2>2. CASE DeleteUserKeys(c)
    <3>1. PICK u : u = call[c].user
      OBVIOUS
    <3>2. AlsoDeletes(c, "keys", "sessions", KeyRows(StoredSessionsOf(u)))
      BY <2>2, <3>1 DEF DeleteUserKeys
    <3>3. At(c, {"revokeAllForUser"}, "keys")
      BY <3>2 DEF AlsoDeletes
    <3>4. u \in Users
      BY <3>1, <3>3, PurgeFacts
    <3>5. KeyRows(StoredSessionsOf(u)) \subseteq Owned(u)
      BY <1>1, <3>4, UserRowsOwned
    <3> QED
      BY <1>1, <3>1, <3>2, <3>5, AlsoDeletesOwn DEF Pending
  <2>3. CASE DeleteUserSessions(c)
    <3>1. PICK u : u = call[c].user
      OBVIOUS
    <3>2. AlsoDeletes(c, "sessions", "commit", Cascade(StoredSessionsOf(u)))
      BY <2>3, <3>1 DEF DeleteUserSessions
    <3>3. At(c, {"revokeAllForUser"}, "sessions")
      BY <3>2 DEF AlsoDeletes
    <3>4. u \in Users
      BY <3>1, <3>3, PurgeFacts
    <3>5. Cascade(StoredSessionsOf(u)) \subseteq Owned(u)
      BY <1>1, <3>4, UserRowsOwned
    <3> QED
      BY <1>1, <3>1, <3>2, <3>5, AlsoDeletesOwn DEF Pending
  <2>4. CASE Commit(c) \/ RollsBack(c)
    <3>1. Answers(c) \/ Throws(c)
      BY <2>4 DEF Commit, RollsBack, Fails
    <3> QED
      BY <1>1, <3>1, AnswersKeeps, ThrowsKeeps, OwnKeeps DEF Purges
  <2> QED
    BY <1>2, <2>1, <2>2, <2>3, <2>4 DEF PostgresCommand
<1>3. ASSUME ~\E c \in Calls : PostgresCommand(c) PROVE CallsOwn'
  <2>1. UNCHANGED call
    BY <1>3 DEF PostgresNext, UpsertSession, DeleteSession, UpsertKey, DeleteKeys,
                InsertChallenge, UpdateChallenge, Passes, callVars
  <2> QED
    BY <1>1, <2>1, SameKeeps, OwnKeeps
<1>4. UNCHANGED index
  BY DEF PostgresNext, PostgresCommand, UpsertSession, DeleteSession, UpsertKey,
         DeleteKeys, InsertChallenge, UpdateChallenge, DropRows, DeleteUserChallenges,
         DeleteUserKeys, DeleteUserSessions, AlsoDeletes, Commit, RollsBack, tables
<1> QED
  BY <1>1, <1>2, <1>3, <1>4 DEF OwnInv, CallsOwn, IndexOwn, SessionsOf

LEMMA RevokeUserKeysOwn ==
  ASSUME ReturnTypes, CallsOwn, UNCHANGED backend, backend \in BetterAuth,
         NEW c \in Calls, RevokeUserKeys(c)
  PROVE  CallsOwn'
<1> USE DEF ReturnTypes
<1>1. PICK s \in call[c].found :
        call' = [call EXCEPT
                   ![c].at = IF call[c].found = {s} THEN "sessions" ELSE "keys",
                   ![c].found = @ \ {s}]
  BY DEF RevokeUserKeys
<1>2. At(c, {"revokeAllForUser"}, "keys")
  BY DEF RevokeUserKeys
<1>3. /\ call[c] \in Operations /\ call[c] # Failed
      /\ call[c].op = "revokeAllForUser" /\ PurgesOwn(c)
  BY <1>2, PurgeFacts
<1>4. call[c] \in [op : {"revokeAllForUser"}, user : Users, sid : Sessions \cup {Null},
                   found : SUBSET Findable, had : SUBSET Sessions,
                   refused : SUBSET ({"row", "key"} \X (Sessions \cup {Null})), at : Steps]
  BY <1>3 DEF Operations, OperationsOn, SessionCalls
<1>5. PICK step \in {"sessions", "keys"} :
        /\ call'[c] = [call[c] EXCEPT !.at = step, !.found = @ \ {s}]
        /\ \A d \in Calls \ {c} : call'[d] = call[d]
  <2>1. CASE call[c].found = {s}
    BY <1>1, <2>1 DEF CallTypes
  <2>2. CASE call[c].found # {s}
    BY <1>1, <2>2 DEF CallTypes
  <2> QED
    BY <2>1, <2>2
<1>6. /\ call'[c].user = call[c].user /\ call'[c].had = call[c].had
      /\ call'[c].found = call[c].found \ {s} /\ call'[c].at = step
  BY <1>4, <1>5
<1>7. PurgesOwn(c)'
  BY <1>3, <1>6 DEF PurgesOwn, Owned, Pending, SessionsOf
<1> QED
  BY <1>5, <1>7, OwnMoves

LEMMA BetterAuthOwn ==
  ASSUME ReturnTypes, OwnInv, UNCHANGED backend, BetterAuthNext
  PROVE  OwnInv'
<1> USE DEF ReturnTypes
<1>1. CallsOwn /\ IndexOwn /\ backend \in BetterAuth
  BY BetterAuthServes DEF OwnInv, CallsOwn, IndexOwn, OnBetterAuth, Serves
<1>2. ASSUME NEW c \in Calls, BetterAuthCall(c) PROVE CallsOwn'
  <2>1. ASSUME NEW u \in Users, FindUserSessions(c, u) PROVE CallsOwn'
    <3>1. PICK step \in {"sessions", "keys"}, stored \in SUBSET SessionsOf(u) :
            Enters(c, [op |-> "revokeAllForUser", user |-> u, sid |-> Null,
                       found |-> stored, had |-> stored, refused |-> {}, at |-> step])
      BY <2>1 DEF FindUserSessions
    <3> DEFINE o == [op |-> "revokeAllForUser", user |-> u, sid |-> Null,
                     found |-> stored, had |-> stored, refused |-> {}, at |-> step]
    <3>2. call'[c] = o /\ \A d \in Calls \ {c} : call'[d] = call[d]
      BY <3>1 DEF Enters, CallTypes
    <3>3. o.user = u /\ o.found = stored /\ o.had = stored /\ o.at = step
      OBVIOUS
    <3> HIDE DEF o
    <3>4. PurgesOwn(c)'
      BY <1>1, <3>1, <3>2, <3>3
         DEF PurgesOwn, Owned, Pending, SessionsOf, BetterAuth, Postgres
    <3> QED
      BY <1>1, <3>2, <3>4, OwnMoves
  <2>2. ASSUME NEW o, Enters(c, o), o.op \notin Purges PROVE CallsOwn'
    BY <1>1, <2>2, EntersKeeps, OwnKeeps
  <2>3. ASSUME NEW s, FindSession(c, s) PROVE CallsOwn'
    BY <2>2, <2>3 DEF FindSession, Purges
  <2>4. ASSUME NEW s, RevokeKeys(c, s) PROVE CallsOwn'
    BY <2>2, <2>4 DEF RevokeKeys, Purges
  <2>5. ASSUME NEW s, FindNativeKey(c, s) PROVE CallsOwn'
    BY <2>2, <2>5 DEF FindNativeKey, Purges
  <2>6. ASSUME NEW s, NEW kind, NEW key, FindKeyToSet(c, s, kind, key) PROVE CallsOwn'
    BY <2>2, <2>6 DEF FindKeyToSet, EntersBeside, Purges
  <2>7. ASSUME NEW j, FindVerification(c, j) PROVE CallsOwn'
    <3>1. UNCHANGED call
          \/ Enters(c, [op |-> "consumeChallenge", jti |-> j, at |-> "delete"])
      BY <2>7 DEF FindVerification, EntersBeside, callVars
    <3> QED
      BY <1>1, <2>2, <3>1, SameKeeps, OwnKeeps DEF Purges
  <2> QED
    BY <1>2, <2>1, <2>3, <2>4, <2>5, <2>6, <2>7 DEF BetterAuthCall
<1>3. ASSUME NEW c \in Calls, BetterAuthCommand(c) PROVE CallsOwn'
  <2>1. CASE RevokeUserKeys(c)
    BY <1>1, <2>1, RevokeUserKeysOwn
  <2>2. CASE ~RevokeUserKeys(c)
    <3>1. Answers(c) \/ Throws(c)
      BY <1>3, <2>2 DEF BetterAuthCommand, UpdateSession, CreateSession, RevokeRow,
                  FindBoundKey, UpdateKey, CreateKey, DeleteVerification,
                  RevokeUserSessions, DatabaseFails, Fails
    <3> QED
      BY <1>1, <3>1, AnswersKeeps, ThrowsKeeps, OwnKeeps DEF Purges
  <2> QED
    BY <2>1, <2>2
<1>4. ASSUME ~\E c \in Calls : BetterAuthCall(c) \/ BetterAuthCommand(c) PROVE CallsOwn'
  <2>1. UNCHANGED call
    BY <1>4 DEF BetterAuthNext, DeleteSessionRow, DeleteKeyRows, CreateVerification,
                ConsumeVerification, Passes, callVars
  <2> QED
    BY <1>1, <2>1, SameKeeps, OwnKeeps
<1>5. UNCHANGED index
  BY ZenonT(60) DEF BetterAuthNext, BetterAuthCall, BetterAuthCommand, DeleteSessionRow,
         DeleteKeyRows, CreateVerification, ConsumeVerification, FindSession, RevokeKeys,
         FindNativeKey, FindKeyToSet, FindVerification, FindUserSessions, UpdateSession,
         CreateSession, RevokeRow, DropRow, FindBoundKey, UpdateKey, CreateKey,
         DeleteVerification, RevokeUserKeys, RevokeUserSessions, DatabaseFails, tables
<1> QED
  BY <1>1, <1>2, <1>3, <1>4, <1>5 DEF OwnInv, CallsOwn, IndexOwn, SessionsOf

-----------------------------------------------------------------------------
(***************************************************************************)
(* Every step.                                                             *)
(***************************************************************************)

LEMMA LegacyStep ==
  ASSUME LegacyInv, [Next]_vars
  PROVE  LegacyInv'
<1>1. UNCHANGED backend
  BY NextDeployment
<1>2. CASE RedisNext
  BY <1>1, <1>2, RedisServes DEF LegacyInv, OnRedis, Serves
<1>3. CASE PostgresNext
  <2>1. UNCHANGED legacy
    BY <1>3 DEF PostgresNext, PostgresCommand, UpsertSession, DeleteSession, UpsertKey,
         DeleteKeys, InsertChallenge, UpdateChallenge, DropRows, DeleteUserChallenges,
         DeleteUserKeys, DeleteUserSessions, AlsoDeletes, Commit, RollsBack, tables
  <2> QED
    BY <1>1, <2>1 DEF LegacyInv
<1>4. CASE BetterAuthNext
  <2>1. UNCHANGED legacy
    BY ZenonT(60), <1>4 DEF BetterAuthNext, BetterAuthCall, BetterAuthCommand, DeleteSessionRow,
         DeleteKeyRows, CreateVerification, ConsumeVerification, FindSession, RevokeKeys,
         FindNativeKey, FindKeyToSet, FindVerification, FindUserSessions, UpdateSession,
         CreateSession, RevokeRow, DropRow, FindBoundKey, UpdateKey, CreateKey,
         DeleteVerification, RevokeUserKeys, RevokeUserSessions, DatabaseFails, tables
  <2> QED
    BY <1>1, <2>1 DEF LegacyInv
<1>5. CASE Expires \/ (\E c \in Calls : GivesUp(c)) \/ (\E b \in Boots : Starts(b))
           \/ UNCHANGED vars
  BY <1>1, <1>5 DEF Expires, GivesUp, Starts, vars, tables, LegacyInv
<1> QED
  BY <1>2, <1>3, <1>4, <1>5 DEF Next

\* A step of the clock, of a caller that gives up, of an instance that starts.
LEMMA OtherSteps ==
  ASSUME ReturnTypes, UNCHANGED backend,
         Expires \/ (\E c \in Calls : GivesUp(c)) \/ (\E b \in Boots : Starts(b))
           \/ UNCHANGED vars
  PROVE  StepSound /\ OwnInv'
<1> USE DEF ReturnTypes, ReturnInv
<1>1. IndexOwn /\ CallsOwn
  BY DEF OwnInv, CallsOwn, IndexOwn
<1>2. CASE Expires
  <2>1. PICK j \in Jtis : challenges' = [challenges EXCEPT ![j].state = "expired"]
    BY <1>2 DEF Expires
  <2>2. UNCHANGED <<rows, keys, legacy, index, call, overlaps>>
    BY <1>2 DEF Expires, callVars
  <2>3. StepSound
    BY <2>1, <2>2, SameRows, SameKeys, SameLegacy, CloseChange, QuietSound DEF Changes
  <2> QED
    BY <1>1, <2>2, <2>3, SameKeeps, OwnKeeps DEF OwnInv, CallsOwn, IndexOwn, SessionsOf
<1>3. ASSUME NEW c \in Calls, GivesUp(c) PROVE StepSound /\ OwnInv'
  <2>1. Answers(c) /\ call[c] = Failed /\ UNCHANGED <<rows, keys, legacy, index, challenges>>
    BY <1>3 DEF GivesUp, tables
  <2>2. Failed # Null
    BY NullIsNoCall DEF Operations, OperationsOn
  <2>3. StepSound
    BY <2>1, <2>2, SameChanges, ReturnsPlainSound DEF Failed
  <2> QED
    BY <1>1, <2>1, <2>3, AnswersKeeps, OwnKeeps DEF OwnInv, CallsOwn, IndexOwn, SessionsOf
<1>4. CASE (\E b \in Boots : Starts(b)) \/ UNCHANGED vars
  <2>1. UNCHANGED <<rows, keys, legacy, index, challenges, call, overlaps>>
    BY <1>4 DEF Starts, vars, tables, callVars
  <2>2. StepSound
    BY <2>1, SameChanges, QuietSound
  <2> QED
    BY <1>1, <2>1, <2>2, SameKeeps, OwnKeeps DEF OwnInv, CallsOwn, IndexOwn, SessionsOf
<1> QED
  BY <1>2, <1>3, <1>4

LEMMA ReturnStep ==
  ASSUME ReturnTypes, [Next]_vars
  PROVE  /\ ReturnTypes'
         /\ \A c \in Calls : (Returns(c) => Done(c)) /\ (Breaks(c) => BrokenOff(c))
<1> USE DEF ReturnTypes, ReturnInv
<1>1. UNCHANGED backend
  BY NextDeployment
<1>2. StepSound /\ OwnInv'
  <2>1. CASE RedisNext
    BY <1>1, <2>1, RedisSound, RedisOwn
  <2>2. CASE PostgresNext
    BY <1>1, <2>2, PostgresSound, PostgresOwn
  <2>3. CASE BetterAuthNext
    BY <1>1, <2>3, BetterAuthSound, BetterAuthOwn
  <2> QED
    BY <1>1, <2>1, <2>2, <2>3, OtherSteps DEF Next
<1>3. /\ Noticed' /\ ProgressInv'
      /\ \A c \in Calls : (Returns(c) => Done(c)) /\ (Breaks(c) => BrokenOff(c))
  BY <1>1, <1>2, SoundStep
<1> QED
  BY <1>2, <1>3, TypesStep, IndexStep, LegacyStep

LEMMA ReturnInit == Init => ReturnTypes
<1> SUFFICES ASSUME Init PROVE ReturnTypes
  OBVIOUS
<1>1. CallTypes /\ DataTypes /\ IndexInv
  BY TypesInit, IndexInit
<1>2. /\ \A c \in Calls : call[c] = Null
      /\ \A u \in Users : index[u] = {}
      /\ LegacyInv
  BY DEF Init, CallsInit, LegacyInv
<1>3. Noticed /\ OwnInv /\ ProgressInv
  BY <1>2 DEF Noticed, OwnInv, ProgressInv, InFlight, Calls1
<1> QED
  BY <1>1, <1>2, <1>3 DEF ReturnTypes, ReturnInv

-----------------------------------------------------------------------------
(***************************************************************************)
(* The theorems.                                                           *)
(***************************************************************************)

\* Each call in flight has come as far as its next command says, but for what
\* the calls it has been told of have done to the tables.
THEOREM CallsProgress == Spec => []ReturnInv
<1>1. Init => ReturnTypes
  BY ReturnInit
<1>2. ReturnTypes /\ [Next]_vars => ReturnTypes'
  BY ReturnStep
<1>3. ReturnTypes => ReturnInv
  BY DEF ReturnTypes
<1> QED
  BY <1>1, <1>2, <1>3, PTL DEF Spec

\* A finished revocation has left nothing of the session: no row, no key, no
\* open challenge where the storage has to remove those, but what calls beside
\* it wrote and, over Redis, what a DEL of the pipeline of revokeAllForUser that
\* failed has kept (revokeSession and revokeAllForUser of every backend).
THEOREM RevocationHolds == Spec => RevocationComplete
<1>1. Init => ReturnTypes
  BY ReturnInit
<1>2. ReturnTypes /\ [Next]_vars => ReturnTypes'
  BY ReturnStep
<1>3. ReturnTypes /\ [Next]_vars =>
        [\A c \in Calls :
           Returns(c) /\ call[c].op \in {"revokeSession", "revokeAllForUser"} =>
             \A s \in Targets(call[c]) :
               \/ call[c].op = "revokeAllForUser" /\ <<"gone", s>> \in overlaps[c]
               \/ RevokedFor(c, s)]_vars
  BY ReturnStep DEF Done, RevocationDone
<1> QED
  BY <1>1, <1>2, <1>3, PTL DEF Spec, RevocationComplete

\* A revokeAllForUser that throws, at whichever of its commands, has left the row
\* of every session it was to remove, so that a repeat finds the session
\* (PostgreSQL's ROLLBACK; the order of the deletes over Better Auth; SMEMBERS
\* is the only command of Redis's that throws).
THEOREM RevocationRepeats == Spec => RevocationRepeatable
<1>1. Init => ReturnTypes
  BY ReturnInit
<1>2. ReturnTypes /\ [Next]_vars => ReturnTypes'
  BY ReturnStep
<1>3. ReturnTypes /\ [Next]_vars =>
        [\A c \in Calls :
           Breaks(c) /\ call[c].op = "revokeAllForUser" =>
             \A s \in call[c].had : s \in rows' \/ <<"gone", s>> \in overlaps[c]]_vars
  BY ReturnStep DEF BrokenOff
<1> QED
  BY <1>1, <1>2, <1>3, PTL DEF Spec, RevocationRepeatable

\* A getBoundKey of a session that had a key when it started answers a key,
\* unless a call beside it deleted or moved that key; a setBoundKey that returns
\* leaves the key it was given as the only one of its kind, and no v2.6 row over
\* it, unless a call beside it wrote or deleted keys (getBoundKey and setBoundKey
\* of RedisStorage and of the Better Auth adapter).
THEOREM KeysAreAnswered == Spec => KeysAnswered
<1>1. Init => ReturnTypes
  BY ReturnInit
<1>2. ReturnTypes /\ [Next]_vars => ReturnTypes'
  BY ReturnStep
<1>3. ReturnTypes /\ [Next]_vars =>
        [\A c \in Calls : Returns(c) =>
           /\ call[c].op = "getBoundKey" /\ call[c].had /\ ~Found(c) => MissesForCause(c)
           /\ call[c].op = "setBoundKey" => KeyLeft(c)]_vars
  BY ReturnStep DEF Done, ReadDone, WriteDone
<1> QED
  BY <1>1, <1>2, <1>3, PTL DEF Spec, KeysAnswered
=============================================================================
