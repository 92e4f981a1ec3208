-------------------------- MODULE StorageBackends --------------------------
(***************************************************************************)
(* The durable storages of the toolkit under one caller: a deployment      *)
(* picks its backend once, brings its schema up, and then calls the        *)
(* storage from concurrent handlers.  What the properties promise holds    *)
(* for every backend; where the code of one cannot keep a promise, the     *)
(* property names the circumstance.                                        *)
(***************************************************************************)
EXTENDS RedisStorage, PostgresStorage, BetterAuthStorage

vars == <<deployment, tables, history, callVars>>

\* Rows of v2.6 are found by a RedisStorage only.
Init ==
  /\ CallsInit
  /\ backend \in Backends
  /\ legacy \in [Sessions -> Keys \cup {Null}]
  /\ backend # "redis" => legacy = [s \in Sessions |-> Null]
  /\ applied = {} /\ recorded = {}
  /\ boot = [b \in Boots |-> Down]

\* Only PostgresStorage has a schema to bring up.
Starts(b) ==
  /\ backend = "postgres"
  /\ BootStep(b)
  /\ UNCHANGED <<backend, tables, history, callVars>>

Next ==
  \/ RedisNext
  \/ PostgresNext
  \/ BetterAuthNext
  \/ Expires
  \/ \E c \in Calls : GivesUp(c)
  \/ \E b \in Boots : Starts(b)

Spec == Init /\ [][Next]_vars

TypeOK == CallsTypeOK /\ SchemaTypeOK

-----------------------------------------------------------------------------
\* Two concurrent consumes of one challenge are answered with one `true`
\* (spec/06-storage-contract.md, "The atomicity requirement").  Over a Better
\* Auth without consumeVerificationValue only calls that overlap can both be
\* told; without a delete either, every one is.
ConsumedOnce ==
  \A j \in Jtis :
    told[j] > 1 =>
      \/ backend = "betterAuthFind"
      \/ backend = "betterAuthDelete" /\ <<"consume", j>> \in rivals

\* Redis: the row of a session is found through the index of its user, so that
\* revokeAllForUser reaches it, except while a setSession or a revokeSession
\* of it is half done, and after one was cut there or a revokeAllForUser
\* dropped the index over it: the session had come to it since SMEMBERS, or
\* the DEL of its row had failed (strays).
Reachable(s) ==
  \/ s \in index[UserOf[s]]
  \/ s \in strays
  \/ \E c \in Calls : HalfDone(c) /\ call[c].sid = s

IndexComplete ==
  backend = "redis" => \A s \in rows : Reachable(s)

\* A session has one key of each kind, whatever writes it, unless two writes
\* of it overlapped; only the two-step setBoundKey of Better Auth then leaves
\* two rows.
OneKeyPerKind ==
  \A s \in Sessions, kind \in Kinds, k1, k2 \in Keys :
    {k1, k2} \subseteq keys[s][kind] /\ k1 # k2 =>
      backend \in BetterAuth /\ <<"key", s, kind>> \in rivals

Returns(c) == call[c] \notin {Null, Failed} /\ call'[c] = Null

Breaks(c) == call[c] \notin {Null, Failed} /\ call'[c] = Failed

Targets(o) == IF o.op = "revokeAllForUser" THEN o.had ELSE {o.sid}

\* Redis only: what a revokeAllForUser was told it could not remove.
Refused(o) == IF o.op = "revokeAllForUser" THEN o.refused ELSE {}

\* What a finished revocation leaves of session s: nothing but what calls
\* beside it wrote and, over Redis, what a failed DEL of its pipeline kept.
\* Pending challenges are dropped by PostgreSQL only (by revokeSession once 003
\* is applied).
RevokedFor(c, s) ==
  /\ \/ s \notin rows'
     \/ <<"session", s>> \in overlaps[c]
     \/ <<"row", s>> \in Refused(call[c])
  /\ \/ HasKey(s, Kinds)' = FALSE
     \/ \E kind \in Kinds : <<"key", s, kind>> \in overlaps[c]
     \/ <<"session", s>> \in overlaps[c]
     \/ <<"key", s>> \in Refused(call[c])
  /\ \/ backend = "postgres"
     \/ backend = "postgres002" /\ call[c].op = "revokeAllForUser"
     => \/ \A j \in Jtis : challenges[j].sid = s => challenges'[j].state # "open"
        \/ {<<"challenge", s>>, <<"session", s>>} \cap overlaps[c] # {}

\* A revocation that returns has left nothing of its sessions.  A
\* revokeAllForUser is not asked about a session that another revocation beside
\* it removes.
RevocationComplete ==
  [][\A c \in Calls :
       Returns(c) /\ call[c].op \in {"revokeSession", "revokeAllForUser"} =>
         \A s \in Targets(call[c]) :
           \/ call[c].op = "revokeAllForUser" /\ <<"gone", s>> \in overlaps[c]
           \/ RevokedFor(c, s)]_vars

\* A revokeAllForUser that throws half way can be repeated: the row of every
\* session it was to remove is still there to find the session by, whatever it
\* has deleted so far, unless another revocation beside it removed the row
\* (PostgreSQL rolls back, a deadlock among others; Better Auth deletes the keys
\* one by one and the rows last; Redis throws before it has deleted anything).
RevocationRepeatable ==
  [][\A c \in Calls :
       Breaks(c) /\ call[c].op = "revokeAllForUser" =>
         \A s \in call[c].had : s \in rows' \/ <<"gone", s>> \in overlaps[c]]_vars

\* The last read of a getBoundKey of two finds a key.
Found(c) ==
  LET o == call[c] IN
  CASE o.at = "legacy" -> legacy[o.sid] # Null
    [] o.at = "bound"  -> keys[o.sid]["bound"] # {}

\* A getBoundKey that found nothing, of a session that had a key when it
\* started: the key was deleted meanwhile, or a setBoundKey moved it between
\* the two reads (Redis looks for the v2.6 row last and the write has just
\* removed it).
MissesForCause(c) ==
  \/ <<"gone", call[c].sid>> \in overlaps[c]
  \/ \E kind \in Kinds : <<"key", call[c].sid, kind>> \in overlaps[c]

\* What a finished setBoundKey leaves: its key and no other, in Redis also over
\* a v2.6 row, unless another call wrote or deleted keys beside it.
KeyLeft(c) ==
  LET o == call[c] IN
  \/ {<<"gone", o.sid>>, <<"key", o.sid, o.kind>>} \cap overlaps[c] # {}
  \/ /\ keys'[o.sid][o.kind] = {o.key}
     /\ o.kind = "native" => legacy'[o.sid] = Null

\* Keys are answered as they were written: a session that has one is not told
\* it has none (a handler that reads no native key falls back to the bound
\* tier), and what setBoundKey has stored is what the next getBoundKey answers;
\* the calls that ran beside each are the only excuse.
KeysAnswered ==
  [][\A c \in Calls : Returns(c) =>
       /\ call[c].op = "getBoundKey" /\ call[c].had /\ ~Found(c) => MissesForCause(c)
       /\ call[c].op = "setBoundKey" => KeyLeft(c)]_vars
=============================================================================
