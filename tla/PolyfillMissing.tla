-------------------------- MODULE PolyfillMissing --------------------------
(***************************************************************************)
(* maybeEmitPolyfillMissing (src/core/telemetry/polyfill-missing.ts): the  *)
(* middleware of a request warns, once per session and process, of a dbsc  *)
(* session that has no polyfill key.  The set of warned sessions is looked *)
(* at before an awaited read of the key and filled after it.  One session  *)
(* in one process.                                                         *)
(***************************************************************************)
EXTENDS Naturals

CONSTANT
  Checks        \* BOUND: requests in the middle of a check

VARIABLES
  check,        \* what each check is doing
  emitted,      \* the session is in polyfillMissingEmitted
  alarms,       \* events since the process started (0..2)
  beside        \* history: a check was begun beside another one

missingVars == <<check, emitted, alarms, beside>>

MissingInit ==
  /\ check = [c \in Checks |-> "idle"]
  /\ emitted = FALSE
  /\ alarms = 0
  /\ beside = FALSE

MissingTypeOK ==
  /\ check \in [Checks -> {"idle", "reading", "lacking"}]
  /\ emitted \in BOOLEAN
  /\ alarms \in 0..2
  /\ beside \in BOOLEAN

AtRest == \A c \in Checks : check[c] = "idle"

\* `tier` is that of the row, not the one the middleware hands on.  The age of
\* the session is free.
Tests(c, tier) ==
  /\ check[c] = "idle"
  /\ tier = "dbsc" /\ ~emitted
  /\ check' = [check EXCEPT ![c] = "reading"]
  /\ beside' = (beside \/ \E d \in Checks : check[d] # "idle")
  /\ UNCHANGED <<emitted, alarms>>

\* The key is read.
ReadsKey(c, hasKey) ==
  /\ check[c] = "reading"
  /\ check' = [check EXCEPT ![c] = IF hasKey THEN "idle" ELSE "lacking"]
  /\ UNCHANGED <<emitted, alarms, beside>>

\* Bug: the session is not put into the set.
EmitsOnly(c) ==
  /\ check[c] = "lacking"
  /\ check' = [check EXCEPT ![c] = "idle"]
  /\ alarms' = IF alarms = 2 THEN 2 ELSE alarms + 1
  /\ UNCHANGED <<emitted, beside>>

\* The handler resumes after the read.
Emits(c) ==
  /\ check[c] = "lacking"
  /\ check' = [check EXCEPT ![c] = "idle"]
  /\ emitted' = TRUE
  /\ alarms' = IF alarms = 2 THEN 2 ELSE alarms + 1
  /\ UNCHANGED beside

\* The process restarts: the set and the requests in flight are gone.
Restarts ==
  /\ check' = [c \in Checks |-> "idle"]
  /\ emitted' = FALSE
  /\ alarms' = 0
  /\ beside' = FALSE

\* The session is warned of once per process, unless two requests of it were
\* in the middle of the check at the same time.
AlarmOnce == alarms > 1 => beside
=============================================================================
