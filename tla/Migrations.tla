----------------------------- MODULE Migrations -----------------------------
(***************************************************************************)
(* PostgresStorage.runMigrations (src/storage/postgres/index.ts) by the    *)
(* instances of an application that start at the same time, over the three *)
(* scripts of migrations/.  runMigrations means one transaction for a      *)
(* script and the row that records it; but 002 and 003 bring their own     *)
(* BEGIN and COMMIT, and theirs ends the one around them.                  *)
(***************************************************************************)
EXTENDS Integers

CONSTANT Boots        \* application instances

Scripts == 1..3

\* Scripts whose text ends with COMMIT.
SelfCommitting == {2, 3}

VARIABLES
  applied,      \* scripts whose effect is committed
  recorded,     \* names in dbsc_migrations
  boot          \* each instance: its step, the names it read, the next script

schemaVars == <<applied, recorded, boot>>

Boot == [at : {"down", "script", "record", "up", "thrown"},
         saw : SUBSET Scripts, next : Scripts]

Down == [at |-> "down", saw |-> {}, next |-> 1]

\* Bug: the loop runs on past the last file.
GoesPast(saw, from) ==
  LET left == {i \in Scripts : i >= from /\ i \notin saw} IN
  IF left = {} THEN [at |-> "script", saw |-> saw, next |-> 4]
  ELSE [at |-> "script", saw |-> saw,
        next |-> CHOOSE i \in left : \A j \in left : i <= j]

\* The loop's next file that is not in appliedSet.
Goes(saw, from) ==
  LET left == {i \in Scripts : i >= from /\ i \notin saw} IN
  IF left = {} THEN [at |-> "up", saw |-> {}, next |-> 1]
  ELSE [at |-> "script", saw |-> saw,
        next |-> CHOOSE i \in left : \A j \in left : i <= j]

\* CREATE TABLE IF NOT EXISTS and SELECT name: read once, without a lock.
ReadApplied(b) ==
  /\ boot[b].at = "down"
  /\ boot' = [boot EXCEPT ![b] = Goes(recorded, 1)]
  /\ UNCHANGED <<applied, recorded>>

\* Bug: the name is recorded before the script has run.
RecordFirst(b) ==
  LET i == boot[b].next IN
  /\ boot[b].at = "script"
  /\ recorded' = recorded \cup {i}
  /\ boot' = [boot EXCEPT ![b].at = "record"]
  /\ UNCHANGED applied

\* BEGIN and the script.  A script needs the tables of those before it; run a
\* second time it changes nothing (IF [NOT] EXISTS, drop and add).
RunScript(b) ==
  LET i == boot[b].next IN
  /\ boot[b].at = "script"
  /\ IF 1..(i - 1) \subseteq applied
     THEN /\ applied' = IF i \in SelfCommitting THEN applied \cup {i} ELSE applied
          /\ boot' = [boot EXCEPT ![b].at = "record"]
     ELSE boot' = [boot EXCEPT ![b].at = "thrown"] /\ UNCHANGED applied
  /\ UNCHANGED recorded

\* INSERT of the name and COMMIT.  The name is UNIQUE: the second of two
\* instances that ran the same script throws, and its rollback undoes no more
\* than 001.
Record(b) ==
  LET i == boot[b].next IN
  /\ boot[b].at = "record"
  /\ IF i \in recorded
     THEN /\ boot' = [boot EXCEPT ![b].at = "thrown"]
          /\ UNCHANGED <<applied, recorded>>
     ELSE /\ recorded' = recorded \cup {i}
          /\ applied' = IF i \in SelfCommitting THEN applied ELSE applied \cup {i}
          /\ boot' = [boot EXCEPT ![b] = Goes(boot[b].saw, i + 1)]

\* A query fails or the process dies.
BootFails(b) ==
  /\ boot[b].at \in {"script", "record"}
  /\ boot' = [boot EXCEPT ![b].at = "thrown"]
  /\ UNCHANGED <<applied, recorded>>

\* The supervisor starts the process again.
Reboots(b) ==
  /\ boot[b].at = "thrown"
  /\ boot' = [boot EXCEPT ![b] = Down]
  /\ UNCHANGED <<applied, recorded>>

BootStep(b) ==
  ReadApplied(b) \/ RunScript(b) \/ Record(b) \/ BootFails(b) \/ Reboots(b)

SchemaTypeOK ==
  /\ applied \subseteq Scripts
  /\ recorded \subseteq Scripts
  /\ boot \in [Boots -> Boot]

\* Whatever fails and whoever races, the schema is a prefix of the scripts,
\* no script is recorded that did not run, and an instance that serves has
\* all of them (PostgresStorage.runMigrations: "Apply every bundled
\* migrations/*.sql file in order, idempotently").
SchemaSound ==
  /\ recorded \subseteq applied
  /\ \A i \in applied : 1..i \subseteq applied
  /\ \A b \in Boots : boot[b].at = "up" => recorded = Scripts
=============================================================================
