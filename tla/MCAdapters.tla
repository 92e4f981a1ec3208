----------------------------- MODULE MCAdapters -----------------------------
(***************************************************************************)
(* A small instance of Adapters for TLC.                                   *)
(***************************************************************************)
EXTENDS Adapters

\* BOUND: while requests are in the middle of a check, or after one, the
\* challenges and the registration cookie of the session are left alone.
ChecksApart ==
  ~AtRest \/ emitted \/ beside =>
    jar.challenge = "none" /\ sdk = "none" /\ ~jar.reg
=============================================================================
