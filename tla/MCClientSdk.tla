---------------------------- MODULE MCClientSdk -----------------------------
(***************************************************************************)
(* Small instances of ClientSdk for TLC.                                   *)
(***************************************************************************)
EXTENDS ClientSdk, TLC

\* For safety only.
Symmetry == Permutations(Tabs)
=============================================================================
