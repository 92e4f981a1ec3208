---------------------------- MODULE MCReplayGuard ---------------------------
(***************************************************************************)
(* Two proofs of the polyfill key, one stamped by a fast clock, and two    *)
(* DPoP proofs that share a jti.                                           *)
(***************************************************************************)
EXTENDS ReplayGuard, TLC

CONSTANTS early, late, token1, token2, k1, k2

MCProofs == {early, late, token1, token2}
MCKeys == {k1, k2}
MCCacheKeys == {"early", "late", "jti"}

MCKindOf ==
  early :> "bound" @@ late :> "bound" @@ token1 :> "dpop" @@ token2 :> "dpop"

MCStamp == early :> 1 @@ late :> 2 @@ token1 :> 1 @@ token2 :> 3

MCSignerOf == early :> k1 @@ late :> k2 @@ token1 :> k1 @@ token2 :> k1

MCReplayKeyOf ==
  early :> "early" @@ late :> "late" @@ token1 :> "jti" @@ token2 :> "jti"

Symmetry == Permutations(Requests)
=============================================================================
