SPECIFICATION Spec

CONSTANTS
  early = early
  late = late
  token1 = token1
  token2 = token2
  k1 = k1
  k2 = k2
  Proofs <- MCProofs
  Keys <- MCKeys
  CacheKeys <- MCCacheKeys
  KindOf <- MCKindOf
  Stamp <- MCStamp
  SignerOf <- MCSignerOf
  ReplayKeyOf <- MCReplayKeyOf
  Window = 1
  Null = Null
  Requests = {r1, r2}
  MaxTime = 4

SYMMETRY Symmetry

INVARIANTS
  TypeOK
  OnlyAcceptedRecorded

PROPERTY ReplayNeedsDelay
