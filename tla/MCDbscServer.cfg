SPECIFICATION Spec

CONSTANTS
  SessionIds = {s1, s2}
  Users = {u1}
  UserOf <- MCUserOf
  Keys = {k1, k2}
  Jtis = {j1, j2}
  Null = Null
  ChallengeTtl = 0
  SessionTtl = 0
  BoundCookieTtl = 0
  RefreshGrace = 0
  MaxTime = 1
  Requests = {r1, r2}

SYMMETRY Symmetry

INVARIANTS
  TypeOK
  SingleUse
  KeyProvenance
  TierBacked
  Freshness
  LifetimeBounded

PROPERTIES
  AcceptedProofs
  LedgerSpec

CONSTRAINT Instance
