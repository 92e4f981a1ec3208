SPECIFICATION Spec

CONSTANTS
  SessionIds = {s1}
  Users = {u1}
  UserOf <- MCUserOf
  Keys = {k1}
  Jtis = {j1, j2}
  Null = Null
  ChallengeTtl = 1
  SessionTtl = 1
  BoundCookieTtl = 0
  RefreshGrace = 0
  MaxTime = 1
  Requests = {r1, r2}

SYMMETRY Symmetry

PROPERTY DemotionKept
