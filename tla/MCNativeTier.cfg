SPECIFICATION Spec

CONSTANTS
  SessionIds = {s1}
  Users = {u1}
  UserOf <- MCUserOf
  Keys = {k1}
  Jtis = {j1, j2}
  Null = Null
  ChallengeTtl = 0
  SessionTtl = 0
  BoundCookieTtl = 0
  RefreshGrace = 0
  MaxTime = 0
  Requests = {r1, r2}

SYMMETRY Symmetry

PROPERTY NativeTierKept
