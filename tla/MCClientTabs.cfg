SPECIFICATION SafetySpec

CONSTANTS
  Tabs = {t1, t2}
  SessionIds = {s1}
  Keys = {k1, k2, k3, k4}
  Null = Null
  MaxPolls = 0
  MaxPosts = 2
  MaxFailures = 0

SYMMETRY Symmetry

INVARIANT AlarmMeansTheft
