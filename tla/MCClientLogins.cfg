SPECIFICATION SafetySpec

CONSTANTS
  Tabs = {t1}
  SessionIds = {s1, s2}
  Keys = {k1, k2, k3, k4, k5}
  Null = Null
  MaxPolls = 1
  MaxPosts = 1
  MaxFailures = 1

INVARIANTS
  RecordRegistered
  AlarmExplained
