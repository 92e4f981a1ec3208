SPECIFICATION Spec

CONSTANTS
  Tabs = {t1}
  SessionIds = {s1}
  Keys = {k1, k2, k3, k4, k5}
  Null = Null
  MaxPolls = 1
  MaxPosts = 2
  MaxFailures = 2

INVARIANTS
  TypeOK
  RecordRegistered
  AlarmExplained

PROPERTIES
  Resolves
  BindsWhenCalm
