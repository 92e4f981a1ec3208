SPECIFICATION Spec

CONSTANTS
  Tabs = {t1}
  SessionIds = {s1}
  Keys = {k1, k2, k3}
  Null = Null
  MaxPolls = 0
  MaxPosts = 1
  MaxFailures = 1

PROPERTY Rebinds
