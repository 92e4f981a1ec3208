SPECIFICATION Spec

CONSTANT
  Checks = {c1, c2}

INVARIANTS
  TypeOK
  AlarmMatchesDemotion
  LimiterFirst
  
  ReportBacked
  GuardSound
  AlarmOnce

PROPERTY Recovers

CONSTRAINT ChecksApart
