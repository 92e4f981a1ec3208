SPECIFICATION Spec

CONSTANTS
  Sessions = {s1, s2}
  Users = {u1}
  UserOf <- MCUserOf
  Keys = {k1, k2}
  Jtis = {j1}
  Calls = {c1, c2}
  Boots = {b1, b2}
  Null = Null

SYMMETRY Symmetry

INVARIANTS
  TypeOK
  ConsumedOnce
  IndexComplete
  OneKeyPerKind
  SchemaSound

PROPERTIES
  RevocationComplete
  RevocationRepeatable
  KeysAnswered
CONSTRAINTS Family RevokesApart AllUp
