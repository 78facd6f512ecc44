SPECIFICATION TreeSpec
CONSTANTS
  Users = {u1, u2}
  Lead = u1
  Sessions = {s1, s2}
  MaxNodes = 12
  Repos = {r1, r2, r3}
  Names = {r2, r3}
  Linked = r1
  Unlinked = r2
  Keys = {k1}
  Asks <- AllAsks
  MaxEvents = 1
  Nobody = Nobody
INVARIANTS LeftoversOnlyByMishap ShownIsSo
PROPERTY OnlyTheEntitledChange
SYMMETRY Symmetry
CHECK_DEADLOCK FALSE
