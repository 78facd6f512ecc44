SPECIFICATION RolesSpec
CONSTANTS
  Users = {u1, u2}
  Host = u1
  Other = u2
  Sessions = {s1, s2}
  Starts <- SomeStarts
PROPERTIES ChangesAreRightful LastOneStays RolesConverge
CHECK_DEADLOCK FALSE
