SPECIFICATION HostingSpec
CONSTANTS
  Sessions = {s1, s2}
  Rows = {i1, i2, i3}
  Resources = {x1, x2, x3}
  Standing = {x1}
  Keys = {url, key}
  LinkKey = url
  Limit = 2
  Byo = TRUE
  Teams = {TRUE, FALSE}
  Asks <- AllAsks
  Faults <- AllFaults
  MaxTargetFaults = 1
  Absent = Absent
INVARIANT ReportsAreTrue
PROPERTIES StrandedOnlyBeforeItsRow LostOnlyByOverlap
CHECK_DEADLOCK FALSE
