SPECIFICATION Spec
CONSTANTS
  Users = {u1, u2}
  Developers = {u2}
  Repos = {r1}
  Sessions = {s1, s2, s3}
  Promoter = s3
  NoOne = NoOne
  Requests <- AllRequests
  Faults = {"transaction", "cascade"}
  Start <- OwnedGroups
INVARIANT TypeOK
PROPERTIES OneLeadAfterTransfer OwnerLostOnlyUnlocked StrayOnlyByLateAssign
SYMMETRY UserSessionSymmetry
CHECK_DEADLOCK FALSE
