---- MODULE MCGroupMembers ----
(***************************************************************************)
(* Instances of GroupMembers for TLC.                                      *)
(***************************************************************************)
EXTENDS GroupMembers, TLC

CONSTANT Promoter \* a request that does nothing but promote

\* Everything that changes who belongs, who leads and who holds an assignment.
AllRequests ==
  [s \in Sessions |-> IF s = Promoter THEN {"promote"} ELSE RequestKinds]

\* Every member table with an owner.
OwnedGroups ==
  {m \in [Users -> Member] : \E u \in Users : m[u] = [role |-> "admin", status |-> "active"]}

UserSessionSymmetry ==
  Permutations(Developers) \cup Permutations(Users \ Developers) \cup Permutations(Sessions \ {Promoter})
====
