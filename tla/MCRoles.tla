---- MODULE MCRoles ----
(***************************************************************************)
(* Instances of Roles for TLC.                                             *)
(***************************************************************************)
EXTENDS Roles

CONSTANT Other

Of(kinds) == {a \in Ask : a.ask \in kinds}
Alone(kind) == {a \in Of({kind}) : a.by = Host /\ a.on = Host}

Console ==
  Of({"set", "grant", "reset", "revoke"}) \cup Alone("sync")

Workspace ==
  Of({"add", "update", "remove"}) \cup Alone("open")

ConsoleOf(supers, admins, requests, changes, faults) ==
  [supers |-> supers, admins |-> admins, leads |-> {Host}, owners |-> {}, asks |-> Console,
   left |-> [requests |-> requests, changes |-> changes, faults |-> faults]]
WorkspaceOf(owners) ==
  [supers |-> {Host}, admins |-> {}, leads |-> {Host}, owners |-> owners, asks |-> Workspace,
   left |-> [requests |-> 3, changes |-> 0, faults |-> 0]]

\* One super-admin beside an admin, or two super-admins, with two requests, or with one
\* that meets a change of team and a failure; a workspace that is not opened, or with
\* two owners.
SomeStarts ==
  {ConsoleOf({Host}, {Other}, 2, 1, 0), ConsoleOf(Users, {}, 2, 0, 1),
   ConsoleOf({Host}, {Other}, 1, 1, 1), ConsoleOf(Users, {}, 1, 1, 2),
   WorkspaceOf({}), WorkspaceOf(Users)}
====
