---- MODULE Roles ----
(***************************************************************************)
(* Who may do what, outside the groups: the platform roles and the global  *)
(* role of every user, the two ways in which GitHub's teams set the latter *)
(* (one user at a time, at sign-in or for an event; all of them, in a      *)
(* sweep), the console in which administrators set it by hand, and the     *)
(* members of one user's personal workspace.                               *)
(*                                                                         *)
(* No request here runs in a transaction: each reads, perhaps twice, and   *)
(* writes by one statement, and others run in between.                     *)
(***************************************************************************)
EXTENDS Naturals, FiniteSets

CONSTANTS
  Users,
  Host,      \* the user whose personal workspace it is
  Sessions,  \* requests that run at a time
  Starts     \* who is what at the start, which requests come, and the bounds

RoleAsks == {"set", "reset", "sync"}
PlatformAsks == {"grant", "revoke"}
WorkspaceAsks == {"add", "update", "remove", "open"}
AppRoles == {"admin", "lead", "member"}
PlatformRoles == {"none", "admin", "super_admin"}
WorkspaceRoles == {"none", "member", "delegated_lead", "admin"}
RoleTeams == {"lead", "developer", "both", "none"}

\* The roles a request may name (@IsIn).
Grantable(ask) ==
  CASE ask = "set" -> AppRoles
    [] ask = "grant" -> PlatformRoles \ {"none"}
    [] ask \in {"add", "update"} -> WorkspaceRoles \ {"none"}
    [] OTHER -> {"none"}
Ask == {a \in [ask : RoleAsks \cup PlatformAsks \cup WorkspaceAsks, by : Users, on : Users,
               to : AppRoles \cup PlatformRoles \cup WorkspaceRoles] : a.to \in Grantable(a.ask)}

\* The bounds of a start are on its requests, on the changes of the teams at GitHub, and
\* on the answers that do not come and the requests that are cut short.
ASSUME RolesAssumption ==
  /\ Host \in Users
  /\ \A b \in Starts :
       /\ {b.supers, b.admins, b.leads, b.owners} \subseteq SUBSET Users /\ b.supers # {}
       /\ b.asks \subseteq Ask /\ b.left \in [requests : Nat, changes : Nat, faults : Nat]

VARIABLES
  role,      \* identity.app_users.app_role
  source,    \* identity.app_users.app_role_source
  platform,  \* identity.platform_admins, "none" without a row
  team,      \* GitHub: the role teams a user is in
  events,    \* users with a membership event that is not handled yet
  member,    \* orgs.workspace_members of the workspace, "none" without a row
  asks,      \* the set of requests of this behaviour
  req,       \* per session: its request between two awaits
  sweep,     \* the sweep of the reconciliation
  left       \* what the bounds leave

rolesVars == <<role, source, platform, team, events, member, asks, req, sweep, left>>

\* unread: GitHub did not say whether the user is in the lead team; stale: another write
\* has come between what the request read and what it has yet to write.
ReqSteps == {"none", "check", "count", "lead", "developer", "write"}
NoRequest == [ask |-> "none", at |-> "none", by |-> Host, on |-> Host, to |-> "none",
              unread |-> FALSE, stale |-> FALSE]
NoSweep == [at |-> "idle", leads |-> {}, todo |-> {}, partial |-> FALSE, stale |-> {}]

RolesTypeOK ==
  /\ role \in [Users -> AppRoles] /\ source \in [Users -> {"github_team", "manual"}]
  /\ platform \in [Users -> PlatformRoles]
  /\ team \in [Users -> RoleTeams] /\ events \subseteq Users
  /\ member \in [Users -> WorkspaceRoles]
  /\ asks \subseteq Ask
  /\ \A s \in Sessions :
       /\ DOMAIN req[s] = DOMAIN NoRequest /\ req[s].at \in ReqSteps
       /\ {req[s].unread, req[s].stale} \subseteq BOOLEAN
       /\ req[s] # NoRequest => req[s].by \in Users /\ req[s].on \in Users
  /\ sweep \in [at : {"idle", "list", "write"}, leads : SUBSET Users, todo : SUBSET Users,
                partial : BOOLEAN, stale : SUBSET Users]
  /\ left \in [requests : Nat, changes : Nat, faults : Nat]

Leads == {u \in Users : team[u] \in {"lead", "both"}}
TeamDevelopers == {u \in Users : team[u] \in {"developer", "both"}}
Supers == {u \in Users : platform[u] = "super_admin"}
Owners == {u \in Users : member[u] = "admin"}
RoleIn(leads, u) == IF u \in leads THEN "lead" ELSE "member"

\* Roles as the teams give them, or seeded as admin for an owner of the organisation;
\* the workspace has its owners, or is not opened yet.
RolesInit ==
  /\ \E b \in Starts :
       /\ team = [u \in Users |-> IF u \in b.leads THEN "lead" ELSE "developer"]
       /\ role = [u \in Users |-> IF u \in b.admins THEN "admin" ELSE RoleIn(b.leads, u)]
       /\ platform = [u \in Users |-> IF u \in b.supers THEN "super_admin" ELSE "none"]
       /\ member = [u \in Users |-> IF u \in b.owners THEN "admin" ELSE "none"]
       /\ asks = b.asks /\ left = b.left
  /\ source = [u \in Users |-> "github_team"]
  /\ events = {}
  /\ req = [s \in Sessions |-> NoRequest]
  /\ sweep = NoSweep

data == <<role, source, platform, team, events, member>>

ReqAt(s, step) == req[s].at = step
Go(s, step) == req' = [req EXCEPT ![s].at = step]
End(s) == req' = [req EXCEPT ![s] = NoRequest]
Fault == left.faults > 0 /\ left' = [left EXCEPT !.faults = @ - 1]

----------------------------------------------------------------------------
\* Requests of the console, of the workspace and of signing in

PlatformAdmin(u) == platform[u] = "super_admin" \/ role[u] = "admin"
MayChangeMembers(u) == member[u] \in {"admin", "delegated_lead"}

\* The first reads of each request, which refuse it or let it go on: the guards of the
\* console, the rank in the workspace, the pin of a synchronised role.
Passes(a) ==
  \/ a.ask \in PlatformAsks /\ platform[a.by] = "super_admin" /\ a.by # a.on
  \/ a.ask = "set" /\ PlatformAdmin(a.by) /\ (a.by = a.on => a.to = "admin")
  \/ a.ask = "reset" /\ PlatformAdmin(a.by)
  \/ a.ask = "add" /\ MayChangeMembers(a.by)
  \/ a.ask \in {"update", "remove"} /\ MayChangeMembers(a.by) /\ member[a.on] # "none"
  \/ a.ask = "open" /\ member[a.by] = "none"

Second(ask) == IF ask \in {"grant", "add", "open"} THEN "write" ELSE "check"

Free(s) == ReqAt(s, "none") /\ s = CHOOSE t \in Sessions : ReqAt(t, "none")

Begin(s) ==
  /\ Free(s) /\ left.requests > 0
  /\ \E a \in asks :
       /\ Passes(a)
       /\ req' = [req EXCEPT ![s] = [ask |-> a.ask, at |-> Second(a.ask), by |-> a.by,
                                     on |-> a.on, to |-> a.to, unread |-> FALSE, stale |-> FALSE]]
  /\ left' = [left EXCEPT !.requests = @ - 1]
  /\ UNCHANGED <<data, asks, sweep>>

\* Who is pinned is not synchronised, and an admin is passed over.
Synced(u) == source[u] = "github_team" /\ role[u] # "admin"

BeginSync(s, u) ==
  /\ Free(s)
  /\ req' = IF Synced(u)
            THEN [req EXCEPT ![s] = [ask |-> "sync", at |-> "lead", by |-> u, on |-> u,
                                     to |-> role[u], unread |-> FALSE, stale |-> FALSE]]
            ELSE req

SyncAtLogin(s) ==
  /\ left.requests > 0 /\ left' = [left EXCEPT !.requests = @ - 1]
  /\ \E a \in asks : a.ask = "sync" /\ BeginSync(s, a.on)
  /\ UNCHANGED <<data, asks, sweep>>

\* A membership event carries the login; its user is synchronised like at a sign-in.
HandleMembershipEvent(s) ==
  /\ \E u \in events : BeginSync(s, u) /\ events' = events \ {u}
  /\ UNCHANGED <<role, source, platform, team, member, asks, sweep, left>>

\* revokeRole: whose role it is, and whether it is the last of its kind.
CheckRevoke(s) ==
  /\ ReqAt(s, "check") /\ req[s].ask = "revoke"
  /\ IF platform[req[s].on] = "none" THEN End(s)
     ELSE Go(s, IF platform[req[s].on] = "super_admin" THEN "count" ELSE "write")
  /\ UNCHANGED <<data, asks, sweep, left>>

CountSuperAdmins(s) ==
  /\ ReqAt(s, "count") /\ req[s].ask = "revoke"
  /\ IF Cardinality(Supers) <= 1 THEN End(s) ELSE Go(s, "write")
  /\ UNCHANGED <<data, asks, sweep, left>>

\* setAppRole, resetAppRoleToGithub: the admin tier is for super-admins.
CheckTier(s) ==
  /\ ReqAt(s, "check") /\ req[s].ask \in {"set", "reset"}
  /\ LET r == req[s]
         adminTier == role[r.on] = "admin" \/ (r.ask = "set" /\ r.to = "admin")
     IN  IF adminTier /\ platform[r.by] # "super_admin" THEN End(s) ELSE Go(s, "write")
  /\ UNCHANGED <<data, asks, sweep, left>>

\* updateMemberRole, removeMember: an owner that stops being one is counted first.
CheckMember(s) ==
  /\ ReqAt(s, "check") /\ req[s].ask \in {"update", "remove"}
  /\ LET r == req[s] IN
       Go(s, IF member[r.on] = "admin" /\ ~(r.ask = "update" /\ r.to = "admin")
             THEN "count" ELSE "write")
  /\ UNCHANGED <<data, asks, sweep, left>>

\* Mutant: the owner that is to go counts as one that stays.
CountOwnersBelowOne(s) ==
  /\ ReqAt(s, "count") /\ req[s].ask \in {"update", "remove"}
  /\ IF Cardinality(Owners) < 1 THEN End(s) ELSE Go(s, "write")
  /\ UNCHANGED <<data, asks, sweep, left>>

CountOwners(s) ==
  /\ ReqAt(s, "count") /\ req[s].ask \in {"update", "remove"}
  /\ IF Cardinality(Owners) <= 1 THEN End(s) ELSE Go(s, "write")
  /\ UNCHANGED <<data, asks, sweep, left>>

----------------------------------------------------------------------------
\* GitHub's answers about one user

\* The role that follows, if it is another than the one that was read.
Derive(s, derived) ==
  IF derived = req[s].to THEN End(s)
  ELSE req' = [req EXCEPT ![s].at = "write", ![s].to = derived]

AskLeadTeam(s) ==
  /\ ReqAt(s, "lead")
  /\ IF req[s].on \in Leads THEN Derive(s, "lead") ELSE Go(s, "developer")
  /\ UNCHANGED <<data, asks, sweep, left>>

\* An answer other than "active" or 404, or none.
LeadTeamUnread(s) ==
  /\ ReqAt(s, "lead") /\ Fault
  /\ req' = [req EXCEPT ![s].at = "developer", ![s].unread = TRUE]
  /\ UNCHANGED <<data, asks, sweep>>

\* In the developers' team is "member", whether the lead team was read or not; in
\* neither team is so only if it was.
AskDeveloperTeam(s) ==
  /\ ReqAt(s, "developer")
  /\ IF req[s].unread /\ req[s].on \notin TeamDevelopers THEN End(s) ELSE Derive(s, "member")
  /\ UNCHANGED <<data, asks, sweep, left>>

----------------------------------------------------------------------------
\* The writes

\* What request t has read is no longer so, once s has written about user u.
Overtakes(s, t, u) ==
  /\ t # s
  /\ \/ {req[s].ask, req[t].ask} \subseteq PlatformAsks
     \/ {req[s].ask, req[t].ask} \subseteq WorkspaceAsks
     \/ req[s].ask \notin WorkspaceAsks /\ req[t].ask \in RoleAsks /\ u \in {req[t].on, req[t].by}

\* A removed member's row id is nobody's any more: requests for it find nothing.
VoidedBy(s, t) ==
  req[s].ask = "remove" /\ req[t].ask \in {"update", "remove"} /\ req[t].on = req[s].on

Written(s, u) ==
  /\ req' = [t \in Sessions |->
               IF t = s \/ VoidedBy(s, t) THEN NoRequest
               ELSE [req[t] EXCEPT !.stale = @ \/ Overtakes(s, t, u)]]
  /\ sweep' = IF sweep.at = "write" /\ req[s].ask \in RoleAsks
              THEN [sweep EXCEPT !.stale = @ \cup {u}] ELSE sweep

Writing(s, ask) == ReqAt(s, "write") /\ req[s].ask = ask

GrantRole(s) ==
  /\ Writing(s, "grant") /\ Written(s, req[s].on)
  /\ platform' = [platform EXCEPT ![req[s].on] = req[s].to]
  /\ UNCHANGED <<role, source, team, events, member, asks, left>>

RevokeRole(s) ==
  /\ Writing(s, "revoke") /\ Written(s, req[s].on)
  /\ platform' = [platform EXCEPT ![req[s].on] = "none"]
  /\ UNCHANGED <<role, source, team, events, member, asks, left>>

SetAppRole(s) ==
  /\ Writing(s, "set") /\ Written(s, req[s].on)
  /\ role' = [role EXCEPT ![req[s].on] = req[s].to]
  /\ source' = [source EXCEPT ![req[s].on] = "manual"]
  /\ UNCHANGED <<platform, team, events, member, asks, left>>

ResetAppRoleToGithub(s) ==
  /\ Writing(s, "reset") /\ Written(s, req[s].on)
  /\ source' = [source EXCEPT ![req[s].on] = "github_team"]
  /\ UNCHANGED <<role, platform, team, events, member, asks, left>>

SyncRoleForUser(s) ==
  /\ Writing(s, "sync") /\ Written(s, req[s].on)
  /\ role' = [role EXCEPT ![req[s].on] = req[s].to]
  /\ source' = [source EXCEPT ![req[s].on] = "github_team"]
  /\ UNCHANGED <<platform, team, events, member, asks, left>>

\* Added or not before: INSERT ... ON CONFLICT DO UPDATE SET role.
AddMember(s) ==
  /\ Writing(s, "add") /\ Written(s, req[s].on)
  /\ member' = [member EXCEPT ![req[s].on] = req[s].to]
  /\ UNCHANGED <<role, source, platform, team, events, asks, left>>

UpdateMemberRole(s) ==
  /\ Writing(s, "update") /\ Written(s, req[s].on)
  /\ member' = [member EXCEPT ![req[s].on] = req[s].to]
  /\ UNCHANGED <<role, source, platform, team, events, asks, left>>

RemoveMember(s) ==
  /\ Writing(s, "remove") /\ Written(s, req[s].on)
  /\ member' = [member EXCEPT ![req[s].on] = "none"]
  /\ UNCHANGED <<role, source, platform, team, events, asks, left>>

\* The workspace's row, then its host's, by two statements; ON CONFLICT DO NOTHING.
CreatePersonalWorkspace(s) ==
  /\ Writing(s, "open") /\ Written(s, req[s].on)
  /\ member' = [member EXCEPT ![Host] = IF @ = "none" THEN "admin" ELSE @]
  /\ UNCHANGED <<role, source, platform, team, events, asks, left>>

\* A statement fails, or the process ends: nothing more is written.
RequestFails(s) ==
  /\ ~ReqAt(s, "none") /\ Fault
  /\ End(s)
  /\ UNCHANGED <<data, asks, sweep>>

----------------------------------------------------------------------------
\* The sweep

\* Mutant: nothing is done while the lead team is empty.
ReadOtherRosters ==
  /\ sweep.at = "idle"
  /\ Leads # {}
  /\ sweep' = [NoSweep EXCEPT !.at = "list", !.leads = Leads]
  /\ UNCHANGED <<data, asks, req, left>>

\* Two rosters, read at once; nothing is done if both are empty.
ReadRosters ==
  /\ sweep.at = "idle"
  /\ \E u \in Users : team[u] # "none"
  /\ sweep' = [NoSweep EXCEPT !.at = "list", !.leads = Leads]
  /\ UNCHANGED <<data, asks, req, left>>

\* A page that is not read ends a roster, and an error empties it; the sweep goes on
\* as long as the other roster has somebody.
ReadPartOfRosters ==
  /\ sweep.at = "idle" /\ Fault
  /\ \E leads \in SUBSET Leads \ {Leads} :
       /\ leads # {} \/ TeamDevelopers # {}
       /\ sweep' = [NoSweep EXCEPT !.at = "list", !.leads = leads, !.partial = TRUE]
  /\ UNCHANGED <<data, asks, req>>

\* Mutant: pinned users are listed too.
ListAllUsers ==
  /\ sweep.at = "list"
  /\ LET todo == {u \in Users : role[u] # "admin" /\ RoleIn(sweep.leads, u) # role[u]}
     IN  sweep' = IF todo = {} THEN NoSweep ELSE [sweep EXCEPT !.at = "write", !.todo = todo]
  /\ UNCHANGED <<data, asks, req, left>>

ListGithubTeamSyncedUsers ==
  /\ sweep.at = "list"
  /\ LET todo == {u \in Users : Synced(u) /\ RoleIn(sweep.leads, u) # role[u]}
     IN  sweep' = IF todo = {} THEN NoSweep ELSE [sweep EXCEPT !.at = "write", !.todo = todo]
  /\ UNCHANGED <<data, asks, req, left>>

\* One UPDATE per user, of the row as it is by then.
ReconcileUser ==
  /\ sweep.at = "write"
  /\ \E u \in sweep.todo :
       /\ role' = [role EXCEPT ![u] = RoleIn(sweep.leads, u)]
       /\ source' = [source EXCEPT ![u] = "github_team"]
       /\ sweep' = IF sweep.todo = {u} THEN NoSweep ELSE [sweep EXCEPT !.todo = @ \ {u}]
       /\ req' = [t \in Sessions |->
                    [req[t] EXCEPT !.stale = @ \/ (req[t].ask \in RoleAsks
                                                   /\ u \in {req[t].on, req[t].by})]]
  /\ UNCHANGED <<platform, team, events, member, asks, left>>

\* An error ends a sweep, and the next one finds the worker free (finally).
SweepFails ==
  /\ sweep.at # "idle" /\ Fault
  /\ sweep' = NoSweep
  /\ UNCHANGED <<data, asks, req>>

----------------------------------------------------------------------------
\* GitHub

ChangeTeam(u) ==
  /\ left.changes > 0 /\ left' = [left EXCEPT !.changes = @ - 1]
  /\ \E t \in RoleTeams \ {team[u]} : team' = [team EXCEPT ![u] = t]
  /\ events' = events \cup {u}
  /\ req' = [t \in Sessions |-> [req[t] EXCEPT !.stale = @ \/ (req[t].ask = "sync"
                                                               /\ req[t].on = u)]]
  /\ sweep' = IF sweep.at = "idle" THEN sweep ELSE [sweep EXCEPT !.stale = @ \cup {u}]
  /\ UNCHANGED <<role, source, platform, member, asks>>

\* Not delivered, or acknowledged and not handled: it does not come again.
EventLost ==
  /\ Fault
  /\ \E u \in events : events' = events \ {u}
  /\ UNCHANGED <<role, source, platform, team, member, asks, req, sweep>>

RequestStep(s) ==
  \/ Begin(s) \/ SyncAtLogin(s) \/ HandleMembershipEvent(s)
  \/ CheckRevoke(s) \/ CountSuperAdmins(s) \/ CheckTier(s) \/ CheckMember(s) \/ CountOwners(s)
  \/ AskLeadTeam(s) \/ LeadTeamUnread(s) \/ AskDeveloperTeam(s)
  \/ GrantRole(s) \/ RevokeRole(s) \/ SetAppRole(s) \/ ResetAppRoleToGithub(s)
  \/ SyncRoleForUser(s) \/ AddMember(s) \/ UpdateMemberRole(s) \/ RemoveMember(s)
  \/ CreatePersonalWorkspace(s) \/ RequestFails(s)

SweepStep == ReadRosters \/ ListGithubTeamSyncedUsers \/ ReconcileUser

RolesNext ==
  \/ \E s \in Sessions : RequestStep(s)
  \/ SweepStep \/ ReadPartOfRosters \/ SweepFails
  \/ \E u \in Users : ChangeTeam(u)
  \/ EventLost

\* The worker's interval comes again and again, and a sweep that runs goes on.
RolesSpec == RolesInit /\ [][RolesNext]_rolesVars /\ WF_rolesVars(SweepStep)

----------------------------------------------------------------------------
\* Properties

Finishes(s) == ReqAt(s, "write") /\ req'[s].at # "write"

\* What was pinned in the console changes only by the console, or by a
\* synchronisation that had read the user before.  (AppRoleSource,
\* platform-admins.repository.ts:16: "Automatic sync skips these users entirely until
\* an admin resets them".)
PinnedStays ==
  [][\A u \in Users :
       source[u] = "manual" /\ (role'[u] # role[u] \/ source'[u] # source[u]) =>
         \/ \E s \in Sessions :
              Finishes(s) /\ req[s].on = u /\ (req[s].ask # "sync" \/ req[s].stale)
         \/ u \in sweep.stale]_rolesVars

\* Nobody becomes or stops being an admin but by the request of one who is a
\* super-admin, or by one that was overtaken after its check.  (setAppRole,
\* resetAppRoleToGithub, and rule 3 of GithubTeamRoleService.)
AdminTierBySuper ==
  [][\A u \in Users :
       (role[u] = "admin") # (role'[u] = "admin") =>
         \/ \E s \in Sessions :
              /\ Finishes(s) /\ req[s].on = u
              /\ req[s].stale \/ (req[s].ask = "set" /\ platform[req[s].by] = "super_admin")
         \/ u \in sweep.stale]_rolesVars

\* The last super-admin and the last owner of the workspace go only by a request
\* that was overtaken after its check, or, the owner, by being added again with
\* another role.  (revokeRole: "Cannot revoke the last remaining super-admin";
\* assertCanRemoveMember: "Workspace must keep at least one owner".)
LastOneStays ==
  [][/\ Supers # {} /\ Supers' = {} => \E s \in Sessions : Finishes(s) /\ req[s].stale
     /\ Owners # {} /\ Owners' = {} =>
          \E s \in Sessions : Finishes(s) /\ (req[s].stale \/ req[s].ask = "add")]_rolesVars

\* No synchronisation takes the lead from a member of the lead team, unless it was
\* overtaken, or a sweep read a part of the roster, or the user is in the developers'
\* team as well and the lead team could not be read.  (Rule 2: "An UNREADABLE team check
\* (null, not false) changes nothing"; resolveRoleFromTeams asks the other team.)
LeadsKeepTheLead ==
  [][\A u \in Users :
       role[u] = "lead" /\ role'[u] = "member" /\ u \in Leads =>
         \/ \E s \in Sessions :
              /\ Finishes(s) /\ req[s].on = u
              /\ req[s].ask = "set" \/ req[s].stale \/ (req[s].unread /\ team[u] = "both")
         \/ sweep.partial \/ u \in sweep.stale]_rolesVars

\* Every change of a role has somebody who may make it: the console for what it pinned,
\* a super-admin for admins, a team that was read for leads.  The state is of its type.
\* (GithubTeamRoleService, AdminService.)
ChangesAreRightful == []RolesTypeOK /\ PinnedStays /\ AdminTierBySuper /\ LeadsKeepTheLead

\* Whoever is not pinned ends up with the role of their team, whatever events were
\* lost, if a role team has members at all.  (The sweep is "the safety net for webhook
\* deliveries that were missed, dropped, or arrived while the service was down".)
Agrees ==
  (\E u \in Users : team[u] # "none") =>
    \A u \in Users : Synced(u) => role[u] = RoleIn(Leads, u)
RolesConverge == <>[]Agrees
====
