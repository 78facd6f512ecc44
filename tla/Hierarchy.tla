---- MODULE Hierarchy ----
(***************************************************************************)
(* The tree below one group: systems, their delivery projects, and the     *)
(* repositories developers are assigned to.  A repository gets its row in  *)
(* one of three ways: the create-system path of the console, the link made *)
(* for a project that was created by the form, and the migration that      *)
(* linked the projects of before.  Beside the tree: the rights its         *)
(* requests ask for, the configuration written to a repository at GitHub,  *)
(* the access assignments lead to, and the deletion of the group.          *)
(*                                                                         *)
(* Every request asks for its right first and awaits between its steps; of *)
(* the three ways only the link is one transaction, and nothing takes back *)
(* what a request did before it failed.                                    *)
(***************************************************************************)
EXTENDS Integers, Sequences, FiniteSets, SequencesExt

CONSTANTS
  Users, Lead,   \* users; who leads the group at the start
  Sessions,      \* requests, each made at most once
  MaxNodes,      \* bound: rows of the three tables, numbered as they are made
  Repos,         \* full names of repositories at GitHub, and of what is named after them
  Names,         \* those that creations are asked for
  Linked, Unlinked, \* projects of the group from before: with a row, and without
  Keys,          \* names of variables and secrets of a repository
  Asks,          \* kinds of requests that are made
  MaxEvents,     \* bound: failures, and changes of rights and of assignments
  Nobody

ASSUME HierarchyAssumption ==
  /\ Lead \in Users /\ MaxNodes \in Nat /\ MaxNodes >= 3 /\ MaxEvents \in Nat
  /\ Names \subseteq Repos /\ Linked \in Repos /\ Unlinked \in Repos \ {Linked} /\ Nobody \notin Users \cup Repos \cup Keys
  /\ IsFiniteSet(Repos) /\ Sessions \cap {"migration", "before"} = {}

VARIABLES
  group,     \* orgs.workspaces: "active", "archived" or "deleted"
  standing,  \* what the group's and the platform's tables make of a user
  node,      \* systems, delivery_projects and repositories
  repo,      \* a repository at GitHub, its variables, and its project's row
  change,    \* repository_configuration_changes: the latest per name
  assigned,  \* active assignments, user and repository's row
  asked,     \* those whose synchronisation has been asked for
  access,    \* who is in a repository's team at GitHub
  backfilled, \* whether the migration has been applied
  session,   \* requests between two awaits
  events     \* how many failures and changes there were

treeVars == <<group, standing, node, repo, change, assigned, asked, access, backfilled, session, events>>

Nodes == 1..MaxNodes
Levels == {"system", "deliveryProject", "repository"}
Standings == {"platform", "lead", "member", "outside"}
Makers == Sessions \cup {"migration", "before"}

Node == [level : Levels \cup {"none", "gone"}, parent : Nodes \cup {0}, name : Repos,
         status : {"active", "archived"}, by : Makers]
Unmade == [level |-> "none", parent |-> 0, name |-> Linked, status |-> "active", by |-> "before"]
Made(level, parent, name, by) ==
  [level |-> level, parent |-> parent, name |-> name, status |-> "active", by |-> by]

Repo == [there : BOOLEAN, set : SUBSET Keys, project : {"none", "group", "own"}, by : Makers]

\* What each kind of request awaits, in order.
Path(ask) ==
  CASE ask = "system" -> <<"right", "system", "right", "deliveryProject", "right", "repo", "project", "row">>
    [] ask = "deliveryProject" -> <<"right", "deliveryProject">>
    [] ask = "repository" -> <<"right", "repo", "project", "row">>
    [] ask = "form" -> <<"form", "find", "link">>
    [] ask \in {"write", "delete"} -> <<"right", "send", "record">>
    [] ask = "archive" -> <<"right", "archive">>
    [] ask = "rename" -> <<"right", "rename">>
    [] ask \in {"close", "reopen"} -> <<"right", "status">>
    [] ask = "group" -> <<"right", "drop">>
    [] OTHER -> <<>>

RequestKinds == {"system", "deliveryProject", "repository", "form", "write", "delete", "archive", "rename", "group",
                 "close", "reopen"}
Session ==
  [todo : Seq({"right", "form", "find", "link", "repo", "project", "row", "send", "record", "archive", "rename",
              "status", "drop"} \cup Levels),
   ask : RequestKinds \cup {"none"}, by : Users, at : Nodes \cup {0}, name : Repos, key : Keys \cup {Nobody},
   failed : BOOLEAN, clash : BOOLEAN, seen : 0..MaxEvents]
Idle == [todo |-> <<>>, ask |-> "none", by |-> Lead, at |-> 0, name |-> Linked, key |-> Nobody,
         failed |-> FALSE, clash |-> FALSE, seen |-> 0]

TreeInit ==
  /\ group = "active" /\ backfilled = FALSE /\ events = 0
  /\ standing = [u \in Users |-> IF u = Lead THEN "lead" ELSE "member"]
  /\ node = [n \in Nodes |-> CASE n = 1 -> Made("system", 0, Linked, "before")
                               [] n = 2 -> Made("deliveryProject", 1, Linked, "before")
                               [] n = 3 -> Made("repository", 2, Linked, "before")
                               [] OTHER -> Unmade]
  /\ repo = [r \in Repos |-> [there |-> r \in {Linked, Unlinked}, set |-> {}, by |-> "before",
                              project |-> IF r \in {Linked, Unlinked} THEN "group" ELSE "none"]]
  /\ change = [n \in Nodes |-> [k \in Keys |-> "none"]]
  /\ assigned = {<<u, 3>> : u \in Users \ {Lead}} /\ access = assigned
  /\ asked = {}
  /\ session = [s \in Sessions |-> Idle]

TreeTypeOK ==
  /\ group \in {"active", "archived", "deleted"} /\ backfilled \in BOOLEAN
  /\ standing \in [Users -> Standings]
  /\ node \in [Nodes -> Node] /\ repo \in [Repos -> Repo]
  /\ change \in [Nodes -> [Keys -> {"none", "create", "delete"}]]
  /\ assigned \subseteq Users \X Nodes /\ asked \subseteq Users \X Nodes /\ access \subseteq Users \X Nodes
  /\ session \in [Sessions -> Session] /\ events \in 0..MaxEvents

----------------------------------------------------------------------------
\* The tree and the rights

Is(n, level) == n \in Nodes /\ node[n].level = level
Stored(n) == n \in Nodes /\ node[n].level \in Levels
Rows == Cardinality({n \in Nodes : node[n].level # "none"})
Room(count) == Rows + count <= MaxNodes
Inserted(rows) ==
  LET base == Rows IN [n \in Nodes |-> IF n - base \in DOMAIN rows THEN rows[n - base] ELSE node[n]]
Below(n, level) == {m \in Nodes : Is(m, level) /\ node[m].parent = n}
RowsOf(r) == {n \in Nodes : Is(n, "repository") /\ node[n].name = r}

\* Of a group's member the role is derived from app_role, so who may create in
\* the group (a lead) and who manages it are the same users.
Manages(u) == standing[u] \in {"platform", "lead"}
Visible(u, n) == Is(n, "repository") /\ (Manages(u) \/ <<u, n>> \in assigned)

\* The list of a delivery project asks for a membership first, and shows a
\* member what is assigned.
ListedTo(u, d) ==
  {n \in Below(d, "repository") : Manages(u) \/ (standing[u] = "member" /\ <<u, n>> \in assigned)}

ParentThere(s) == IF session[s].at = 0 THEN group # "deleted" ELSE Stored(session[s].at)

\* What a request asks before it goes on: that its parent, or what it is about, is there,
\* and that the user may.
Entitled(s) ==
  LET v == session[s] IN
    IF v.ask \in {"write", "delete"} THEN Visible(v.by, v.at)
    ELSE Manages(v.by) /\ ParentThere(s)

AtStep(s, step) == session[s].todo # <<>> /\ Head(session[s].todo) = step
Running(s) == session[s].todo # <<>>

\* Of a request that is over: what it was about, and how it went.
Ended(v, failed) ==
  [Idle EXCEPT !.ask = v.ask, !.failed = failed, !.clash = v.clash, !.key = v.key, 
               !.at = IF v.ask \in {"write", "delete"} THEN v.at ELSE 0]
Onward(s, v) ==
  session' = [session EXCEPT ![s] = IF Len(v.todo) = 1 THEN Ended(v, FALSE) ELSE [v EXCEPT !.todo = Tail(@)]]
Advance(s) == Onward(s, session[s])
Stop(s, failed) == session' = [session EXCEPT ![s] = Ended(@, failed)]
Fail(s) == Stop(s, TRUE)

New(s) == session[s].ask = "none"

Begin(s, v) ==
  /\ v.ask \in Asks
  /\ session' = [session EXCEPT ![s] = [v EXCEPT !.todo = Path(v.ask)]]
  /\ UNCHANGED <<group, standing, node, repo, change, assigned, asked, access, backfilled, events>>

BeginCreate(s) ==
  /\ New(s)
  /\ \E u \in Users, r \in Names, n \in Nodes \cup {0}, ask \in {"system", "deliveryProject", "repository", "form"} :
       /\ n = 0 <=> ask \in {"system", "form"}
       /\ ask = "deliveryProject" => Is(n, "system")
       /\ ask = "repository" => Is(n, "deliveryProject")
       /\ ask = "form" => ~repo[r].there
       /\ Begin(s, [Idle EXCEPT !.ask = ask, !.by = u, !.at = n, !.name = r])

BeginChange(s) ==
  /\ New(s)
  /\ \E u \in Users, n \in Nodes, k \in Keys, ask \in {"write", "delete", "archive"} :
       /\ Stored(n) /\ (ask \in {"write", "delete"} => Is(n, "repository"))
       /\ Begin(s, [Idle EXCEPT !.ask = ask, !.by = u, !.at = n, !.key = k, !.name = node[n].name])

\* The name of a repository's row is not its full name, and left out.
BeginRename(s) ==
  /\ New(s)
  /\ \E u \in Users, n \in Nodes, r \in Names :
       /\ (Is(n, "system") \/ Is(n, "deliveryProject")) /\ node[n].name # r
       /\ Begin(s, [Idle EXCEPT !.ask = "rename", !.by = u, !.at = n, !.name = r])

BeginOfGroup(s) ==
  /\ New(s)
  /\ \E u \in Users, ask \in {"close", "reopen", "group"} : Begin(s, [Idle EXCEPT !.ask = ask, !.by = u])

\* Mutant: it is enough to be a member.
CheckMembership(s) ==
  /\ AtStep(s, "right")
  /\ IF ParentThere(s) /\ standing[session[s].by] # "outside"
     THEN Onward(s, [session[s] EXCEPT !.seen = events]) ELSE Fail(s)
  /\ UNCHANGED <<group, standing, node, repo, change, assigned, asked, access, backfilled, events>>

CheckRight(s) ==
  /\ AtStep(s, "right")
  /\ IF Entitled(s) THEN Onward(s, [session[s] EXCEPT !.seen = events]) ELSE Fail(s)
  /\ UNCHANGED <<group, standing, node, repo, change, assigned, asked, access, backfilled, events>>

\* A statement or a call fails, before or after its effect, or the process ends.
StepFails(s) ==
  /\ events < MaxEvents /\ Running(s)
  /\ Fail(s)
  /\ events' = events + 1
  /\ UNCHANGED <<group, standing, node, repo, change, assigned, asked, access, backfilled>>

----------------------------------------------------------------------------
\* The create-system path, and creations further down the tree

\* The parent's foreign key refuses a row once the group is deleted.
Insert(s, level) ==
  IF ParentThere(s) /\ Room(1)
  THEN /\ node' = Inserted(<<Made(level, session[s].at, session[s].name, s)>>)
       /\ Onward(s, [session[s] EXCEPT !.at = Rows + 1])
  ELSE Fail(s) /\ UNCHANGED node

CreateSystem(s) ==
  /\ AtStep(s, "system")
  /\ Insert(s, "system")
  /\ UNCHANGED <<group, standing, repo, change, assigned, asked, access, backfilled, events>>

CreateDeliveryProject(s) ==
  /\ AtStep(s, "deliveryProject")
  /\ Insert(s, "deliveryProject")
  /\ UNCHANGED <<group, standing, repo, change, assigned, asked, access, backfilled, events>>

CreateRepo(s) ==
  /\ AtStep(s, "repo")
  /\ IF repo[session[s].name].there
     THEN Fail(s) /\ UNCHANGED repo
     ELSE /\ repo' = [repo EXCEPT ![session[s].name].there = TRUE, ![session[s].name].by = s]
          /\ Advance(s)
  /\ UNCHANGED <<group, standing, node, change, assigned, asked, access, backfilled, events>>

InsertProject(s) ==
  /\ AtStep(s, "project")
  /\ IF group # "deleted"
     THEN repo' = [repo EXCEPT ![session[s].name].project = "group"] /\ Advance(s)
     ELSE Fail(s) /\ UNCHANGED repo
  /\ UNCHANGED <<group, standing, node, change, assigned, asked, access, backfilled, events>>

InsertRow(s) ==
  /\ AtStep(s, "row")
  /\ IF RowsOf(session[s].name) # {} THEN Fail(s) /\ UNCHANGED node
     ELSE Insert(s, "repository")
  /\ UNCHANGED <<group, standing, repo, change, assigned, asked, access, backfilled, events>>

----------------------------------------------------------------------------
\* A project created by the form and its link

\* The creation itself is ProjectProvisioning's; it fails whole.
CreateProject(s) ==
  /\ AtStep(s, "form")
  /\ \E owner \in {"group", "own"} :
       IF repo[session[s].name].there \/ (owner = "group" /\ group = "deleted")
       THEN Fail(s) /\ UNCHANGED repo
       ELSE /\ repo' = [repo EXCEPT ![session[s].name] = [@ EXCEPT !.there = TRUE, !.by = s, !.project = owner]]
            /\ Advance(s)
  /\ UNCHANGED <<group, standing, node, change, assigned, asked, access, backfilled, events>>

FindLink(s) ==
  /\ AtStep(s, "find")
  /\ IF repo[session[s].name].project = "group" /\ RowsOf(session[s].name) = {}
     THEN Advance(s)
     ELSE Stop(s, FALSE)
  /\ UNCHANGED <<group, standing, node, repo, change, assigned, asked, access, backfilled, events>>

Chain(r, s) ==
  <<Made("system", 0, r, s), Made("deliveryProject", Rows + 1, r, s), Made("repository", Rows + 2, r, s)>>

\* Mutant: the loser of two links commits the two rows it has inserted.
LinkAndKeep(s) ==
  LET r == session[s].name IN
  /\ AtStep(s, "link")
  /\ node' = IF group = "deleted" \/ ~Room(3) THEN node
             ELSE Inserted(IF RowsOf(r) = {} THEN Chain(r, s) ELSE SubSeq(Chain(r, s), 1, 2))
  /\ Stop(s, group # "deleted" /\ RowsOf(r) = {} /\ ~Room(3))
  /\ UNCHANGED <<group, standing, repo, change, assigned, asked, access, backfilled, events>>

\* One transaction: three rows, or none when another writer was first.  A
\* failure is logged, and the creation reports success.
Link(s) ==
  LET r == session[s].name IN
  /\ AtStep(s, "link")
  /\ node' = IF group # "deleted" /\ RowsOf(r) = {} /\ Room(3) THEN Inserted(Chain(r, s)) ELSE node
  /\ Stop(s, group # "deleted" /\ RowsOf(r) = {} /\ ~Room(3))
  /\ UNCHANGED <<group, standing, repo, change, assigned, asked, access, backfilled, events>>

----------------------------------------------------------------------------
\* The migration: one transaction, in which repositories is locked

NotLinked == {r \in Repos : repo[r].project = "group" /\ RowsOf(r) = {}}

Available(r) == {n \in Nodes : /\ Is(n, "deliveryProject") /\ node[n].name = r
                              /\ Below(n, "repository") = {}}
FirstOf(ns) == CHOOSE n \in ns : \A m \in ns : n <= m

\* A system for each unlinked project, a delivery project under each of them,
\* and a row under the oldest delivery project of that name that has none,
\* which need not be the one just made.
Backfill ==
  /\ ~backfilled /\ backfilled' = TRUE
  /\ LET rs == SetToSeq(NotLinked)
         k == Len(rs)
         systems == [i \in 1..k |-> Made("system", 0, rs[i], "migration")]
         deliveryProjects == [i \in 1..k |-> Made("deliveryProject", Rows + i, rs[i], "migration")]
         under(i) == IF Available(rs[i]) # {} THEN FirstOf(Available(rs[i])) ELSE Rows + k + i
         repositories == [i \in 1..k |-> Made("repository", under(i), rs[i], "migration")]
     IN  Room(3 * k) /\ node' = Inserted(systems \o deliveryProjects \o repositories)
  /\ UNCHANGED <<group, standing, repo, change, assigned, asked, access, session, events>>

----------------------------------------------------------------------------
\* Configuration: written at GitHub, then noted, by name and without a value

SameKey(s, t) ==
  /\ s # t /\ session[t].ask \in {"write", "delete"}
  /\ session[t].at = session[s].at /\ session[t].key = session[s].key
Crossing(s) == {t \in Sessions : SameKey(s, t) /\ AtStep(t, "record")}
Clashed(s) == [t \in Sessions |->
  CASE t = s -> [session[s] EXCEPT !.todo = Tail(@), !.clash = @ \/ Crossing(s) # {}]
    [] t \in Crossing(s) -> [session[t] EXCEPT !.clash = TRUE]
    [] OTHER -> session[t]]

Sent(s) == [repo EXCEPT ![session[s].name].set =
              IF session[s].ask = "write" THEN @ \cup {session[s].key} ELSE @ \ {session[s].key}]

SendConfiguration(s) ==
  /\ AtStep(s, "send")
  /\ repo' = Sent(s)
  /\ session' = Clashed(s)
  /\ UNCHANGED <<group, standing, node, change, assigned, asked, access, backfilled, events>>

\* Mutant: a deletion is noted like a write.
NoteCreate(s) == [change EXCEPT ![session[s].at][session[s].key] = "create"]

Note(s) == [change EXCEPT ![session[s].at][session[s].key] =
              IF session[s].ask = "write" THEN "create" ELSE "delete"]

RecordChange(s) ==
  /\ AtStep(s, "record")
  /\ IF Stored(session[s].at) THEN change' = Note(s) /\ Advance(s) ELSE Fail(s) /\ UNCHANGED change
  /\ UNCHANGED <<group, standing, node, repo, assigned, asked, access, backfilled, events>>

\* What the console lists: names whose latest change is not a deletion.
CurrentNames(n) == {k \in Keys : change[n][k] = "create"}

Archive(s) ==
  /\ AtStep(s, "archive")
  /\ IF Stored(session[s].at)
     THEN node' = [node EXCEPT ![session[s].at].status = "archived"] /\ Advance(s)
     ELSE Fail(s) /\ UNCHANGED node
  /\ UNCHANGED <<group, standing, repo, change, assigned, asked, access, backfilled, events>>

Rename(s) ==
  /\ AtStep(s, "rename")
  /\ IF Stored(session[s].at)
     THEN node' = [node EXCEPT ![session[s].at].name = session[s].name] /\ Advance(s)
     ELSE Fail(s) /\ UNCHANGED node
  /\ UNCHANGED <<group, standing, repo, change, assigned, asked, access, backfilled, events>>

----------------------------------------------------------------------------
\* The group, its members and their assignments

\* Nothing asks whether a group is archived.
SetArchiveStatus(s) ==
  /\ AtStep(s, "status")
  /\ IF group = "deleted" THEN Fail(s) /\ UNCHANGED group
     ELSE group' = (IF session[s].ask = "close" THEN "archived" ELSE "active") /\ Advance(s)
  /\ UNCHANGED <<standing, node, repo, change, assigned, asked, access, backfilled, events>>

\* Foreign keys take everything below the group, and its assignments; projects
\* become their owners' own; what was granted at GitHub stays.
DropGroup(s) ==
  /\ AtStep(s, "drop")
  /\ IF group # "deleted" THEN Advance(s) ELSE Fail(s)
  /\ group' = "deleted"
  /\ node' = [n \in Nodes |-> IF Stored(n) THEN [node[n] EXCEPT !.level = "gone"] ELSE node[n]]
  /\ repo' = [r \in Repos |-> IF repo[r].project = "group" THEN [repo[r] EXCEPT !.project = "own"] ELSE repo[r]]
  /\ change' = [n \in Nodes |-> [k \in Keys |-> "none"]]
  /\ assigned' = {} /\ asked' = {}
  /\ standing' = [u \in Users |-> IF standing[u] = "platform" THEN "platform" ELSE "outside"]
  /\ UNCHANGED <<access, backfilled, events>>

\* An administrator changes a user's role, or the group's members change.
ChangeStanding ==
  /\ events < MaxEvents /\ group # "deleted"
  /\ \E u \in Users, to \in Standings : standing[u] # to /\ standing' = [standing EXCEPT ![u] = to]
  /\ events' = events + 1
  /\ UNCHANGED <<group, node, repo, change, assigned, asked, access, backfilled, session>>

\* An assignment, its end, and the synchronisation either asks for (AccessSync).
Reassign ==
  /\ events < MaxEvents
  /\ \E u \in Users, n \in Nodes :
       /\ Is(n, "repository") /\ (standing[u] = "member" \/ <<u, n>> \in assigned)
       /\ assigned' = IF <<u, n>> \in assigned THEN assigned \ {<<u, n>>} ELSE assigned \cup {<<u, n>>}
       /\ asked' = asked \cup {<<u, n>>}
  /\ events' = events + 1
  /\ UNCHANGED <<group, standing, node, repo, change, access, backfilled, session>>

Sync ==
  \E a \in asked :
    /\ asked' = asked \ {a}
    /\ access' = IF a \in assigned THEN access \cup {a} ELSE access \ {a}
    /\ UNCHANGED <<group, standing, node, repo, change, assigned, backfilled, session, events>>

Step(s) ==
  \/ CheckRight(s) \/ StepFails(s)
  \/ CreateSystem(s) \/ CreateDeliveryProject(s) \/ CreateRepo(s) \/ InsertProject(s) \/ InsertRow(s)
  \/ CreateProject(s) \/ FindLink(s) \/ Link(s)
  \/ SendConfiguration(s) \/ RecordChange(s) \/ Archive(s) \/ Rename(s)
  \/ SetArchiveStatus(s) \/ DropGroup(s)

TreeNext ==
  \/ \E s \in Sessions : BeginCreate(s) \/ BeginChange(s) \/ BeginRename(s) \/ BeginOfGroup(s) \/ Step(s)
  \/ Backfill
  \/ ChangeStanding \/ Reassign \/ Sync

TreeSpec == TreeInit /\ [][TreeNext]_treeVars

----------------------------------------------------------------------------
\* Properties

Failed(s) == s \in Sessions /\ (session[s].failed \/ Running(s))
SystemOf(n) == node[node[n].parent].parent
Holds(n) == \E m \in Nodes : Is(m, "repository") /\ SystemOf(m) = n
Misplaced(n) == Is(n, "repository") /\ node[n].by = "migration" /\ node[SystemOf(n)].by # "migration"

\* A system without a repository, which the console shows as a project that is
\* none, is left by a creation that failed, or by the migration when it
\* put its row under somebody else's delivery project of that name: never by two links in a race.
EmptySystemOnlyByMishap ==
  \A n \in Nodes : Is(n, "system") /\ ~Holds(n) =>
    \/ Failed(node[n].by)
    \/ node[n].by = "migration" /\ \E m \in Nodes : Misplaced(m)

\* A project has one row in the tree, whoever came first: its form's link, the
\* create-system path, or the migration.
OneRowPerProject == \A r \in Repos : Cardinality(RowsOf(r)) <= 1

\* A project of the group that nobody can be assigned to was left by a request
\* that failed after the project's row, or by a link that failed unseen.
UnlinkedOnlyByMishap ==
  \A r \in NotLinked : Failed(repo[r].by) \/ (repo[r].by = "before" /\ ~backfilled)

\* A repository at GitHub that the platform has no project for was made by a
\* request that failed; its name stays taken.
StrandedOnlyByFailure ==
  \A r \in Repos : repo[r].there /\ repo[r].project = "none" => Failed(repo[r].by)

\* What the console lists is what GitHub has, unless a request failed between
\* the two or two of them crossed.
ListedIsThere ==
  \A n \in Nodes, k \in Keys :
    LET about == {s \in Sessions : session[s].ask \in {"write", "delete"} /\ session[s].at = n /\ session[s].key = k}
    IN  Is(n, "repository") /\ (\A s \in about : ~Failed(s) /\ ~session[s].clash) =>
          (k \in CurrentNames(n) <=> k \in repo[node[n].name].set)

\* A repository opens for those it is listed to, and for one who has left the
\* group with an assignment that was not taken away.
ListShowsWhatOpens ==
  \A u \in Users, n \in Nodes : Is(n, "repository") =>
    (Visible(u, n) <=> n \in ListedTo(u, node[n].parent) \/ (standing[u] = "outside" /\ <<u, n>> \in assigned))

\* Access at GitHub that no assignment accounts for, and that nobody has been
\* asked to take back, is to a repository whose group was deleted.
StrayOnlyByDeletedGroup ==
  \A a \in access \ (assigned \cup asked) : node[a[2]].level = "gone"

\* What is left over in the tree or at GitHub was left by a failure or by two rows
\* that the migration could not tell apart, never by an order of requests; the
\* state is of its type.  (createRepository, ensureLink, the
\* migration.)
LeftoversOnlyByMishap ==
  /\ TreeTypeOK
  /\ EmptySystemOnlyByMishap /\ OneRowPerProject /\ UnlinkedOnlyByMishap /\ StrandedOnlyByFailure

\* What the console lists of variables, repositories and assignments is what is
\* there, and what opens.  (RepoConfigBrokerService, HierarchyAccessService.)
ShownIsSo == ListedIsThere /\ ListShowsWhatOpens /\ StrayOnlyByDeletedGroup

\* No step of a request changes the tree, a repository or its variables for a
\* user who may not, unless a right was changed, or the group deleted, since the
\* request last asked.
OnlyTheEntitledChange ==
  [][\A s \in Sessions :
       /\ session'[s].todo # session[s].todo /\ session[s].ask # "form"
       /\ <<node, repo, change, group>>' # <<node, repo, change, group>>
       => Entitled(s) \/ session[s].seen # events \/ group = "deleted"]_treeVars
====
