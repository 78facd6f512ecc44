---- MODULE Drift ----
(***************************************************************************)
(* What the console tells of one project from the database alone: drift    *)
(* findings and their repair, snapshots of the dashboard, and requests to  *)
(* update the workflow files by a pull request.  Requests run side by side *)
(* without a transaction between their statements.                         *)
(***************************************************************************)
EXTENDS Naturals, Sequences, FiniteSets

CONSTANTS
  Sessions,       \* requests
  UpdateLimit,    \* workflow_prs, the limit of the plan
  MaxTokens,      \* bound: tokens issued
  Starts          \* bound: how a project starts, and how much of each thing happens

Environments == {"none", "empty", "some", "orphaned"}
Things == {"fault", "cut", "run", "repair", "update", "detect", "snapshot", "change"}

ASSUME DriftAssumption ==
  /\ UpdateLimit \in Nat /\ MaxTokens \in Nat
  /\ \A start \in Starts :
       /\ start.tracked \in BOOLEAN /\ start.noticed \in BOOLEAN
       /\ start.environment \in Environments /\ start.left \in [Things -> Nat]

VARIABLES
  token,        \* ci.project_ci_tokens: the token whose hash is stored; 0: no row
  issued,       \* how many tokens were issued
  tracked,      \* whether the project's row has workflow files: it has but for the hierarchy's
  environment,  \* a target and the metadata of its variables: no target, no metadata, some, or a
                \* target whose connection went with the account of the member who brought it
  target,       \* which target it is, counted in those before
  changes,      \* how often the environment has changed
  finding,      \* projects.project_sync_findings in the order of insertion
  session,      \* a request between two awaits
  update,       \* branches made for updates of the workflow files, and what became of each
  snapshot,     \* the latest row of project_dashboard_snapshots
  left          \* what is left of the bounds

facts == <<token, issued, tracked, environment, target, changes>>
driftVars == <<facts, finding, session, update, snapshot>>

\* The order in which buildFindings looks for the codes that occur.
CodeOrder ==
  <<"workflow_files_missing", "ci_token_missing", "provider_connection_metadata_unavailable", "env_metadata_empty">>
Codes == {CodeOrder[i] : i \in DOMAIN CodeOrder}
OfTarget == {"provider_connection_metadata_unavailable"}
SnapshotCodes == (Codes \ OfTarget) \cup {"deployment_target_not_provisioned"}
FindingStatuses == {"active", "resolved", "ignored"}

\* When the facts were read, counted in their changes.
Start == [tokens |-> 0, changes |-> 0]
Now == [tokens |-> issued, changes |-> changes]
Before(one, other) == one.tokens + one.changes < other.tokens + other.changes

Idle == [at |-> "idle", found |-> {}, health |-> "none", rows |-> {}, todo |-> {}, row |-> 0, target |-> 0, update |-> 0,
         since |-> Start, overlapped |-> FALSE]
Noticed == [code |-> "ci_token_missing", target |-> 0, status |-> "active", overlapped |-> FALSE, since |-> Start]
NoSnapshot == [shows |-> {}, status |-> "none", since |-> Start, overlapped |-> FALSE]

DriftInit ==
  /\ token = 0 /\ issued = 0 /\ target = 1 /\ changes = 0
  /\ update = <<>> /\ snapshot = NoSnapshot
  /\ session = [s \in Sessions |-> Idle]
  /\ \E start \in Starts :
       /\ tracked = start.tracked /\ environment = start.environment /\ left = start.left
       /\ finding = IF start.noticed THEN <<Noticed>> ELSE <<>>

Spend(thing) == left[thing] > 0 /\ left' = [left EXCEPT ![thing] = @ - 1]
At(s, place) == session[s].at = place
Goes(s, place) == session' = [session EXCEPT ![s].at = place]
Ends(s) == session' = [session EXCEPT ![s] = Idle]

\* The session s comes to state its, among others that are at one of the places.
Among(s, its, places) ==
  session' = [x \in Sessions |->
    IF x = s THEN [its EXCEPT !.overlapped = @ \/ \E y \in Sessions \ {s} : session[y].at \in places]
    ELSE IF session[x].at \in places THEN [session[x] EXCEPT !.overlapped = TRUE] ELSE session[x]]

----------------------------------------------------------------------------
\* The facts, which others change

\* Bound: tokens.
IssueToken == issued < MaxTokens /\ issued' = issued + 1 /\ token' = issued + 1

\* A target is added, given variables, loses them or its connection, and is removed;
\* its findings lose it by the foreign key.
Becomes(e) ==
  CASE e = "none" -> {"empty", "some"}
    [] e = "empty" -> {"none", "some"}
    [] e = "some" -> {"none", "empty", "orphaned"}
    [] e = "orphaned" -> {"none"}

EnvironmentChanges ==
  /\ Spend("change") /\ changes' = changes + 1
  /\ environment' \in Becomes(environment)
  /\ IF environment' = "none"
     THEN target' = target + 1 /\ finding' = [i \in DOMAIN finding |-> [finding[i] EXCEPT !.target = 0]]
     ELSE UNCHANGED <<target, finding>>
  /\ UNCHANGED <<token, issued, tracked, session, update, snapshot>>

----------------------------------------------------------------------------
\* Detection

CiAuth == IF token = 0 THEN "missing" ELSE "active"

\* The tables are read one after another: the project's row and its targets,
RunDetection(s) ==
  /\ At(s, "idle") /\ Spend("detect")
  /\ session' = [session EXCEPT ![s] = [Idle EXCEPT !.at = "metadata", !.since = Now,
       !.found = (IF tracked THEN {} ELSE {"workflow_files_missing"})
                 \cup (IF environment = "none" THEN {} ELSE {"env_metadata_empty"})
                 \cup (IF environment = "orphaned" THEN OfTarget ELSE {}),
       !.target = target]]
  /\ UNCHANGED <<facts, finding, update, snapshot>>

\* the metadata of its variables,
ListEnvMetadata(s) ==
  /\ At(s, "metadata")
  /\ session' = [session EXCEPT ![s].at = "token",
                   ![s].found = IF environment \in {"some", "orphaned"} THEN @ \ {"env_metadata_empty"} ELSE @]
  /\ UNCHANGED <<facts, finding, update, snapshot, left>>

\* and its token.
FindTokenStatus(s) ==
  /\ At(s, "token")
  /\ session' = [session EXCEPT ![s].at = "read",
                   ![s].found = IF CiAuth = "missing" THEN @ \cup {"ci_token_missing"} ELSE @]
  /\ UNCHANGED <<facts, finding, update, snapshot, left>>

Active(i) == finding[i].status = "active"
Replacing == {"resolve", "place"}

\* A finding is known by its code and its target.
TargetOf(s, code) == IF code \in OfTarget THEN session[s].target ELSE 0
Same(s, i, code) == finding[i].code = code /\ finding[i].target = TargetOf(s, code)
Known(s, code) == \E i \in DOMAIN finding : Active(i) /\ Same(s, i, code)
NotFound(s) == {i \in DOMAIN finding : Active(i) /\ \A code \in session[s].found : ~Same(s, i, code)}

\* Mutant: a finding is inserted whether or not there is one.
MissingAll(s) == session[s].found

\* What a finding that is found again has updated is not modelled.
Missing(s) == {code \in session[s].found : ~Known(s, code)}

FindActive(s) ==
  /\ At(s, "read")
  /\ Among(s, [session[s] EXCEPT !.at = "resolve", !.rows = NotFound(s), !.todo = Missing(s)], Replacing)
  /\ UNCHANGED <<facts, finding, update, snapshot, left>>

Marked(rows, status) ==
  finding' = [i \in DOMAIN finding |-> IF i \in rows THEN [finding[i] EXCEPT !.status = status] ELSE finding[i]]

Goal(s, todo) ==
  session' = [session EXCEPT ![s] = IF todo = {} THEN Idle ELSE [@ EXCEPT !.at = "place", !.todo = todo]]

ResolveOthers(s) ==
  /\ At(s, "resolve") /\ Marked(session[s].rows, "resolved") /\ Goal(s, session[s].todo)
  /\ UNCHANGED <<facts, update, snapshot, left>>

\* The updates run at the same time: when one fails, the others may have been made.
ResolveFails(s) ==
  /\ At(s, "resolve") /\ Spend("cut")
  /\ \E some \in SUBSET session[s].rows : some # session[s].rows /\ Marked(some, "resolved")
  /\ Ends(s)
  /\ UNCHANGED <<facts, update, snapshot>>

\* The findings are inserted in their order.
NextCode(s) ==
  CHOOSE code \in session[s].todo :
    \E i \in DOMAIN CodeOrder : CodeOrder[i] = code /\ \A k \in 1..i - 1 : CodeOrder[k] \notin session[s].todo

\* The target that a finding names has been removed since.
Refused(s) == NextCode(s) \in OfTarget /\ session[s].target # target

InsertFinding(s) ==
  /\ At(s, "place") /\ ~Refused(s)
  /\ finding' = Append(finding, [code |-> NextCode(s), status |-> "active",
                                 target |-> TargetOf(s, NextCode(s)),
                                 overlapped |-> session[s].overlapped, since |-> session[s].since])
  /\ Goal(s, session[s].todo \ {NextCode(s)})
  /\ UNCHANGED <<facts, update, snapshot, left>>

InsertRefused(s) ==
  /\ At(s, "place") /\ Refused(s) /\ Ends(s)
  /\ UNCHANGED <<facts, finding, update, snapshot, left>>

----------------------------------------------------------------------------
\* Repair

Repair(s, i) ==
  /\ At(s, "idle") /\ Active(i) /\ Spend("repair")
  /\ session' = [session EXCEPT ![s] = [Idle EXCEPT !.at = "repair", !.row = i]]
  /\ UNCHANGED <<facts, finding, update, snapshot>>

MarkIgnored(s) ==
  /\ At(s, "repair") /\ Marked({session[s].row}, "ignored") /\ Among(s, Idle, Replacing)
  /\ UNCHANGED <<facts, update, snapshot, left>>

\* The new token is given to nobody.
RotateToken(s) ==
  /\ At(s, "repair") /\ finding[session[s].row].code = "ci_token_missing"
  /\ IssueToken /\ Goes(s, "mark")
  /\ UNCHANGED <<tracked, environment, target, changes, finding, update, snapshot, left>>

MarkResolved(s) ==
  /\ At(s, "mark") /\ Marked({session[s].row}, "resolved") /\ Among(s, Idle, Replacing)
  /\ UNCHANGED <<facts, update, snapshot, left>>

\* An action for another code is refused.  So are the preview and the pull request
\* that a finding of missing files asks for: the only projects without files have a
\* template that the catalog does not know.
RepairRefused(s) ==
  /\ At(s, "repair") /\ Ends(s)
  /\ UNCHANGED <<facts, finding, update, snapshot, left>>

----------------------------------------------------------------------------
\* Snapshots

\* The queries of an overview run at the same time; they are taken as one.
Overview ==
  [files |-> tracked, ciAuth |-> CiAuth, targets |-> environment # "none", variables |-> environment \in {"some", "orphaned"}]

\* Unlike detection, this misses the variables of a project without targets, too.
LocalSnapshotFindings(overview) ==
  {code \in SnapshotCodes :
     \/ code = "workflow_files_missing" /\ ~overview.files
     \/ code = "ci_token_missing" /\ overview.ciAuth = "missing"
     \/ code = "env_metadata_empty" /\ ~overview.variables
     \/ code = "deployment_target_not_provisioned" /\ ~overview.targets}

\* Variables count only when one of them has failed, and none ever does.
OverviewHealth(overview) ==
  IF overview.files /\ overview.ciAuth = "active" /\ overview.targets THEN "ok" ELSE "warning"

SyncProjectSnapshot(s) ==
  /\ At(s, "idle") /\ Spend("snapshot")
  /\ Among(s, [Idle EXCEPT !.at = "snapshot", !.found = LocalSnapshotFindings(Overview),
                           !.health = OverviewHealth(Overview), !.since = Now], {"snapshot"})
  /\ UNCHANGED <<facts, finding, update, snapshot>>

CreateSnapshot(s) ==
  /\ At(s, "snapshot")
  /\ snapshot' = [shows |-> session[s].found, status |-> session[s].health, since |-> session[s].since,
                  overlapped |-> session[s].overlapped]
  /\ Ends(s)
  /\ UNCHANGED <<facts, finding, update, left>>

----------------------------------------------------------------------------
\* Updates of the workflow files

Recorded == {u \in DOMAIN update : update[u].recorded}
Updating == {"branch", "files", "pull", "record"}

\* The quota counts the requests that were recorded.  The preview of a project without
\* files is refused.
WithinQuota == Cardinality(Recorded) < UpdateLimit

CreateWorkflowUpdate(s) ==
  /\ At(s, "idle") /\ Spend("update") /\ WithinQuota /\ tracked
  /\ Among(s, [Idle EXCEPT !.at = "branch"], Updating)
  /\ UNCHANGED <<facts, finding, update, snapshot>>

\* The branch is named after the second: one more of that second is cut short.
CreateBranch(s) ==
  /\ At(s, "branch")
  /\ update' = Append(update, [at |-> "branch", recorded |-> FALSE, overlapped |-> FALSE, cut |-> FALSE])
  /\ session' = [session EXCEPT ![s].at = "files", ![s].update = Len(update) + 1]
  /\ UNCHANGED <<facts, finding, snapshot, left>>

PutFiles(s) ==
  /\ At(s, "files") /\ update' = [update EXCEPT ![session[s].update].at = "files"] /\ Goes(s, "pull")
  /\ UNCHANGED <<facts, finding, snapshot, left>>

CreatePullRequest(s) ==
  /\ At(s, "pull") /\ update' = [update EXCEPT ![session[s].update].at = "open"] /\ Goes(s, "record")
  /\ UNCHANGED <<facts, finding, snapshot, left>>

CreateRequest(s) ==
  /\ At(s, "record") /\ Ends(s)
  /\ update' = [update EXCEPT ![session[s].update].recorded = TRUE,
                              ![session[s].update].overlapped = session[s].overlapped]
  /\ UNCHANGED <<facts, finding, snapshot, left>>

\* Somebody merges the pull request; the project's row is not told.
MergeUpdate(u) ==
  /\ update[u].at = "open" /\ update' = [update EXCEPT ![u].at = "merged"]
  /\ UNCHANGED <<facts, finding, session, snapshot, left>>

----------------------------------------------------------------------------
\* A call fails, or the process ends: what was done stays.
RequestCutShort(s) ==
  /\ ~At(s, "idle") /\ Spend("cut") /\ Ends(s)
  /\ update' = [u \in DOMAIN update |-> IF u = session[s].update THEN [update[u] EXCEPT !.cut = TRUE] ELSE update[u]]
  /\ UNCHANGED <<facts, finding, snapshot>>

Detection(s) ==
  RunDetection(s) \/ ListEnvMetadata(s) \/ FindTokenStatus(s) \/ FindActive(s) \/ ResolveOthers(s) \/ ResolveFails(s)
  \/ InsertFinding(s) \/ InsertRefused(s)
Repairing(s) == MarkIgnored(s) \/ RotateToken(s) \/ MarkResolved(s) \/ RepairRefused(s) \/ \E i \in DOMAIN finding : Repair(s, i)
Snapshots(s) == SyncProjectSnapshot(s) \/ CreateSnapshot(s)
Updates(s) ==
  CreateWorkflowUpdate(s) \/ CreateBranch(s) \/ PutFiles(s) \/ CreatePullRequest(s) \/ CreateRequest(s)

DriftStep ==
  \/ EnvironmentChanges
  \/ \E s \in Sessions : Detection(s) \/ Repairing(s) \/ Snapshots(s) \/ Updates(s) \/ RequestCutShort(s)

----------------------------------------------------------------------------
\* Properties

\* Rows, requests and branches have the shapes the code gives them.
DriftTypeOK ==
  /\ token \in 0..issued /\ issued \in 0..MaxTokens /\ tracked \in BOOLEAN
  /\ environment \in Environments /\ changes \in Nat /\ target \in 1..changes + 1
  /\ \A i \in DOMAIN finding : finding[i].code \in Codes /\ finding[i].status \in FindingStatuses
  /\ snapshot.shows \subseteq SnapshotCodes /\ snapshot.status \in {"none", "ok", "warning"}
  /\ \A u \in DOMAIN update : update[u].at \in {"branch", "files", "open", "merged"}
  /\ \A s \in Sessions : session[s].row \in 0..Len(finding) /\ session[s].update \in 0..Len(update)

\* A project has two active findings of one code only when detections, or a
\* detection and a repair, have overlapped.  (replaceActiveFindings.)
TwinsOnlyByOverlap ==
  \A i, k \in DOMAIN finding :
    i < k /\ Active(i) /\ Active(k) /\ finding[i].code = finding[k].code /\ finding[i].target = finding[k].target =>
      finding[k].overlapped

\* What a detection would find that read everything at once.
FoundNow ==
  {code \in Codes :
     \/ code = "workflow_files_missing" /\ ~tracked
     \/ code = "ci_token_missing" /\ CiAuth = "missing"
     \/ code \in OfTarget /\ environment = "orphaned"
     \/ code = "env_metadata_empty" /\ environment = "empty"}

\* When a detection ends that nothing overlapped, the active findings are those
\* codes that it has found, but for one whose target is gone; and they still hold
\* unless a fact has changed since.
DetectedIsActive ==
  [][\A s \in Sessions :
       session[s].at \in Replacing /\ session'[s].at = "idle" /\ ~session[s].overlapped /\ left' = left =>
         /\ \/ {finding'[i].code : i \in {k \in DOMAIN finding' : finding'[k].status = "active"}} = session[s].found
            \/ target # session[s].target /\ OfTarget \subseteq session[s].found
         /\ session[s].found = FoundNow \/ Before(session[s].since, Now)]_driftVars

\* A finding that no workflow file is tracked is never resolved, since nothing ever
\* tracks one: it can only be ignored, and comes back with the next detection.
FilesStayMissing ==
  \A i \in DOMAIN finding : finding[i].code = "workflow_files_missing" => finding[i].status # "resolved"

\* The latest snapshot is older than the one before it only when two requests for
\* one have overlapped.
NewestSnapshotStays ==
  [][snapshot' # snapshot => ~Before(snapshot'.since, snapshot.since) \/ snapshot'.overlapped]_driftVars

\* A snapshot that says ok shows no finding but that no variables are tracked, which
\* its status overlooks; and one that says warning shows one that is not.
StatusFitsFindings ==
  /\ snapshot.status = "ok" => snapshot.shows \subseteq {"env_metadata_empty"}
  /\ snapshot.status = "warning" => snapshot.shows \ {"env_metadata_empty"} # {}

\* Findings and snapshots say what the tables said, but for what overlaps.
\* (ProjectDriftService, ProjectSyncFindingsRepository, syncProjectSnapshot.)
FindingsAreTrue ==
  [](TwinsOnlyByOverlap /\ FilesStayMissing /\ StatusFitsFindings) /\ DetectedIsActive /\ NewestSnapshotStays

\* A pull request for an update is recorded unless its request was cut short; and
\* the recorded ones are more than the limit only when requests overlapped.
\* (createWorkflowUpdatePullRequest.)
UpdatesAreCounted ==
  /\ \A u \in DOMAIN update :
       /\ update[u].recorded => update[u].at \in {"open", "merged"}
       /\ update[u].at # "branch" /\ ~update[u].recorded =>
            update[u].cut \/ \E s \in Sessions : session[s].update = u
  /\ Cardinality(Recorded) > UpdateLimit => \E u \in Recorded : update[u].overlapped

====
