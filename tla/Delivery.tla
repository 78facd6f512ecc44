---- MODULE Delivery ----
(***************************************************************************)
(* Delivery of one repository: the three workflow files that the platform  *)
(* generates (access, quality, package), their runs at GitHub, what a run  *)
(* reports to the console, and the token that lets it.                     *)
(*                                                                         *)
(* The files are chained by workflow_run, so each stage starts when the    *)
(* one before has completed, however it ended, and decides by `if`s what   *)
(* it does.  Jobs of a run that are ready at the same time run together.   *)
(***************************************************************************)
EXTENDS Drift, FiniteSetsExt

CONSTANTS
  Commits,        \* commits that are pushed or proposed
  Targets,        \* deployment targets the workflow may have: "vercel", "render"
  Sonar,          \* whether the repository has the secrets of SonarCloud
  Faults,         \* kinds of faults that happen
  Rollover        \* the first run whose id has one digit more than those before

ASSUME DeliveryAssumption ==
  /\ Targets \subseteq {"vercel", "render"} /\ Sonar \in BOOLEAN
  /\ Rollover \in Nat

VARIABLES
  commit,     \* what is known of a commit: whether it is at GitHub, and its flaw
  head,       \* the commit a branch points to
  file,       \* the workflow files: whether there are any, and the targets they deploy to
  run,        \* workflow runs in the order of their ids
  promoted,   \* commits whose package stage opened or updated the promotion PR
  report,     \* workflow.ci_run_reports: the status per run (a run has one stage)
  secret,     \* the token that is the repository's secret ALPHACI_TOKEN; 0: none
  setup       \* how far the request is that sets the project up, and the token it has issued

vars == <<commit, head, file, run, promoted, report, secret, setup, driftVars, left>>
github == <<commit, head, run, promoted, report>>
platform == <<setup, driftVars>>

FaultKinds == {"outage", "lost", "cancelled"}
Stages == {"access", "quality", "package"}
Checks == {"tests", "lint", "typecheck", "security", "sonar"}
Branches == {"feature", "uat", "main"}
Deployed == {"uat", "main"}
Flaws == {"none", "minor"}
Results == {"waiting", "success", "failure", "skipped", "cancelled"}

\* One job deploys a target of a branch; one builds the image that Render deploys.
Deploys == {"vercel-uat", "vercel-main", "render-uat", "render-main"}
DeployJob(t, b) ==
  CASE t = "vercel" -> IF b = "uat" THEN "vercel-uat" ELSE "vercel-main"
    [] t = "render" -> IF b = "uat" THEN "render-uat" ELSE "render-main"
DockerJob(b) == IF b = "uat" THEN "docker-uat" ELSE "docker-main"
OfUat == {"vercel-uat", "render-uat", "docker-uat"}
OfMain == {"vercel-main", "render-main", "docker-main"}

DeploymentPlan(targets) ==
  {DeployJob(t, b) : t \in targets, b \in Deployed}
  \cup {DockerJob(b) : b \in IF "render" \in targets THEN Deployed ELSE {}}

JobsOf(stage, targets) ==
  CASE stage = "access" -> {"validate", "report"}
    [] stage = "quality" -> {"validate", "policy", "report"} \cup Checks
    [] stage = "package" -> {"validate", "build", "gate", "promote", "report"} \cup DeploymentPlan(targets)

Statuses == {"success", "failure", "cancelled"}
\* A project whose setup has inserted its row, and has everything else to do; or one
\* of the hierarchy, which is not set up.
Init ==
  /\ commit = [c \in Commits |-> [there |-> FALSE, flaw |-> "none"]]
  /\ head = [b \in Deployed |-> {}]
  /\ file = [there |-> FALSE, targets |-> {}]
  /\ run = <<>>
  /\ promoted = {}
  /\ report = <<>>
  /\ DriftInit
  /\ secret = 0 /\ setup = [next |-> IF tracked THEN "token" ELSE "done", token |-> 0]

----------------------------------------------------------------------------
\* The job graph

Strict(b) == b \in Deployed
Waits(i, j) == run[i].job[j] = "waiting"
Got(i, j, results) == j \in DOMAIN run[i].job => run[i].job[j] \in results

\* Production waits for its gate.
DeploymentNeeds(b) == IF b = "main" THEN {"build", "gate"} ELSE {"build"}

\* Mutant: the jobs that build images are enough.
PromotionNeedsImages(i) == DOMAIN run[i].job \cap {"docker-uat"}

PromotionNeeds(i) == DOMAIN run[i].job \cap OfUat

ReportNeeds(i) == DOMAIN run[i].job \ {"gate", "promote", "report"}

Needs(i, j) ==
  CASE j = "validate" -> {}
    [] j \in {"policy", "security", "build"} -> {"validate"}
    [] j \in {"tests", "lint", "typecheck"} -> {"policy"}
    [] j = "sonar" -> {"policy", "tests"}
    [] j = "gate" -> {"build"}
    [] j \in {"vercel-uat", "docker-uat"} -> DeploymentNeeds("uat")
    [] j \in {"vercel-main", "docker-main"} -> DeploymentNeeds("main")
    [] j = "render-uat" -> {"docker-uat"}
    [] j = "render-main" -> {"docker-main"}
    [] j = "promote" -> {"build"} \cup PromotionNeeds(i)
    [] j = "report" -> ReportNeeds(i)

Cancelled(i) == \E j \in DOMAIN run[i].job : run[i].job[j] = "cancelled"

\* A skipped deployment does not hold a promotion up, a failed one does.
PromotionIf(i) ==
  /\ ~Cancelled(i) /\ run[i].branch = "uat" /\ Got(i, "build", {"success"})
  /\ \A j \in PromotionNeeds(i) : Got(i, j, {"success", "skipped"})

\* Mutant: a stage runs whatever became of the one before.
ValidateAlways(i) == TRUE

ValidateIf(i) ==
  \/ run[i].stage = "access" \/ run[i].event = "dispatch" \/ run[i].verdict = "success"

\* A job runs when its `if` holds; one that names no status also wants its needs to succeed.
RunsIf(i, j) ==
  LET after == \A n \in Needs(i, j) : Got(i, n, {"success"})
  IN  CASE j = "validate" -> ValidateIf(i)
        [] j = "build" -> after /\ run[i].branch \in Deployed
        [] j = "gate" -> after /\ run[i].branch = "main"
        [] j \in OfUat -> after /\ run[i].branch = "uat"
        [] j \in OfMain -> after /\ run[i].branch = "main"
        [] j = "sonar" -> after /\ Sonar
        [] j = "promote" -> PromotionIf(i)
        [] j = "report" -> TRUE
        [] OTHER -> after

Ready(i) == {j \in DOMAIN run[i].job : Waits(i, j) /\ \A n \in Needs(i, j) : ~Waits(i, n)}

\* The platform's answer to a run: its token's hash is the one that is stored.
Authorized == secret # 0 /\ secret = token

\* A minor flaw (of coverage, warnings, the quality gate) passes the baseline; the
\* strict policy of uat and main does not let it pass.
Flawed(i) == commit[run[i].commit].flaw = "minor" /\ Strict(run[i].branch)

Fails(i, j) == (j = "validate" /\ ~Authorized) \/ (j = "tests" /\ Flawed(i))

\* How a run ended, as GitHub tells the next stage; and as it tells the console.
Ended(i) == \A j \in DOMAIN run[i].job : ~Waits(i, j)
Worst(i, jobs) ==
  IF \E j \in jobs : run[i].job[j] = "failure" THEN "failure"
  ELSE IF \E j \in jobs : run[i].job[j] = "cancelled" THEN "cancelled" ELSE "success"
Conclusion(i) == Worst(i, DOMAIN run[i].job)

\* Mutant: the status of the reporting job itself.
OwnConclusion(i) == IF Cancelled(i) THEN "cancelled" ELSE "success"

StageConclusion(i) == Worst(i, ReportNeeds(i))

----------------------------------------------------------------------------
\* Runs

\* Bound: what a run of a stage, and those that will follow it, need of left.run.
Chain(stage) == CASE stage = "access" -> 3 [] stage = "quality" -> 2 [] stage = "package" -> 1
Unfinished == {i \in DOMAIN run : ~run[i].told}
Room(k) == Len(run) + MapThenSumSet(LAMBDA i : Chain(run[i].stage) - 1, Unfinished) + k <= left.run

Started(stage, c, b, event, verdict, checked, over) ==
  run' = Append(run, [stage |-> stage, commit |-> c, branch |-> b, event |-> event,
                      verdict |-> verdict, checked |-> checked, passedOver |-> over, told |-> FALSE,
                      job |-> [j \in JobsOf(stage, file.targets) |-> "waiting"]])

\* A push to uat or main, or a pull request from another branch, starts the access stage.
Push(c) ==
  /\ file.there /\ ~commit[c].there /\ Room(3)
  /\ \E b \in Branches, flaw \in Flaws :
       /\ commit' = [commit EXCEPT ![c] = [there |-> TRUE, flaw |-> flaw]]
       /\ head' = IF b \in Deployed THEN [head EXCEPT ![b] = {c}] ELSE head
       /\ Started("access", c, b, IF b = "feature" THEN "pull_request" ELSE "push", "success", FALSE, FALSE)
  /\ UNCHANGED <<file, promoted, report, secret, platform, left>>

\* Also the promotion's pull request, which is one from uat: it starts the access stage.
WorkflowDispatch(stage, b) ==
  /\ file.there /\ Room(Chain(stage))
  /\ \E c \in head[b] : Started(stage, c, b, "dispatch", "success", FALSE, FALSE)
  /\ UNCHANGED <<commit, head, file, promoted, report, secret, platform, left>>

\* Somebody runs all jobs of a run that did not succeed again: the same run, the same event.
Rerun(i) ==
  /\ Ended(i) /\ run[i].told /\ Conclusion(i) # "success" /\ Room(Chain(run[i].stage) - 1)
  /\ Spend("fault")
  /\ run' = [run EXCEPT ![i].told = FALSE, ![i].job = [j \in DOMAIN @ |-> "waiting"]]
  /\ UNCHANGED <<commit, head, file, promoted, report, secret, platform>>

Cancel(i) ==
  /\ "cancelled" \in Faults /\ Spend("fault")
  /\ ~Ended(i)
  /\ run' = [run EXCEPT ![i].job = [j \in DOMAIN @ |->
               IF @[j] = "waiting" /\ j # "report" THEN "cancelled" ELSE @[j]]]
  /\ UNCHANGED <<commit, head, file, promoted, report, secret, platform>>

CheckedAll(i) ==
  \A k \in Checks : Got(i, k, IF k = "sonar" /\ ~Sonar THEN {"success", "skipped"} ELSE {"success"})

\* workflow_run, types: completed.
Completed(i) ==
  /\ Ended(i) /\ ~run[i].told
  /\ LET told == [run EXCEPT ![i].told = TRUE]
         next == IF run[i].stage = "access" THEN "quality" ELSE "package"
     IN  run' = IF run[i].stage = "package" THEN told
                ELSE Append(told, [stage |-> next, commit |-> run[i].commit, branch |-> run[i].branch,
                       event |-> "after", verdict |-> Conclusion(i), told |-> FALSE,
                       checked |-> run[i].stage = "quality" /\ CheckedAll(i),
                       passedOver |-> run[i].stage = "quality" /\ ~ValidateIf(i),
                       job |-> [j \in JobsOf(next, file.targets) |-> "waiting"]])
  /\ UNCHANGED <<commit, head, file, promoted, report, secret, platform, left>>

\* The report goes through the validation of a run, too.
Reports(i, lost) ==
  report' = IF Authorized /\ ~lost
            THEN [k \in DOMAIN report \cup {i} |-> IF k = i THEN StageConclusion(i) ELSE report[k]]
            ELSE report

\* All jobs of a run that are ready: those whose `if` does not hold are skipped,
\* and at most one of the others fails for a reason outside the commit.
RunJobs(i) ==
  LET ready == Ready(i)
      tried == {j \in ready : RunsIf(i, j)}
      wrong == {j \in tried : Fails(i, j)}
      outage == IF "outage" \in Faults /\ left.fault > 0 THEN tried \ (wrong \cup {"report"}) ELSE {}
  IN  /\ ready # {}
      /\ \E bad \in {wrong} \cup {wrong \cup {j} : j \in outage} :
           /\ run' = [run EXCEPT ![i].job = [j \in DOMAIN @ |->
                IF j \notin ready THEN @[j] ELSE IF j \in bad THEN "failure"
                ELSE IF j \in tried THEN "success" ELSE "skipped"]]
           /\ promoted' = IF "promote" \in tried \ bad THEN promoted \cup {run[i].commit} ELSE promoted
           /\ \E lost \in {FALSE} \cup IF "lost" \in Faults /\ left.fault > 0 /\ bad = wrong THEN {"report" \in ready} ELSE {} :
                /\ IF bad # wrong \/ lost THEN Spend("fault") ELSE UNCHANGED left
                /\ IF "report" \in ready THEN Reports(i, lost) ELSE UNCHANGED report
  /\ UNCHANGED <<commit, head, file, secret, platform>>

----------------------------------------------------------------------------
\* The project's token, secret and files

SetupIssuesToken ==
  /\ setup.next = "token" /\ IssueToken /\ setup' = [next |-> "secret", token |-> issued + 1]
  /\ UNCHANGED <<github, file, secret, tracked, environment, target, changes, finding, session, update, snapshot, left>>

\* The secret is the token that this request has issued, whatever is stored by now.
SetupSetsSecret ==
  /\ setup.next = "secret" /\ secret' = setup.token /\ setup' = [setup EXCEPT !.next = "files"]
  /\ UNCHANGED <<github, file, driftVars, left>>

SetupPushesFiles ==
  /\ setup.next = "files" /\ setup' = [setup EXCEPT !.next = "done"]
  /\ file' = [there |-> TRUE, targets |-> Targets]
  /\ UNCHANGED <<github, secret, driftVars, left>>

\* The bundle of an update's preview is built from the stored settings, without any target.
PreviewedTargets == {}
WorkflowUpdated(u) ==
  /\ MergeUpdate(u)
  /\ file' = [there |-> TRUE, targets |-> PreviewedTargets]
  /\ UNCHANGED <<github, secret, setup>>

DriftStepped == DriftStep /\ UNCHANGED <<github, file, secret, setup>>

----------------------------------------------------------------------------
\* What the console shows of a commit: per stage, the report that comes first

\* ORDER BY run_id DESC, where run_id is the column of the result: a text.  An id
\* with one digit more, which starts with a 1, comes after those that start with a 9.
First(i, k) == IF (i < Rollover) = (k < Rollover) THEN i >= k ELSE i < Rollover

Shown(c, stage) == {i \in DOMAIN report : run[i].commit = c /\ run[i].stage = stage}
StageRun(c, stage) == CHOOSE i \in Shown(c, stage) : \A k \in Shown(c, stage) : First(i, k)
OverallStatus(c) ==
  IF \E stage \in Stages : Shown(c, stage) = {} THEN "partial"
  ELSE LET shown == {report[StageRun(c, stage)] : stage \in Stages}
       IN  IF shown = {"success"} THEN "success"
           ELSE IF "failure" \in shown THEN "failure" ELSE "cancelled"

----------------------------------------------------------------------------
Github == \E i \in DOMAIN run : RunJobs(i) \/ Completed(i)
People ==
  \/ \E c \in Commits : Push(c)
  \/ \E stage \in Stages, b \in Deployed : WorkflowDispatch(stage, b)
  \/ \E i \in DOMAIN run : Rerun(i) \/ Cancel(i)
  \/ \E u \in DOMAIN update : WorkflowUpdated(u)
Setup == SetupIssuesToken \/ SetupSetsSecret \/ SetupPushesFiles
Next == Github \/ People \/ Setup \/ DriftStepped

Spec == Init /\ [][Next]_vars

----------------------------------------------------------------------------
\* Properties

\* Runs, reports, tokens and findings have the shapes the code gives them.
TypeOK ==
  /\ commit \in [Commits -> [there : BOOLEAN, flaw : Flaws]]
  /\ head \in [Deployed -> SUBSET Commits]
  /\ file \in [there : BOOLEAN, targets : SUBSET Targets]
  /\ \A i \in DOMAIN run :
       /\ run[i].stage \in Stages /\ run[i].commit \in Commits /\ run[i].branch \in Branches
       /\ \E targets \in {Targets, PreviewedTargets} : run[i].job \in [JobsOf(run[i].stage, targets) -> Results]
  /\ promoted \subseteq Commits
  /\ DOMAIN report \subseteq DOMAIN run /\ \A i \in DOMAIN report : report[i] \in Statuses
  /\ DriftTypeOK /\ secret \in 0..issued
  /\ setup \in [next : {"token", "secret", "files", "done"}, token : 0..issued]

\* A commit is deployed only by a run whose quality stage passed every check on
\* it; and to production only past the gate of that run.  But for a package stage
\* that somebody dispatched, and for one behind a quality stage that was skipped,
\* and so a success, because the access stage had failed.
DeployedWasTested ==
  [][\A i \in DOMAIN run, t \in Targets, b \in Deployed :
       (run'[i] # run[i] /\ DeployJob(t, b) \in Ready(i) /\ run'[i].job[DeployJob(t, b)] = "success") =>
         /\ run[i].checked \/ run[i].event = "dispatch" \/ run[i].passedOver
         /\ b = "main" => Got(i, "gate", {"success"})]_vars

\* A promotion is opened only once every target of uat that the run's files know
\* has the commit, from that run.
PromotedWasDeployed ==
  \A i \in DOMAIN run :
    run[i].stage = "package" /\ run[i].job["promote"] = "success" =>
      \A j \in DOMAIN run[i].job : j \in Deploys \cap OfUat => run[i].job[j] = "success"

\* When the console shows a commit as successful, a quality stage has passed its
\* checks, or one was skipped behind a failed access stage.
SuccessIsEarned ==
  \A c \in Commits : OverallStatus(c) = "success" =>
    \E i \in DOMAIN run : run[i].commit = c /\ run[i].stage = "quality" /\ (CheckedAll(i) \/ ~ValidateIf(i))

\* The report shown of a stage is that of the newest run that reported, as long as
\* the ids have equally many digits.
ShownIsNewest ==
  \A c \in Commits, stage \in Stages : Shown(c, stage) # {} =>
    \A i \in Shown(c, stage) : i <= StageRun(c, stage) \/ (StageRun(c, stage) < Rollover /\ Rollover <= i)

\* Once nothing runs any more, a commit without flaws that was pushed to uat is
\* promoted, unless a job of one of its runs has failed or was cancelled.
CleanIsPromoted ==
  \A c \in Commits :
    head["uat"] = {c} /\ commit[c].flaw = "none" /\ Unfinished = {} =>
      \/ c \in promoted
      \/ \E i \in DOMAIN run : run[i].commit = c /\ Conclusion(i) # "success"

\* A repair replaces the token of a pipeline only when it answers a finding that is
\* older than that token, and nobody gets the new one.
RotatedWhenStale ==
  [][token' # token /\ token # 0 /\ secret = token =>
       \E s \in Sessions : At(s, "repair") /\ finding[session[s].row].since.tokens < token]_vars

\* What the console tells of the project is true, pull requests for updates are
\* counted, and a repair does harm only when its finding is stale.
\* (ProjectDriftService, ProjectDriftRepairService, createWorkflowUpdatePullRequest.)
DriftIsTrue == FindingsAreTrue /\ []UpdatesAreCounted /\ RotatedWhenStale

\* A commit that uat got whole is promoted, and no other.  (The promote job's needs
\* and its condition.)
PromotedAsDeployed == PromotedWasDeployed /\ CleanIsPromoted

\* The status the console shows of a commit is of the newest reports, and a success
\* was earned; the state is of its type.  (CiReportsService.)
ConsoleIsTrue == TypeOK /\ SuccessIsEarned /\ ShownIsNewest

====
