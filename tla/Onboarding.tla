---- MODULE Onboarding ----
(***************************************************************************)
(* A repository that exists is set up, directly or by a pull request.      *)
(* A direct set-up inserts a project row, puts two secrets of its own and  *)
(* up to three of SonarCloud, pushes the workflow files to the default     *)
(* branch, one by one, and adds the branch uat; when a step throws, the    *)
(* row and the two secrets are taken back.  A set-up by pull request puts  *)
(* a file on a branch with a fixed name.  The repository has an owner, who *)
(* has a SonarCloud of their own, protects branches and merges.            *)
(*                                                                         *)
(* Requests are for one repository, and nothing keeps two of them apart.   *)
(***************************************************************************)
EXTENDS Naturals, FiniteSets

CONSTANTS
  Requests,
  Owner,     \* who else sets secrets
  NoOne,
  FileCount, \* workflow files of a set-up
  Budgets    \* bounds: changes by the owner and faults of a behaviour

ASSUME OnboardingAssumption ==
  /\ Owner \notin Requests /\ NoOne \notin Requests \cup {Owner}
  /\ FileCount \in Nat \ {0}
  /\ Budgets \subseteq [changes : Nat, faults : Nat]

Own == {"ALPHACI_TOKEN", "ALPHACI_REPORT_URL"}
Sonar == {"SONAR_TOKEN", "SONAR_ORGANIZATION", "SONAR_PROJECT_KEY"}
Secrets == Own \cup Sonar
Files == 1..FileCount

VARIABLES
  secret,    \* GitHub: who set an Actions secret last
  default,   \* GitHub: which set-up wrote a workflow file of the default branch
  guarded,   \* GitHub: whether the default branch takes pull requests only
  uat,       \* GitHub: whether there is a branch uat
  topic,     \* GitHub: the branch of set-ups by pull request, and its pull request
  analysis,  \* SonarCloud: whether the repository has a project there
  project,   \* projects.provisioned_projects: the set-ups that have a row
  req,       \* the requests, between two awaits
  left,      \* what the bounds leave
  \* What happened before, for the properties to tell a mishap from the rule:
  crossed,   \* set-ups whose token or file another one replaced or removed
  mishap     \* see Mishaps

vars == <<secret, default, guarded, uat, topic, analysis, project, req, left, crossed, mishap>>
github == <<secret, default, guarded, uat, topic>>

Mishaps ==
  {"kept",      \* a secret was not taken back
   "cut",       \* a set-up ended with SonarCloud's secrets half written
   "refused",   \* one of them was refused, or SonarCloud refused the project
   "meanwhile", \* the owner set them after a set-up had looked
   "deleted"}   \* the branch of a set-up by pull request went while one was under way

Warnings == {"branch_protected", "sonar_already_configured"}
Steps == {"row", "names", "sonar project", "read", "put", "uat", "status", "branch", "file", "pull"}
Undoing == {"unrow", "untoken", "unurl"}
Ends == {"done", "failed", "gone"}

\* file: the workflow file that is next, sha: what was read of it; told, sure: what a
\* discovery told, and whether it read the guard as it still is; unread, since: whether
\* the secrets' names could not be read, and the owner set some after; replaced: whether
\* it wrote over a secret of the owner's; refused: whether the guard refused a file.
Request == [at : {"idle", "told"} \cup Steps \cup Secrets \cup Undoing \cup Ends,
            file : Files, sha : Requests \cup {NoOne},
            told : SUBSET Warnings, sure : BOOLEAN,
            unread : BOOLEAN, since : BOOLEAN, replaced : BOOLEAN, refused : BOOLEAN]
Idle == [at |-> "idle", file |-> 1, sha |-> NoOne, told |-> {}, sure |-> FALSE,
         unread |-> FALSE, since |-> FALSE, replaced |-> FALSE, refused |-> FALSE]
NoTopic == [maker |-> NoOne, file |-> NoOne, pull |-> NoOne]

TypeOK ==
  /\ secret \in [Secrets -> Requests \cup {Owner, NoOne}]
  /\ \A s \in Own : secret[s] # Owner
  /\ default \in [Files -> Requests \cup {NoOne}]
  /\ guarded \in BOOLEAN /\ uat \in BOOLEAN /\ analysis \in BOOLEAN
  /\ topic \in [maker : Requests \cup {NoOne}, file : Requests \cup {NoOne},
                pull : Requests \cup {NoOne}]
  /\ project \subseteq Requests
  /\ req \in [Requests -> Request]
  /\ crossed \subseteq Requests /\ mishap \subseteq Mishaps

Init ==
  /\ \E set \in {{}, Sonar} :
       secret = [s \in Secrets |-> IF s \in set THEN Owner ELSE NoOne]
  /\ default = [f \in Files |-> NoOne]
  /\ guarded \in BOOLEAN /\ uat \in BOOLEAN
  /\ topic = NoTopic /\ analysis = FALSE /\ project = {}
  /\ req = [r \in Requests |-> Idle]
  /\ left \in Budgets
  /\ crossed = {} /\ mishap = {}

At(r, step) == req[r].at = step
Go(r, step) == req' = [req EXCEPT ![r].at = step]
Spend(what) == left[what] > 0 /\ left' = [left EXCEPT ![what] = @ - 1]
Note(cond, what) == mishap' = IF cond THEN mishap \cup {what} ELSE mishap

----------------------------------------------------------------------------
\* The owner

\* Set-ups that have looked do not look again.
ConfigureSonar ==
  /\ Spend("changes")
  /\ secret' = [s \in Secrets |-> IF s \in Sonar THEN Owner ELSE secret[s]]
  /\ req' = [r \in Requests |->
               [req[r] EXCEPT !.since = @ \/ req[r].at \in {"sonar project"} \cup Sonar]]
  /\ Note(\E r \in Requests : req[r].at \in {"sonar project"} \cup Sonar, "meanwhile")
  /\ UNCHANGED <<default, guarded, uat, topic, analysis, project, crossed>>

ChangeProtection ==
  /\ Spend("changes")
  /\ guarded' = ~guarded
  /\ req' = [r \in Requests |-> [req[r] EXCEPT !.sure = FALSE]]
  /\ UNCHANGED <<secret, default, uat, topic, analysis, project, crossed, mishap>>

\* Merged or closed, the branch stays until it is deleted.
ClosePullRequest ==
  /\ topic.pull # NoOne /\ Spend("changes")
  /\ topic' = [topic EXCEPT !.pull = NoOne]
  /\ UNCHANGED <<secret, default, guarded, uat, analysis, project, req, crossed, mishap>>

DeleteTopic ==
  /\ topic # NoTopic /\ Spend("changes")
  /\ topic' = NoTopic
  /\ Note(\E r \in Requests : req[r].at \in {"file", "pull"}, "deleted")
  /\ UNCHANGED <<secret, default, guarded, uat, analysis, project, req, crossed>>

----------------------------------------------------------------------------
\* Discovery

Configured == \E s \in {"SONAR_TOKEN", "SONAR_PROJECT_KEY"} : secret[s] # NoOne

\* What cannot be read is not told.
Discover(r) ==
  /\ At(r, "idle")
  /\ \E unread \in SUBSET Warnings :
       /\ IF unread = {} THEN UNCHANGED left ELSE Spend("faults")
       /\ req' = [req EXCEPT
            ![r].at = "told", ![r].sure = "branch_protected" \notin unread,
            ![r].told = {w \in Warnings \ unread : IF w = "branch_protected" THEN guarded ELSE Configured}]
  /\ UNCHANGED <<github, analysis, project, crossed, mishap>>

----------------------------------------------------------------------------
\* A set-up

SetupProject(r) ==
  /\ req[r].at \in {"idle", "told"}
  /\ Go(r, "row")
  /\ UNCHANGED <<github, analysis, project, left, crossed, mishap>>

\* The insert comes before the steps that are undone.
CreateProjectRow(r) ==
  /\ At(r, "row")
  /\ project' = project \cup {r}
  /\ \/ Go(r, "ALPHACI_TOKEN") /\ UNCHANGED left
     \/ Go(r, "gone") /\ Spend("faults")
  /\ UNCHANGED <<github, analysis, crossed, mishap>>

Crosses(r) == crossed \cup ({secret["ALPHACI_TOKEN"]} \ {r, NoOne})

AfterSecret(s) ==
  CASE s = "ALPHACI_TOKEN" -> "ALPHACI_REPORT_URL"
    [] s = "ALPHACI_REPORT_URL" -> "names"
    [] s = "SONAR_TOKEN" -> "SONAR_ORGANIZATION"
    [] s = "SONAR_ORGANIZATION" -> "SONAR_PROJECT_KEY"
    [] s = "SONAR_PROJECT_KEY" -> "read"

\* Mutant: a token that is not taken is only logged.
SetActionsSecretQuietly(r) ==
  /\ req[r].at \in Own
  /\ LET s == req[r].at IN
       \/ /\ secret' = [secret EXCEPT ![s] = r]
          /\ Go(r, AfterSecret(s)) /\ UNCHANGED left
       \/ /\ UNCHANGED secret
          /\ Spend("faults") /\ Go(r, AfterSecret(s))
  /\ crossed' = Crosses(r)
  /\ UNCHANGED <<default, guarded, uat, topic, analysis, project, mishap>>

\* The project's token and the address of its reports.  An answer that is lost is a
\* failure too.
SetActionsSecretStrict(r) ==
  /\ req[r].at \in Own
  /\ LET s == req[r].at IN
       /\ secret' = [secret EXCEPT ![s] = r]
       /\ \/ Go(r, AfterSecret(s)) /\ UNCHANGED left
          \/ Go(r, "unrow") /\ Spend("faults")
  /\ crossed' = Crosses(r)
  /\ UNCHANGED <<default, guarded, uat, topic, analysis, project, mishap>>

\* Mutant: the repository is taken for one that was just created.
InstallSonarSecretsAnew(r) ==
  /\ At(r, "names")
  /\ Go(r, "sonar project")
  /\ UNCHANGED <<github, analysis, project, left, crossed, mishap>>

\* A repository that has a SonarCloud keeps it.  Names that cannot be read are none.
ListActionsSecretNames(r) ==
  /\ At(r, "names")
  /\ \/ Go(r, IF Configured THEN "read" ELSE "sonar project") /\ UNCHANGED left
     \/ /\ Spend("faults")
        /\ req' = [req EXCEPT ![r].at = "sonar project", ![r].unread = TRUE]
  /\ UNCHANGED <<github, analysis, project, crossed, mishap>>

\* Whether it worked or not, the secrets are next.
EnsureSonarCloudProject(r) ==
  /\ At(r, "sonar project")
  /\ \/ analysis' = TRUE /\ UNCHANGED <<left, mishap>>
     \/ UNCHANGED analysis /\ Spend("faults") /\ Note(~analysis, "refused")
  /\ Go(r, "SONAR_TOKEN")
  /\ UNCHANGED <<github, project, crossed>>

\* A refusal is logged; what throws ends the set-up.
SetActionsSecret(r) ==
  /\ req[r].at \in Sonar
  /\ LET s == req[r].at
         next(step) == req' = [req EXCEPT ![r].at = step,
                         ![r].replaced = @ \/ (secret[s] = Owner /\ secret'[s] = r)] IN
       \/ /\ secret' = [secret EXCEPT ![s] = r]
          /\ next(AfterSecret(s)) /\ UNCHANGED <<left, mishap>>
       \/ /\ UNCHANGED secret /\ Spend("faults")
          /\ next(AfterSecret(s)) /\ Note(secret[s] \notin Requests, "refused")
       \/ /\ secret' \in {secret, [secret EXCEPT ![s] = r]} /\ Spend("faults")
          /\ next("unrow") /\ mishap' = mishap \cup {"cut"}
  /\ UNCHANGED <<default, guarded, uat, topic, analysis, project, crossed>>

\* The sha of the file on the branch, none if it cannot be read.
ReadWorkflowFile(r) ==
  /\ At(r, "read")
  /\ \/ req' = [req EXCEPT ![r].at = "put", ![r].sha = default[req[r].file]] /\ UNCHANGED left
     \/ req' = [req EXCEPT ![r].at = "put", ![r].sha = NoOne] /\ Spend("faults")
  /\ UNCHANGED <<github, analysis, project, crossed, mishap>>

\* GitHub takes a file for the sha it has, on a branch that is not guarded.
PushWorkflowFile(r) ==
  /\ At(r, "put")
  /\ LET f == req[r].file IN
       IF ~guarded /\ default[f] = req[r].sha
       THEN /\ default' = [default EXCEPT ![f] = r]
            /\ \/ /\ req' = [req EXCEPT ![r].at = IF f = FileCount THEN "uat" ELSE "read",
                                        ![r].file = IF f = FileCount THEN f ELSE f + 1]
                  /\ UNCHANGED left
               \/ Go(r, "unrow") /\ Spend("faults")
            /\ crossed' = crossed \cup ({default[f]} \ {r, NoOne})
       ELSE /\ req' = [req EXCEPT ![r].at = "unrow", ![r].refused = guarded]
            /\ UNCHANGED <<default, left, crossed>>
  /\ UNCHANGED <<secret, guarded, uat, topic, analysis, project, mishap>>

\* Best effort.
EnsureUatBranch(r) ==
  /\ At(r, "uat")
  /\ \/ uat' = TRUE /\ UNCHANGED left
     \/ UNCHANGED uat /\ Spend("faults")
  /\ Go(r, "status")
  /\ UNCHANGED <<secret, default, guarded, topic, analysis, project, crossed, mishap>>

UpdateStatus(r) ==
  /\ At(r, "status")
  /\ Go(r, "done")
  /\ UNCHANGED <<github, analysis, project, left, crossed, mishap>>

StepThrows(r) ==
  /\ req[r].at \in Own \cup {"read", "put", "uat", "status"} /\ Spend("faults")
  /\ Go(r, "unrow")
  /\ UNCHANGED <<github, analysis, project, crossed, mishap>>

\* Neither a row nor a secret that stays keeps the rest from being taken back.
DeleteProjectRow(r) ==
  /\ At(r, "unrow")
  /\ \/ project' = project \ {r} /\ UNCHANGED left
     \/ UNCHANGED project /\ Spend("faults")
  /\ Go(r, "untoken")
  /\ UNCHANGED <<github, analysis, crossed, mishap>>

\* Mutant: only the token is taken back.
RemoveToken(r) ==
  /\ At(r, "untoken")
  /\ \/ secret' = [secret EXCEPT !["ALPHACI_TOKEN"] = NoOne] /\ UNCHANGED <<left, mishap>>
     \/ UNCHANGED secret /\ Spend("faults") /\ mishap' = mishap \cup {"kept"}
  /\ Go(r, "failed")
  /\ crossed' = Crosses(r)
  /\ UNCHANGED <<default, guarded, uat, topic, analysis, project>>

\* Whosever they are.
RemoveSetupSecrets(r) ==
  /\ req[r].at \in {"untoken", "unurl"}
  /\ LET s == IF At(r, "untoken") THEN "ALPHACI_TOKEN" ELSE "ALPHACI_REPORT_URL" IN
       \/ secret' = [secret EXCEPT ![s] = NoOne] /\ UNCHANGED <<left, mishap>>
       \/ UNCHANGED secret /\ Spend("faults") /\ mishap' = mishap \cup {"kept"}
  /\ Go(r, IF At(r, "untoken") THEN "unurl" ELSE "failed")
  /\ crossed' = Crosses(r)
  /\ UNCHANGED <<default, guarded, uat, topic, analysis, project>>

\* The process ends in the middle of a set-up.
Crash(r) ==
  /\ req[r].at \in Own \cup Sonar \cup Undoing \cup {"read", "put", "uat", "status", "file", "pull"}
  /\ Spend("faults")
  /\ Go(r, "gone")
  /\ mishap' = mishap
       \cup (IF req[r].at \in {"untoken", "unurl"} THEN {"kept"} ELSE {})
       \cup (IF req[r].at \in Sonar THEN {"cut"} ELSE {})
  /\ UNCHANGED <<github, analysis, project, crossed>>

----------------------------------------------------------------------------
\* A set-up by pull request

SetupPullRequest(r) ==
  /\ req[r].at \in {"idle", "told"}
  /\ Go(r, "branch")
  /\ UNCHANGED <<github, analysis, project, left, crossed, mishap>>

\* The branch's name is made of the service's: a set-up that failed half way, or was
\* merged, is in the way of the next one.
CreateBranch(r) ==
  /\ At(r, "branch")
  /\ IF topic.maker # NoOne
     THEN Go(r, "failed") /\ UNCHANGED <<topic, left>>
     ELSE /\ topic' = [topic EXCEPT !.maker = r]
          /\ \/ Go(r, "file") /\ UNCHANGED left
             \/ Go(r, "failed") /\ Spend("faults")
  /\ UNCHANGED <<secret, default, guarded, uat, analysis, project, crossed, mishap>>

\* On the branch that has the name.
PutFileContent(r) ==
  /\ At(r, "file")
  /\ IF topic.maker = NoOne
     THEN Go(r, "failed") /\ UNCHANGED <<topic, left>>
     ELSE /\ topic' = [topic EXCEPT !.file = r]
          /\ \/ Go(r, "pull") /\ UNCHANGED left
             \/ Go(r, "failed") /\ Spend("faults")
  /\ UNCHANGED <<secret, default, guarded, uat, analysis, project, crossed, mishap>>

\* GitHub opens one pull request for a branch.
CreatePullRequest(r) ==
  /\ At(r, "pull")
  /\ IF topic.maker = NoOne \/ topic.pull # NoOne
     THEN Go(r, "failed") /\ UNCHANGED <<topic, left>>
     ELSE /\ topic' = [topic EXCEPT !.pull = r]
          /\ \/ Go(r, "done") /\ UNCHANGED left
             \/ Go(r, "failed") /\ Spend("faults")
  /\ UNCHANGED <<secret, default, guarded, uat, analysis, project, crossed, mishap>>

OwnerStep == ConfigureSonar \/ ChangeProtection \/ ClosePullRequest \/ DeleteTopic

SetupStep(r) ==
  \/ SetupProject(r) \/ CreateProjectRow(r) \/ SetActionsSecretStrict(r)
  \/ ListActionsSecretNames(r) \/ EnsureSonarCloudProject(r) \/ SetActionsSecret(r)
  \/ ReadWorkflowFile(r) \/ PushWorkflowFile(r) \/ EnsureUatBranch(r) \/ UpdateStatus(r)
  \/ StepThrows(r) \/ DeleteProjectRow(r) \/ RemoveSetupSecrets(r) \/ Crash(r)

PullRequestStep(r) ==
  SetupPullRequest(r) \/ CreateBranch(r) \/ PutFileContent(r) \/ CreatePullRequest(r)

Next == OwnerStep \/ \E r \in Requests : Discover(r) \/ SetupStep(r) \/ PullRequestStep(r)

Spec == Init /\ [][Next]_vars

----------------------------------------------------------------------------
\* Properties

Quiet == \A r \in Requests : req[r].at \in {"idle", "told"} \cup Ends

\* When no set-up runs, the token and the address in the repository belong to a project
\* that is there, unless a secret could not be taken back.  (setupProject's catch block:
\* a failed set-up leaves no "credentials with no owner".)
CredentialsHaveAnOwner ==
  Quiet /\ "kept" \notin mishap => \A s \in Own : secret[s] \in project \cup {NoOne}

\* A set-up that succeeded has its own token in the repository and all of its files
\* beside it, unless another set-up of the repository replaced or removed one of them.
\* (setActionsSecretStrict, pushWorkflowFile, removeSetupSecrets.)
DoneIsConnected ==
  \A r \in project :
    At(r, "done") /\ r \notin crossed =>
      secret["ALPHACI_TOKEN"] = r /\ \A f \in Files : default[f] = r

\* A set-up writes over a secret of the owner's SonarCloud only if it could not read
\* which secrets there are, or the owner set them after it had read; and a refused file
\* was told of by a discovery that read the guard.  (installSonarSecrets, preflight.)
AsTold ==
  \A r \in Requests :
    /\ req[r].replaced => req[r].unread \/ req[r].since
    /\ req[r].refused /\ req[r].sure => "branch_protected" \in req[r].told

\* When no set-up runs, SonarCloud's three secrets are of one hand, and if it was ours
\* the project they name is there, unless a call was refused, a set-up was cut short
\* between them, or the owner set them meanwhile.  (installSonarSecrets.)
SonarIsWhole ==
  Quiet /\ {"cut", "refused", "meanwhile"} \cap mishap = {} =>
    \/ \A s \in Sonar : secret[s] = NoOne
    \/ \A s \in Sonar : secret[s] = Owner
    \/ analysis /\ \A s \in Sonar : secret[s] \in Requests

\* The secrets that set-ups leave belong together, and to a project that is there;
\* the state is of its type.  (setupProject, removeSetupSecrets.)
SecretsBelong == TypeOK /\ CredentialsHaveAnOwner /\ SonarIsWhole

\* A pull request has the file of the set-up that opened it, unless its branch was
\* deleted under a set-up.  (setupPullRequest.)
PullRequestIsWhole ==
  topic.pull # NoOne /\ "deleted" \notin mishap => topic.file = topic.pull

\* A set-up that succeeded, of either kind, is whole.
FinishedIsWhole == DoneIsConnected /\ PullRequestIsWhole
====
