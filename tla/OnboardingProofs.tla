---- MODULE OnboardingProofs ----
(***************************************************************************)
(* What set-ups leave behind in Onboarding, for any number of set-ups and  *)
(* workflow files, and any changes by the owner and faults.                *)
(***************************************************************************)
EXTENDS Onboarding, TLAPS

-----------------------------------------------------------------------------
(* Type correctness, in parts.                                             *)

SecretTyped == secret \in [Secrets -> Requests \cup {Owner, NoOne}] /\ \A s \in Own : secret[s] # Owner
DefaultTyped == default \in [Files -> Requests \cup {NoOne}]
FlagsTyped == guarded \in BOOLEAN /\ uat \in BOOLEAN /\ analysis \in BOOLEAN
TopicTyped == topic \in [maker : Requests \cup {NoOne}, file : Requests \cup {NoOne},
                         pull : Requests \cup {NoOne}]
ReqTyped == req \in [Requests -> Request]
PastTyped == project \subseteq Requests /\ crossed \subseteq Requests /\ mishap \subseteq Mishaps

LEMMA TypedParts ==
  /\ TypeOK <=> SecretTyped /\ DefaultTyped /\ FlagsTyped /\ TopicTyped /\ ReqTyped /\ PastTyped
  /\ TypeOK' <=> SecretTyped' /\ DefaultTyped' /\ FlagsTyped' /\ TopicTyped' /\ ReqTyped' /\ PastTyped'
  BY DEF TypeOK, SecretTyped, DefaultTyped, FlagsTyped, TopicTyped, ReqTyped, PastTyped

Places == {"idle", "told"} \cup Steps \cup Secrets \cup Undoing \cup Ends

LEMMA IdleTypes == Idle \in Request
  BY OnboardingAssumption DEF Idle, Request, Files, OnboardingAssumption

-----------------------------------------------------------------------------
(* What a step does to the request that takes it.                          *)

OthersRest(r) == \A q \in Requests \ {r} : req'[q] = req[q]

\* The request r goes to a step, and nothing else of it changes but what a step names.
KeepsSonar(r) ==
  req'[r].unread = req[r].unread /\ req'[r].since = req[r].since /\ req'[r].replaced = req[r].replaced
KeepsGuard(r) ==
  req'[r].told = req[r].told /\ req'[r].sure = req[r].sure /\ req'[r].refused = req[r].refused

LEMMA GoIs ==
  ASSUME ReqTyped, NEW r \in Requests, NEW step, Go(r, step)
  PROVE  /\ OthersRest(r) /\ req'[r].at = step
         /\ req'[r].file = req[r].file /\ req'[r].sha = req[r].sha
         /\ KeepsSonar(r) /\ KeepsGuard(r)
         /\ step \in Places => ReqTyped'
<1>1. req[r] \in Request /\ req'[r] = [req[r] EXCEPT !.at = step] /\ OthersRest(r)
  BY DEF ReqTyped, Go, OthersRest
<1>2. /\ req'[r].at = step /\ req'[r].file = req[r].file /\ req'[r].sha = req[r].sha
      /\ KeepsSonar(r) /\ KeepsGuard(r)
  BY <1>1 DEF Request, KeepsSonar, KeepsGuard
<1>3. step \in Places => req'[r] \in Request
  BY <1>1 DEF Request, Places
<1>4. step \in Places => ReqTyped'
  BY <1>1, <1>3 DEF ReqTyped, Go
<1> QED
  BY <1>1, <1>2, <1>4

LEMMA DiscoverIs ==
  ASSUME ReqTyped, NEW r \in Requests, Discover(r)
  PROVE  /\ OthersRest(r) /\ req'[r].at = "told" /\ req'[r].file = req[r].file
         /\ KeepsSonar(r) /\ req'[r].refused = req[r].refused
         /\ req'[r].sure => ("branch_protected" \in req'[r].told <=> guarded)
         /\ ReqTyped'
<1>1. PICK unread \in SUBSET Warnings :
        req' = [req EXCEPT
            ![r].at = "told", ![r].sure = "branch_protected" \notin unread,
            ![r].told = {w \in Warnings \ unread : IF w = "branch_protected" THEN guarded ELSE Configured}]
  BY DEF Discover
<1> DEFINE told == {w \in Warnings \ unread : IF w = "branch_protected" THEN guarded ELSE Configured}
<1>2. told \in SUBSET Warnings /\ ("branch_protected" \notin unread => ("branch_protected" \in told <=> guarded))
  BY DEF Warnings
<1> HIDE DEF told
<1>3. req' = [req EXCEPT ![r].at = "told", ![r].sure = "branch_protected" \notin unread, ![r].told = told]
  BY <1>1 DEF told
<1>4. /\ OthersRest(r) /\ req[r] \in Request
      /\ req'[r] = [req[r] EXCEPT !.at = "told", !.sure = "branch_protected" \notin unread, !.told = told]
  BY <1>3 DEF ReqTyped, OthersRest
<1>5. req'[r] \in Request /\ req' \in [Requests -> Request]
  BY <1>2, <1>3, <1>4 DEF ReqTyped, Request
<1>6. req'[r].sure = ("branch_protected" \notin unread) /\ req'[r].told = told
  BY <1>4 DEF Request
<1>7. /\ req'[r].at = "told" /\ req'[r].file = req[r].file /\ KeepsSonar(r)
      /\ req'[r].refused = req[r].refused
  BY <1>4 DEF Request, KeepsSonar
<1> QED
  BY <1>2, <1>4, <1>5, <1>6, <1>7 DEF ReqTyped

LEMMA ListNamesIs ==
  ASSUME ReqTyped, NEW r \in Requests, ListActionsSecretNames(r)
  PROVE  /\ OthersRest(r) /\ req'[r].at \in {"read", "sonar project"} /\ req'[r].file = req[r].file
         /\ req'[r].since = req[r].since /\ req'[r].replaced = req[r].replaced /\ KeepsGuard(r)
         /\ req[r].unread => req'[r].unread
         /\ req'[r].at = "sonar project" => ~Configured \/ req'[r].unread
         /\ ReqTyped'
<1>1. CASE Go(r, IF Configured THEN "read" ELSE "sonar project")
  <2>1. CASE Configured
    <3>1. Go(r, "read") /\ "read" \in Places
      BY <1>1, <2>1 DEF Places, Steps
    <3>2. /\ OthersRest(r) /\ req'[r].at = "read" /\ req'[r].file = req[r].file /\ KeepsSonar(r)
          /\ KeepsGuard(r) /\ ReqTyped'
      BY <3>1, GoIs
    <3> QED
      BY <3>2 DEF KeepsSonar
  <2>2. CASE ~Configured
    <3>1. Go(r, "sonar project") /\ "sonar project" \in Places
      BY <1>1, <2>2 DEF Places, Steps
    <3> QED
      BY <2>2, <3>1, GoIs DEF KeepsSonar
  <2> QED
    BY <2>1, <2>2
<1>2. CASE req' = [req EXCEPT ![r].at = "sonar project", ![r].unread = TRUE]
  <2>1. req[r] \in Request /\ OthersRest(r) /\ req'[r] = [req[r] EXCEPT !.at = "sonar project", !.unread = TRUE]
    BY <1>2 DEF ReqTyped, OthersRest
  <2>2. req'[r] \in Request
    BY <2>1 DEF Request, Steps
  <2>3. ReqTyped'
    BY <1>2, <2>2 DEF ReqTyped
  <2> QED
    BY <2>1, <2>3 DEF Request, KeepsGuard
<1> QED
  BY <1>1, <1>2 DEF ListActionsSecretNames

LEMMA SonarSecretIs ==
  ASSUME ReqTyped, NEW r \in Requests, SetActionsSecret(r)
  PROVE  /\ OthersRest(r) /\ req'[r].at \in {AfterSecret(req[r].at), "unrow"} /\ req'[r].file = req[r].file
         /\ req'[r].unread = req[r].unread /\ req'[r].since = req[r].since /\ KeepsGuard(r)
         /\ req'[r].replaced => req[r].replaced \/ secret[req[r].at] = Owner
         /\ req'[r].at = "unrow" => "cut" \in mishap'
         /\ ReqTyped'
<1> DEFINE s == req[r].at
           Next1(step) == req' = [req EXCEPT ![r].at = step,
                            ![r].replaced = @ \/ (secret[s] = Owner /\ secret'[s] = r)]
<1>1. s \in Sonar /\ AfterSecret(s) \in Places /\ "unrow" \in Places /\ AfterSecret(s) # "unrow"
  BY DEF SetActionsSecret, Sonar, AfterSecret, Places, Steps, Secrets, Undoing
<1>2. PICK step \in {AfterSecret(s), "unrow"} : Next1(step) /\ (step = "unrow" => "cut" \in mishap')
  BY <1>1 DEF SetActionsSecret
<1>3. /\ req[r] \in Request /\ OthersRest(r) /\ step \in Places
      /\ req'[r] = [req[r] EXCEPT !.at = step, !.replaced = @ \/ (secret[s] = Owner /\ secret'[s] = r)]
  BY <1>1, <1>2 DEF ReqTyped, OthersRest
<1>4. /\ req'[r].at = step /\ req'[r].file = req[r].file
      /\ req'[r].unread = req[r].unread /\ req'[r].since = req[r].since /\ KeepsGuard(r)
      /\ req'[r].replaced => req[r].replaced \/ secret[s] = Owner
  BY <1>3 DEF Request, KeepsGuard
<1>5. req'[r] \in Request
  BY <1>3 DEF Request, Places
<1>6. ReqTyped'
  BY <1>2, <1>5 DEF ReqTyped
<1> QED
  BY <1>2, <1>3, <1>4, <1>6

LEMMA ReadIs ==
  ASSUME ReqTyped, DefaultTyped, NEW r \in Requests, ReadWorkflowFile(r)
  PROVE  /\ OthersRest(r) /\ req'[r].at = "put" /\ req'[r].file = req[r].file
         /\ KeepsSonar(r) /\ KeepsGuard(r) /\ ReqTyped'
<1>1. default[req[r].file] \in Requests \cup {NoOne}
  BY DEF ReqTyped, Request, DefaultTyped
<1>2. PICK sha \in Requests \cup {NoOne} : req' = [req EXCEPT ![r].at = "put", ![r].sha = sha]
  BY <1>1 DEF ReadWorkflowFile
<1>3. req[r] \in Request /\ OthersRest(r) /\ req'[r] = [req[r] EXCEPT !.at = "put", !.sha = sha]
  BY <1>2 DEF ReqTyped, OthersRest
<1>4. req'[r] \in Request
  BY <1>3 DEF Request, Steps
<1>5. ReqTyped'
  BY <1>2, <1>4 DEF ReqTyped
<1> QED
  BY <1>3, <1>5 DEF Request, KeepsSonar, KeepsGuard

LEMMA PushIs ==
  ASSUME ReqTyped, FlagsTyped, NEW r \in Requests, PushWorkflowFile(r)
  PROVE  /\ OthersRest(r) /\ KeepsSonar(r) /\ req'[r].told = req[r].told /\ req'[r].sure = req[r].sure
         /\ req'[r].refused => guarded \/ req[r].refused
         /\ \/ req'[r].at = "unrow"
            \/ /\ default' = [default EXCEPT ![req[r].file] = r]
               /\ crossed' = crossed \cup ({default[req[r].file]} \ {r, NoOne})
               /\ IF req[r].file = FileCount THEN req'[r].at = "uat"
                  ELSE req'[r].at = "read" /\ req'[r].file = req[r].file + 1
         /\ ReqTyped'
<1> DEFINE f == req[r].file
<1>0. req[r] \in Request /\ f \in Files
  BY DEF ReqTyped, Request
<1>1. CASE Go(r, "unrow")
  BY <1>1, GoIs DEF KeepsGuard, Places, Undoing
<1>2. CASE req' = [req EXCEPT ![r].at = "unrow", ![r].refused = guarded]
  <2>1. OthersRest(r) /\ req'[r] = [req[r] EXCEPT !.at = "unrow", !.refused = guarded]
    BY <1>2 DEF ReqTyped, OthersRest
  <2>2. "unrow" \in Places
    BY DEF Places, Undoing
  <2>3. req'[r] \in Request
    BY <1>0, <2>1, <2>2 DEF Request, Places, FlagsTyped
  <2>4. ReqTyped'
    BY <1>2, <2>3 DEF ReqTyped
  <2>5. req'[r].at = "unrow" /\ req'[r].told = req[r].told /\ req'[r].sure = req[r].sure /\ req'[r].refused = guarded
    BY <1>0, <2>1 DEF Request
  <2>6. KeepsSonar(r)
    BY <1>0, <2>1 DEF Request, KeepsSonar
  <2> QED
    BY <2>1, <2>4, <2>5, <2>6
<1>3. CASE /\ default' = [default EXCEPT ![f] = r]
           /\ crossed' = crossed \cup ({default[f]} \ {r, NoOne})
           /\ req' = [req EXCEPT ![r].at = IF f = FileCount THEN "uat" ELSE "read",
                                 ![r].file = IF f = FileCount THEN f ELSE f + 1]
  <2> DEFINE step == IF f = FileCount THEN "uat" ELSE "read"
             next == IF f = FileCount THEN f ELSE f + 1
  <2>1. step \in Places /\ next \in Files
    BY <1>0, OnboardingAssumption DEF Places, Steps, Files, OnboardingAssumption
  <2> HIDE DEF step, next
  <2>2. OthersRest(r) /\ req'[r] = [req[r] EXCEPT !.at = step, !.file = next]
    BY <1>3 DEF ReqTyped, OthersRest, step, next
  <2>3. req'[r] \in Request
    BY <1>0, <2>1, <2>2 DEF Request, Places
  <2>4. ReqTyped'
    BY <1>3, <2>3 DEF ReqTyped
  <2>5. /\ req'[r].at = step /\ req'[r].file = next /\ req'[r].told = req[r].told
        /\ req'[r].sure = req[r].sure /\ req'[r].refused = req[r].refused
    BY <1>0, <2>2 DEF Request
  <2>6. KeepsSonar(r)
    BY <1>0, <2>2 DEF Request, KeepsSonar
  <2> QED
    BY <1>3, <2>2, <2>4, <2>5, <2>6 DEF step, next
<1> QED
  BY <1>1, <1>2, <1>3 DEF PushWorkflowFile

-----------------------------------------------------------------------------
(* Type correctness.                                                       *)

LEMMA SetupTypes == ASSUME TypeOK, NEW r \in Requests, SetupStep(r) PROVE TypeOK'
<1>0. SecretTyped /\ DefaultTyped /\ FlagsTyped /\ TopicTyped /\ ReqTyped /\ PastTyped
  BY TypedParts
<1>1. ReqTyped'
  <2>1. CASE ListActionsSecretNames(r)
    BY <1>0, <2>1, ListNamesIs
  <2>2. CASE SetActionsSecret(r)
    BY <1>0, <2>2, SonarSecretIs
  <2>3. CASE ReadWorkflowFile(r)
    BY <1>0, <2>3, ReadIs
  <2>4. CASE PushWorkflowFile(r)
    BY <1>0, <2>4, PushIs
  <2>5. CASE SetActionsSecretStrict(r)
    <3>1. PICK step : step \in Places /\ Go(r, step)
      BY <2>5 DEF SetActionsSecretStrict, Own, AfterSecret, Places, Steps, Secrets, Undoing
    <3> QED
      BY <1>0, <3>1, GoIs
  <2>6. CASE SetupProject(r) \/ CreateProjectRow(r) \/ EnsureSonarCloudProject(r)
    <3>1. PICK step : step \in Places /\ Go(r, step)
      BY <2>6 DEF SetupProject, CreateProjectRow, EnsureSonarCloudProject, Places, Steps, Secrets, Own, Sonar, Ends
    <3> QED
      BY <1>0, <3>1, GoIs
  <2>7. CASE EnsureUatBranch(r) \/ UpdateStatus(r) \/ StepThrows(r) \/ DeleteProjectRow(r)
    <3>1. PICK step : step \in Places /\ Go(r, step)
      BY <2>7 DEF EnsureUatBranch, UpdateStatus, StepThrows, DeleteProjectRow, Places, Steps, Undoing, Ends
    <3> QED
      BY <1>0, <3>1, GoIs
  <2>8. CASE RemoveSetupSecrets(r) \/ Crash(r)
    <3>1. PICK step : step \in Places /\ Go(r, step)
      BY <2>8 DEF RemoveSetupSecrets, Crash, Places, Undoing, Ends
    <3> QED
      BY <1>0, <3>1, GoIs
  <2> QED
    BY <2>1, <2>2, <2>3, <2>4, <2>5, <2>6, <2>7, <2>8 DEF SetupStep
<1>2. SecretTyped'
  <2>0. UNCHANGED secret \/ \E s \in Secrets, v \in Requests \cup {NoOne} : secret' = [secret EXCEPT ![s] = v]
    BY DEF SetupStep, SetupProject, CreateProjectRow, SetActionsSecretStrict, ListActionsSecretNames,
           EnsureSonarCloudProject, SetActionsSecret, ReadWorkflowFile, PushWorkflowFile, EnsureUatBranch,
           UpdateStatus, StepThrows, DeleteProjectRow, RemoveSetupSecrets, Crash, github, Secrets, Own
  <2>1. CASE UNCHANGED secret
    BY <1>0, <2>1 DEF SecretTyped
  <2>2. ASSUME NEW s \in Secrets, NEW v \in Requests \cup {NoOne}, secret' = [secret EXCEPT ![s] = v]
        PROVE  SecretTyped'
    BY <1>0, <2>2, OnboardingAssumption DEF SecretTyped, OnboardingAssumption
  <2> QED
    BY <2>0, <2>1, <2>2
<1>3. DefaultTyped' /\ FlagsTyped'
  <2>1. CASE PushWorkflowFile(r)
    BY <1>0, <2>1 DEF PushWorkflowFile, DefaultTyped, FlagsTyped
  <2>2. CASE EnsureUatBranch(r)
    BY <1>0, <2>2 DEF EnsureUatBranch, DefaultTyped, FlagsTyped
  <2>3. CASE EnsureSonarCloudProject(r)
    BY <1>0, <2>3 DEF EnsureSonarCloudProject, github, DefaultTyped, FlagsTyped
  <2>4. UNCHANGED <<default, guarded, uat, analysis>> \/ PushWorkflowFile(r) \/ EnsureUatBranch(r)
          \/ EnsureSonarCloudProject(r)
    BY DEF SetupStep, SetupProject, CreateProjectRow, SetActionsSecretStrict, ListActionsSecretNames,
           SetActionsSecret, ReadWorkflowFile, UpdateStatus, StepThrows, DeleteProjectRow,
           RemoveSetupSecrets, Crash, github
  <2> QED
    BY <1>0, <2>1, <2>2, <2>3, <2>4 DEF DefaultTyped, FlagsTyped
<1>4. TopicTyped'
  <2>1. UNCHANGED topic
    BY DEF SetupStep, SetupProject, CreateProjectRow, SetActionsSecretStrict, ListActionsSecretNames,
           EnsureSonarCloudProject, SetActionsSecret, ReadWorkflowFile, PushWorkflowFile, EnsureUatBranch,
           UpdateStatus, StepThrows, DeleteProjectRow, RemoveSetupSecrets, Crash, github
  <2> QED
    BY <1>0, <2>1 DEF TopicTyped
<1>5. PastTyped'
  <2>1. secret["ALPHACI_TOKEN"] \in Requests \cup {NoOne}
    BY <1>0 DEF SecretTyped, Secrets, Own
  <2>2. \A f \in Files : default[f] \in Requests \cup {NoOne}
    BY <1>0 DEF DefaultTyped
  <2>3. project' \subseteq Requests
    BY <1>0 DEF PastTyped, SetupStep, SetupProject, CreateProjectRow, SetActionsSecretStrict, ListActionsSecretNames,
           EnsureSonarCloudProject, SetActionsSecret, ReadWorkflowFile, PushWorkflowFile, EnsureUatBranch,
           UpdateStatus, StepThrows, DeleteProjectRow, RemoveSetupSecrets, Crash
  <2>4. crossed' \subseteq Requests
    <3>1. CASE PushWorkflowFile(r)
      <4>1. req[r].file \in Files
        BY <1>0 DEF ReqTyped, Request
      <4> QED
        BY <1>0, <2>2, <3>1, <4>1 DEF PushWorkflowFile, PastTyped
    <3>2. ~PushWorkflowFile(r) => crossed' \in {crossed, Crosses(r)}
      BY DEF SetupStep, SetupProject, CreateProjectRow, SetActionsSecretStrict, ListActionsSecretNames,
             EnsureSonarCloudProject, SetActionsSecret, ReadWorkflowFile, EnsureUatBranch,
             UpdateStatus, StepThrows, DeleteProjectRow, RemoveSetupSecrets, Crash
    <3> QED
      BY <1>0, <2>1, <3>1, <3>2 DEF PastTyped, Crosses
  <2>5. mishap' \subseteq Mishaps
    BY <1>0 DEF PastTyped, Mishaps, Note, SetupStep, SetupProject, CreateProjectRow, SetActionsSecretStrict,
           ListActionsSecretNames, EnsureSonarCloudProject, SetActionsSecret, ReadWorkflowFile, PushWorkflowFile,
           EnsureUatBranch, UpdateStatus, StepThrows, DeleteProjectRow, RemoveSetupSecrets, Crash
  <2> QED
    BY <2>3, <2>4, <2>5 DEF PastTyped
<1> QED
  BY <1>1, <1>2, <1>3, <1>4, <1>5, TypedParts

LEMMA PullRequestTypes == ASSUME TypeOK, NEW r \in Requests, PullRequestStep(r) PROVE TypeOK'
<1>0. SecretTyped /\ DefaultTyped /\ FlagsTyped /\ TopicTyped /\ ReqTyped /\ PastTyped
  BY TypedParts
<1>1. PICK step : step \in Places /\ Go(r, step)
  BY DEF PullRequestStep, SetupPullRequest, CreateBranch, PutFileContent, CreatePullRequest, Places, Steps, Ends
<1>2. ReqTyped'
  BY <1>0, <1>1, GoIs
<1>3. TopicTyped'
  BY <1>0 DEF TopicTyped, PullRequestStep, SetupPullRequest, CreateBranch, PutFileContent, CreatePullRequest, github
<1>4. UNCHANGED <<secret, default, guarded, uat, analysis, project, crossed, mishap>>
  BY DEF PullRequestStep, SetupPullRequest, CreateBranch, PutFileContent, CreatePullRequest, github
<1> QED
  BY <1>0, <1>2, <1>3, <1>4, TypedParts DEF SecretTyped, DefaultTyped, FlagsTyped, PastTyped

\* The owner changes of a request what it was told and knows, never where it stands.
OwnerRests ==
  \A r \in Requests :
    /\ req'[r].at = req[r].at /\ req'[r].file = req[r].file /\ req'[r].told = req[r].told
    /\ req'[r].unread = req[r].unread /\ req'[r].replaced = req[r].replaced
    /\ req'[r].refused = req[r].refused /\ (req'[r].sure => req[r].sure)
    /\ req[r].since => req'[r].since

LEMMA OwnerIs ==
  ASSUME ReqTyped, OwnerStep
  PROVE  /\ OwnerRests /\ ReqTyped'
         /\ ChangeProtection => \A r \in Requests : ~req'[r].sure
         /\ ConfigureSonar => \A r \in Requests : At(r, "sonar project") \/ req[r].at \in Sonar => req'[r].since
<1> DEFINE looked(r) == req[r].at \in {"sonar project"} \cup Sonar
<1>1. ASSUME ConfigureSonar
      PROVE  OwnerRests /\ ReqTyped' /\ \A r \in Requests : looked(r) => req'[r].since
  <2>1. ASSUME NEW r \in Requests
        PROVE  req'[r] \in Request /\ req'[r] = [req[r] EXCEPT !.since = @ \/ looked(r)]
    BY <1>1 DEF ConfigureSonar, ReqTyped, Request
  <2>2. ASSUME NEW r \in Requests
        PROVE  /\ req'[r].at = req[r].at /\ req'[r].file = req[r].file /\ req'[r].told = req[r].told
               /\ req'[r].unread = req[r].unread /\ req'[r].replaced = req[r].replaced
               /\ req'[r].refused = req[r].refused /\ req'[r].sure = req[r].sure
               /\ req'[r].since = (req[r].since \/ looked(r))
    BY <2>1 DEF ReqTyped, Request
  <2>3. req' \in [Requests -> Request]
    BY <1>1, <2>1 DEF ConfigureSonar
  <2> QED
    BY <2>2, <2>3 DEF OwnerRests, ReqTyped
<1>2. ASSUME ChangeProtection
      PROVE  OwnerRests /\ ReqTyped' /\ \A r \in Requests : ~req'[r].sure
  <2>1. ASSUME NEW r \in Requests
        PROVE  req'[r] \in Request /\ req'[r] = [req[r] EXCEPT !.sure = FALSE]
    BY <1>2 DEF ChangeProtection, ReqTyped, Request
  <2>2. OwnerRests /\ \A r \in Requests : ~req'[r].sure
    BY <2>1 DEF OwnerRests, ReqTyped, Request
  <2>3. req' \in [Requests -> Request]
    BY <1>2, <2>1 DEF ChangeProtection
  <2> QED
    BY <2>2, <2>3 DEF ReqTyped
<1>3. ASSUME ClosePullRequest \/ DeleteTopic PROVE OwnerRests /\ ReqTyped'
  BY <1>3 DEF ClosePullRequest, DeleteTopic, OwnerRests, ReqTyped
<1> QED
  BY <1>1, <1>2, <1>3 DEF OwnerStep, At

LEMMA NextTypes == ASSUME TypeOK, [Next]_vars PROVE TypeOK'
<1>0. SecretTyped /\ DefaultTyped /\ FlagsTyped /\ TopicTyped /\ ReqTyped /\ PastTyped
  BY TypedParts
<1>1. CASE OwnerStep
  <2>1. ReqTyped'
    BY <1>0, <1>1, OwnerIs
  <2>2. SecretTyped'
    <3>1. CASE ConfigureSonar
      BY <1>0, <3>1 DEF ConfigureSonar, SecretTyped, Secrets, Own, Sonar
    <3>2. ConfigureSonar \/ UNCHANGED secret
      BY <1>1 DEF OwnerStep, ChangeProtection, ClosePullRequest, DeleteTopic
    <3> QED
      BY <1>0, <3>1, <3>2 DEF SecretTyped
  <2>3. DefaultTyped' /\ FlagsTyped'
    BY <1>0, <1>1 DEF OwnerStep, ConfigureSonar, ChangeProtection, ClosePullRequest, DeleteTopic, DefaultTyped, FlagsTyped
  <2>4. TopicTyped'
    <3>1. CASE ClosePullRequest
      BY <1>0, <3>1 DEF ClosePullRequest, TopicTyped
    <3>2. CASE DeleteTopic
      BY <3>2 DEF DeleteTopic, TopicTyped, NoTopic
    <3>3. CASE UNCHANGED topic
      BY <1>0, <3>3 DEF TopicTyped
    <3> QED
      BY <1>1, <3>1, <3>2, <3>3 DEF OwnerStep, ConfigureSonar, ChangeProtection
  <2>5. PastTyped'
    BY <1>0, <1>1 DEF OwnerStep, ConfigureSonar, ChangeProtection, ClosePullRequest, DeleteTopic, PastTyped, Note, Mishaps
  <2> QED
    BY <2>1, <2>2, <2>3, <2>4, <2>5, TypedParts
<1>2. ASSUME NEW r \in Requests, Discover(r) PROVE TypeOK'
  <2>1. ReqTyped' /\ UNCHANGED <<secret, default, guarded, uat, topic, analysis, project, crossed, mishap>>
    BY <1>0, <1>2, DiscoverIs DEF Discover, github
  <2> QED
    BY <1>0, <2>1, TypedParts DEF SecretTyped, DefaultTyped, FlagsTyped, TopicTyped, PastTyped
<1>3. CASE UNCHANGED vars
  BY <1>3 DEF vars, TypeOK
<1> QED
  BY <1>1, <1>2, <1>3, SetupTypes, PullRequestTypes DEF Next

LEMMA InitTypes == ASSUME Init PROVE TypeOK
<1>1. ReqTyped
  BY IdleTypes DEF Init, ReqTyped
<1>2. SecretTyped
  BY OnboardingAssumption DEF Init, SecretTyped, Secrets, Own, Sonar, OnboardingAssumption
<1>3. DefaultTyped /\ FlagsTyped /\ TopicTyped /\ PastTyped
  BY DEF Init, DefaultTyped, FlagsTyped, TopicTyped, PastTyped, NoTopic
<1> QED
  BY <1>1, <1>2, <1>3, TypedParts

-----------------------------------------------------------------------------
(* The inductive invariants.                                               *)

\* A set-up has its row from the first secret on until it takes it back, and a request
\* that has not got so far, or is for a pull request, has none; the files come last.
Setting == Own \cup {"names", "sonar project"} \cup Sonar \cup {"read", "put", "uat", "status"}
Placed(r) ==
  /\ req[r].at \in Setting \cup {"unrow"} => r \in project
  /\ req[r].at \in {"idle", "told", "row", "branch", "file", "pull"} => r \notin project
  /\ req[r].at \in {"idle", "told", "row", "names", "sonar project"} \cup Secrets => req[r].file = 1

\* A token or an address in the repository is of a set-up that has its row, or is about
\* to take it back.
Owned(s) ==
  "kept" \notin mishap /\ secret[s] \in Requests
    => \/ secret[s] \in project
       \/ At(secret[s], "untoken")
       \/ At(secret[s], "unurl") /\ s = "ALPHACI_REPORT_URL"

\* SonarCloud's secrets are written in order, once its project is there.
Ours(s) == secret[s] \in Requests
Writing(r) == req[r].at \in Sonar
SonarInv ==
  {"cut", "refused", "meanwhile"} \cap mishap = {}
    => /\ \A r \in Requests : Writing(r) => analysis
       /\ \A s \in Sonar : Ours(s) => analysis
       /\ \A r \in Requests : At(r, "SONAR_ORGANIZATION") => Ours("SONAR_TOKEN")
       /\ \A r \in Requests : At(r, "SONAR_PROJECT_KEY") => Ours("SONAR_TOKEN") /\ Ours("SONAR_ORGANIZATION")
       /\ \/ \A s \in Sonar : secret[s] = NoOne
          \/ \A s \in Sonar : secret[s] = Owner
          \/ \A s \in Sonar : Ours(s)
          \/ \E r \in Requests : Writing(r)

\* Past a step, what it wrote is there, unless another set-up came across it.
PastToken == {"ALPHACI_REPORT_URL", "names", "sonar project", "read", "put", "uat", "status", "done"} \cup Sonar
Connected(r) ==
  r \in project /\ r \notin crossed
    => /\ req[r].at \in PastToken => secret["ALPHACI_TOKEN"] = r
       /\ req[r].at \in {"read", "put"} => \A f \in Files : f < req[r].file => default[f] = r
       /\ req[r].at \in {"uat", "status", "done"} => \A f \in Files : default[f] = r

\* The branch is of the set-up by pull request that is under way, until it is deleted.
TopicInv ==
  /\ topic.maker = NoOne => topic = NoTopic
  /\ "deleted" \notin mishap
       => /\ \A r \in Requests : req[r].at \in {"file", "pull"} => topic.maker = r /\ topic.pull = NoOne
          /\ \A r \in Requests : At(r, "pull") => topic.file = r
          /\ topic.pull # NoOne => topic.file = topic.pull

\* Who has looked and found none meets none of the owner's secrets, and who was told of
\* the guard was told right.
OwnersAll == (\E s \in Sonar : secret[s] = Owner) => \A s \in Sonar : secret[s] # NoOne
Told(r) ==
  /\ req[r].at \in {"sonar project"} \cup Sonar /\ ~req[r].unread /\ ~req[r].since
       => \A s \in Sonar : secret[s] # Owner
  /\ req[r].sure => ("branch_protected" \in req[r].told <=> guarded)
  /\ req[r].replaced => req[r].unread \/ req[r].since
  /\ req[r].refused /\ req[r].sure => "branch_protected" \in req[r].told
  /\ At(r, "idle") => ~req[r].refused

IInv ==
  /\ \A r \in Requests : Placed(r) /\ Connected(r) /\ Told(r)
  /\ \A s \in Own : Owned(s)
  /\ SonarInv /\ TopicInv /\ OwnersAll

-----------------------------------------------------------------------------
(* The steps keep them.  A request that stays where it is, with what it    *)
(* looks at, keeps its part.                                               *)

Acting == \E r \in Requests : Discover(r) \/ SetupStep(r) \/ PullRequestStep(r)

LEMMA PlacedKept ==
  ASSUME TypeOK, \A q \in Requests : Placed(q), [Next]_vars
  PROVE  \A q \in Requests : Placed(q)'
<1>0. ReqTyped /\ DefaultTyped /\ FlagsTyped
  BY TypedParts
<1>1. ASSUME NEW r \in Requests, OthersRest(r), Placed(r)', project' \ {r} = project \ {r}
      PROVE  \A q \in Requests : Placed(q)'
  BY <1>1 DEF Placed, OthersRest
<1>2. ASSUME NEW r \in Requests, SetupStep(r) PROVE \A q \in Requests : Placed(q)'
  <2>0. Placed(r)
    OBVIOUS
  <2>1. CASE SetupProject(r)
    <3>1. OthersRest(r) /\ req'[r].at = "row" /\ req'[r].file = req[r].file
      BY <1>0, <2>1, GoIs DEF SetupProject
    <3>2. Placed(r)'
      BY <2>0, <2>1, <3>1 DEF SetupProject, Placed, Setting, Own, Sonar
    <3> QED
      BY <1>1, <2>1, <3>1, <3>2 DEF SetupProject
  <2>2. CASE CreateProjectRow(r)
    <3>1. OthersRest(r) /\ req'[r].at \in {"ALPHACI_TOKEN", "gone"} /\ req'[r].file = req[r].file
      BY <1>0, <2>2, GoIs DEF CreateProjectRow
    <3>2. Placed(r)'
      BY <2>0, <2>2, <3>1 DEF CreateProjectRow, At, Placed, Setting, Own, Sonar, Secrets
    <3> QED
      BY <1>1, <2>2, <3>1, <3>2 DEF CreateProjectRow
  <2>3. CASE SetActionsSecretStrict(r)
    <3>1. OthersRest(r) /\ req'[r].at \in {"ALPHACI_REPORT_URL", "names", "unrow"} /\ req'[r].file = req[r].file
      BY <1>0, <2>3, GoIs DEF SetActionsSecretStrict, Own, AfterSecret
    <3>2. Placed(r)'
      BY <2>0, <2>3, <3>1 DEF SetActionsSecretStrict, Placed, Setting, Own, Sonar, Secrets
    <3> QED
      BY <1>1, <2>3, <3>1, <3>2 DEF SetActionsSecretStrict
  <2>4. CASE ListActionsSecretNames(r)
    <3>1. OthersRest(r) /\ req'[r].at \in {"read", "sonar project"} /\ req'[r].file = req[r].file
      BY <1>0, <2>4, ListNamesIs
    <3>2. Placed(r)'
      BY <2>0, <2>4, <3>1 DEF ListActionsSecretNames, At, Placed, Setting, Own, Sonar, Secrets
    <3> QED
      BY <1>1, <2>4, <3>1, <3>2 DEF ListActionsSecretNames
  <2>5. CASE EnsureSonarCloudProject(r)
    <3>1. OthersRest(r) /\ req'[r].at = "SONAR_TOKEN" /\ req'[r].file = req[r].file
      BY <1>0, <2>5, GoIs DEF EnsureSonarCloudProject
    <3>2. Placed(r)'
      BY <2>0, <2>5, <3>1 DEF EnsureSonarCloudProject, At, Placed, Setting, Own, Sonar, Secrets
    <3> QED
      BY <1>1, <2>5, <3>1, <3>2 DEF EnsureSonarCloudProject
  <2>6. CASE SetActionsSecret(r)
    <3>1. /\ OthersRest(r) /\ req'[r].file = req[r].file
          /\ req'[r].at \in {"SONAR_ORGANIZATION", "SONAR_PROJECT_KEY", "read", "unrow"}
      BY <1>0, <2>6, SonarSecretIs DEF SetActionsSecret, AfterSecret, Sonar
    <3>2. Placed(r)'
      BY <2>0, <2>6, <3>1 DEF SetActionsSecret, Placed, Setting, Own, Sonar, Secrets
    <3> QED
      BY <1>1, <2>6, <3>1, <3>2 DEF SetActionsSecret
  <2>7. CASE ReadWorkflowFile(r)
    <3>1. OthersRest(r) /\ req'[r].at = "put"
      BY <1>0, <2>7, ReadIs
    <3>2. Placed(r)'
      BY <2>0, <2>7, <3>1 DEF ReadWorkflowFile, At, Placed, Setting, Own, Sonar, Secrets
    <3> QED
      BY <1>1, <2>7, <3>1, <3>2 DEF ReadWorkflowFile
  <2>8. CASE PushWorkflowFile(r)
    <3>1. OthersRest(r) /\ req'[r].at \in {"unrow", "uat", "read"}
      BY <1>0, <2>8, PushIs
    <3>2. Placed(r)'
      BY <2>0, <2>8, <3>1 DEF PushWorkflowFile, At, Placed, Setting, Own, Sonar, Secrets
    <3> QED
      BY <1>1, <2>8, <3>1, <3>2 DEF PushWorkflowFile
  <2>9. CASE EnsureUatBranch(r) \/ UpdateStatus(r) \/ StepThrows(r)
    <3>1. OthersRest(r) /\ req'[r].at \in {"status", "done", "unrow"} /\ project' = project /\ r \in project
      BY <1>0, <2>0, <2>9, GoIs DEF EnsureUatBranch, UpdateStatus, StepThrows, At, Placed, Setting
    <3>2. Placed(r)'
      BY <3>1 DEF Placed, Secrets, Own, Sonar
    <3> QED
      BY <1>1, <3>1, <3>2
  <2>10. CASE DeleteProjectRow(r) \/ RemoveSetupSecrets(r) \/ Crash(r)
    <3>1. OthersRest(r) /\ req'[r].at \in {"untoken", "unurl", "failed", "gone"} /\ project' \ {r} = project \ {r}
      BY <1>0, <2>10, GoIs DEF DeleteProjectRow, RemoveSetupSecrets, Crash
    <3>2. Placed(r)'
      BY <3>1 DEF Placed, Setting, Secrets, Own, Sonar
    <3> QED
      BY <1>1, <3>1, <3>2
  <2> QED
    BY <1>2, <2>1, <2>2, <2>3, <2>4, <2>5, <2>6, <2>7, <2>8, <2>9, <2>10 DEF SetupStep
<1>3. ASSUME NEW r \in Requests, PullRequestStep(r) PROVE \A q \in Requests : Placed(q)'
  <2>1. /\ OthersRest(r) /\ req'[r].at \in {"branch", "file", "pull", "failed", "done"}
        /\ project' = project /\ r \notin project
    <3>1. req[r].at \in {"idle", "told", "branch", "file", "pull"}
      BY <1>3 DEF PullRequestStep, SetupPullRequest, CreateBranch, PutFileContent, CreatePullRequest, At
    <3>2. \E step \in {"branch", "file", "pull", "failed", "done"} : Go(r, step)
      BY <1>3 DEF PullRequestStep, SetupPullRequest, CreateBranch, PutFileContent, CreatePullRequest
    <3>3. project' = project
      BY <1>3 DEF PullRequestStep, SetupPullRequest, CreateBranch, PutFileContent, CreatePullRequest
    <3> QED
      BY <1>0, <3>1, <3>2, <3>3, GoIs DEF Placed
  <2>2. Placed(r)'
    BY <2>1 DEF Placed, Setting, Secrets, Own, Sonar
  <2> QED
    BY <1>1, <2>1, <2>2
<1>4. ASSUME NEW r \in Requests, Discover(r) PROVE \A q \in Requests : Placed(q)'
  <2>1. OthersRest(r) /\ req'[r].at = "told" /\ req'[r].file = req[r].file /\ At(r, "idle") /\ project' = project
    BY <1>0, <1>4, DiscoverIs DEF Discover
  <2>2. Placed(r)'
    BY <2>1 DEF Placed, Setting, Secrets, Own, Sonar, At
  <2> QED
    BY <1>1, <2>1, <2>2
<1>5. CASE OwnerStep
  <2>1. OwnerRests /\ project' = project
    BY <1>0, <1>5, OwnerIs DEF OwnerStep, ConfigureSonar, ChangeProtection, ClosePullRequest, DeleteTopic
  <2> QED
    BY <2>1 DEF OwnerRests, Placed
<1>6. CASE UNCHANGED vars
  BY <1>6 DEF vars, Placed
<1> QED
  BY <1>2, <1>3, <1>4, <1>5, <1>6 DEF Next

LEMMA OwnedKept ==
  ASSUME TypeOK, \A q \in Requests : Placed(q), \A s \in Own : Owned(s), [Next]_vars
  PROVE  \A s \in Own : Owned(s)'
<1> DEFINE Holds(q, s) == q \in project \/ At(q, "untoken") \/ (At(q, "unurl") /\ s = "ALPHACI_REPORT_URL")
<1>0. ReqTyped /\ DefaultTyped /\ FlagsTyped /\ SecretTyped
  BY TypedParts
<1>1. ASSUME NEW r \in Requests, OthersRest(r), mishap \subseteq mishap', project' \ {r} = project \ {r},
             \A s \in Own : secret'[s] = secret[s],
             \A s \in Own : "kept" \notin mishap' /\ Holds(r, s) => Holds(r, s)'
      PROVE  \A s \in Own : Owned(s)'
  BY <1>1 DEF Owned, OthersRest, At
<1>2. ASSUME NEW r \in Requests, OthersRest(r), mishap \subseteq mishap', project \subseteq project',
             project' \ {r} = project \ {r}, \A s \in Own : secret'[s] = secret[s],
             ~At(r, "untoken"), ~At(r, "unurl")
      PROVE  \A s \in Own : Owned(s)'
  BY <1>1, <1>2
<1>3. ASSUME NEW r \in Requests, SetupStep(r) PROVE \A s \in Own : Owned(s)'
  <2>1. CASE SetActionsSecretStrict(r)
    <3>1. OthersRest(r) /\ project' = project /\ mishap' = mishap /\ r \in project
      BY <1>0, <2>1, GoIs DEF SetActionsSecretStrict, Placed, Setting
    <3>2. PICK s \in Own : secret' = [secret EXCEPT ![s] = r]
      BY <2>1 DEF SetActionsSecretStrict
    <3>3. \A q \in Requests : At(q, "untoken") \/ At(q, "unurl") => q # r
      BY <2>1 DEF SetActionsSecretStrict, At, Own
    <3>4. ASSUME NEW t \in Own PROVE Owned(t)'
      <4>1. CASE t = s
        BY <1>0, <3>1, <3>2, <4>1 DEF Owned, SecretTyped, Secrets
      <4>2. CASE t # s
        <5>1. secret'[t] = secret[t] /\ Owned(t)
          BY <1>0, <3>2, <4>2 DEF SecretTyped, Secrets
        <5> QED
          BY <3>1, <3>3, <5>1 DEF Owned, At, OthersRest
      <4> QED
        BY <4>1, <4>2
    <3> QED
      BY <3>4
  <2>2. CASE RemoveSetupSecrets(r) /\ "kept" \in mishap'
    BY <2>2 DEF Owned
  <2>3. CASE RemoveSetupSecrets(r) /\ "kept" \notin mishap'
    <3>1. OthersRest(r) /\ req'[r].at = IF At(r, "untoken") THEN "unurl" ELSE "failed"
      BY <1>0, <2>3, GoIs DEF RemoveSetupSecrets
    <3>2. PICK s \in Own : /\ s = IF At(r, "untoken") THEN "ALPHACI_TOKEN" ELSE "ALPHACI_REPORT_URL"
                          /\ secret' = [secret EXCEPT ![s] = NoOne] /\ mishap' = mishap /\ project' = project
      BY <2>3 DEF RemoveSetupSecrets, Own
    <3>3. \A t \in Own \ {s} : secret'[t] = secret[t]
      BY <3>2
    <3>4. Owned(s)'
      BY <1>0, <3>2, OnboardingAssumption DEF Owned, SecretTyped, Secrets, Own, OnboardingAssumption
    <3>5. ASSUME NEW t \in Own \ {s} PROVE Owned(t)'
      <4>1. Holds(r, t) => Holds(r, t)'
        BY <2>3, <3>1, <3>2, <3>5 DEF RemoveSetupSecrets, Own, At
      <4>2. \A q \in Requests \ {r} : Holds(q, t) => Holds(q, t)'
        BY <3>1, <3>2 DEF OthersRest, At
      <4>3. secret[t] \in Requests => Holds(secret[t], t)
        BY <2>3, <3>2 DEF Owned
      <4>4. secret[t] \in Requests => Holds(secret[t], t)'
        BY <3>3, <3>5, <4>1, <4>2, <4>3
      <4> QED
        BY <3>3, <3>5, <4>4 DEF Owned, At
    <3> QED
      BY <3>4, <3>5
  <2>4. CASE DeleteProjectRow(r)
    <3>1. OthersRest(r) /\ req'[r].at = "untoken" /\ secret' = secret /\ mishap' = mishap /\ project' \ {r} = project \ {r}
      BY <1>0, <2>4, GoIs DEF DeleteProjectRow, github
    <3> QED
      BY <1>1, <3>1 DEF At
  <2>5. CASE Crash(r)
    <3>1. OthersRest(r) /\ secret' = secret /\ mishap \subseteq mishap' /\ project' = project
      BY <1>0, <2>5, GoIs DEF Crash, github
    <3>2. At(r, "untoken") \/ At(r, "unurl") => "kept" \in mishap'
      BY <2>5 DEF Crash, At
    <3>3. CASE At(r, "untoken") \/ At(r, "unurl")
      BY <3>2, <3>3 DEF Owned
    <3> QED
      BY <1>2, <3>1, <3>3
  <2>6. CASE CreateProjectRow(r) \/ SetupProject(r)
    <3>1. OthersRest(r) /\ secret' = secret /\ mishap' = mishap /\ project \subseteq project'
          /\ project' \ {r} = project \ {r} /\ ~At(r, "untoken") /\ ~At(r, "unurl")
      BY <1>0, <2>6, GoIs DEF CreateProjectRow, SetupProject, github, At
    <3> QED
      BY <1>2, <3>1
  <2>7. CASE ListActionsSecretNames(r)
    <3>1. OthersRest(r) /\ secret' = secret /\ mishap' = mishap /\ project' = project
          /\ ~At(r, "untoken") /\ ~At(r, "unurl")
      BY <1>0, <2>7, ListNamesIs DEF ListActionsSecretNames, github, At
    <3> QED
      BY <1>2, <3>1
  <2>8. CASE SetActionsSecret(r)
    <3>1. OthersRest(r) /\ mishap \subseteq mishap' /\ project' = project /\ ~At(r, "untoken") /\ ~At(r, "unurl")
      BY <1>0, <2>8, SonarSecretIs DEF SetActionsSecret, Note, At, Sonar
    <3>2. \A s \in Own : secret'[s] = secret[s]
      <4>1. req[r].at \in Sonar /\ secret' \in {secret, [secret EXCEPT ![req[r].at] = r]}
        BY <2>8 DEF SetActionsSecret
      <4>2. \A s \in Own : s \notin Sonar
        BY DEF Own, Sonar
      <4>3. CASE secret' = secret
        BY <4>3
      <4>4. CASE secret' = [secret EXCEPT ![req[r].at] = r]
        BY <1>0, <4>1, <4>2, <4>4 DEF SecretTyped, Secrets
      <4> QED
        BY <4>1, <4>3, <4>4
    <3> QED
      BY <1>2, <3>1, <3>2
  <2>9. CASE ReadWorkflowFile(r)
    <3>1. OthersRest(r) /\ secret' = secret /\ mishap' = mishap /\ project' = project
          /\ ~At(r, "untoken") /\ ~At(r, "unurl")
      BY <1>0, <2>9, ReadIs DEF ReadWorkflowFile, github, At
    <3> QED
      BY <1>2, <3>1
  <2>10. CASE PushWorkflowFile(r)
    <3>1. OthersRest(r) /\ secret' = secret /\ mishap' = mishap /\ project' = project
          /\ ~At(r, "untoken") /\ ~At(r, "unurl")
      BY <1>0, <2>10, PushIs DEF PushWorkflowFile, At
    <3> QED
      BY <1>2, <3>1
  <2>11. CASE EnsureSonarCloudProject(r) \/ EnsureUatBranch(r) \/ UpdateStatus(r) \/ StepThrows(r)
    <3>1. OthersRest(r) /\ secret' = secret /\ mishap \subseteq mishap' /\ project' = project
          /\ ~At(r, "untoken") /\ ~At(r, "unurl")
      BY <1>0, <2>11, GoIs DEF EnsureSonarCloudProject, EnsureUatBranch, UpdateStatus, StepThrows, github, At, Own, Note
    <3> QED
      BY <1>2, <3>1
  <2> QED
    BY <1>3, <2>1, <2>2, <2>3, <2>4, <2>5, <2>6, <2>7, <2>8, <2>9, <2>10, <2>11 DEF SetupStep
<1>4. ASSUME NEW r \in Requests, PullRequestStep(r) \/ Discover(r) PROVE \A s \in Own : Owned(s)'
  <2>1. secret' = secret /\ mishap' = mishap /\ project' = project /\ ~At(r, "untoken") /\ ~At(r, "unurl")
    BY <1>4 DEF PullRequestStep, SetupPullRequest, CreateBranch, PutFileContent, CreatePullRequest, Discover,
                github, At
  <2>2. (\E step : Go(r, step)) \/ Discover(r)
    BY <1>4 DEF PullRequestStep, SetupPullRequest, CreateBranch, PutFileContent, CreatePullRequest
  <2>3. OthersRest(r)
    BY <1>0, <2>2, GoIs, DiscoverIs
  <2> QED
    BY <1>2, <2>1, <2>3
<1>5. CASE OwnerStep
  <2>1. OwnerRests /\ project' = project /\ mishap \subseteq mishap'
    BY <1>0, <1>5, OwnerIs DEF OwnerStep, ConfigureSonar, ChangeProtection, ClosePullRequest, DeleteTopic, Note
  <2>2. \A s \in Own : secret'[s] = secret[s]
    BY <1>0, <1>5 DEF OwnerStep, ConfigureSonar, ChangeProtection, ClosePullRequest, DeleteTopic, SecretTyped, Secrets,
                Own, Sonar
  <2> QED
    BY <2>1, <2>2 DEF OwnerRests, Owned, At
<1>6. CASE UNCHANGED vars
  BY <1>6 DEF vars, Owned, At
<1> QED
  BY <1>3, <1>4, <1>5, <1>6 DEF Next

LEMMA SonarKept == ASSUME TypeOK, SonarInv, [Next]_vars PROVE SonarInv'
<1> DEFINE Clean == {"cut", "refused", "meanwhile"} \cap mishap = {}
<1>0. ReqTyped /\ DefaultTyped /\ FlagsTyped /\ SecretTyped
  BY TypedParts
<1>1. mishap \subseteq mishap'
  BY DEF Next, OwnerStep, ConfigureSonar, ChangeProtection, ClosePullRequest, DeleteTopic, Discover, SetupStep,
         SetupProject, CreateProjectRow, SetActionsSecretStrict, ListActionsSecretNames, EnsureSonarCloudProject,
         SetActionsSecret, ReadWorkflowFile, PushWorkflowFile, EnsureUatBranch, UpdateStatus, StepThrows,
         DeleteProjectRow, RemoveSetupSecrets, Crash, PullRequestStep, SetupPullRequest, CreateBranch,
         PutFileContent, CreatePullRequest, Note, vars
<1>2. SUFFICES ASSUME Clean, Clean' PROVE SonarInv'
  BY <1>1 DEF SonarInv
<1>3. ASSUME NEW r \in Requests, OthersRest(r), ~Writing(r), ~Writing(r)', analysis => analysis',
             \A s \in Sonar : secret'[s] = secret[s]
      PROVE  SonarInv'
  BY <1>2, <1>3 DEF SonarInv, OthersRest, Writing, Ours, At, Sonar
<1>4. ASSUME NEW r \in Requests, SetupStep(r) PROVE SonarInv'
  <2>1. CASE EnsureSonarCloudProject(r)
    <3>1. OthersRest(r) /\ req'[r].at = "SONAR_TOKEN" /\ secret' = secret /\ ~Writing(r)
      BY <1>0, <2>1, GoIs DEF EnsureSonarCloudProject, github, At, Writing, Sonar
    <3>2. analysis'
      <4>1. "refused" \notin mishap'
        BY <1>2
      <4>2. CASE UNCHANGED analysis /\ Note(~analysis, "refused")
        BY <4>1, <4>2 DEF Note
      <4> QED
        BY <2>1, <4>2 DEF EnsureSonarCloudProject
    <3>3. Writing(r)'
      BY <3>1 DEF Writing, Sonar
    <3> QED
      BY <1>2, <3>1, <3>2, <3>3 DEF SonarInv, OthersRest, Writing, Ours, At
  <2>2. CASE SetActionsSecret(r)
    <3> DEFINE s == req[r].at
    <3>1. OthersRest(r) /\ req'[r].at = AfterSecret(s) /\ s \in Sonar /\ analysis' = analysis
      BY <1>0, <1>2, <2>2, SonarSecretIs DEF SetActionsSecret
    <3>2. PICK at \in Sonar : at = s
      BY <3>1
    <3>3. secret' = [secret EXCEPT ![at] = r] \/ (secret' = secret /\ Ours(at))
      BY <1>2, <2>2, <3>2 DEF SetActionsSecret, Note, Ours
    <3>4. \A t \in Sonar \ {at} : secret'[t] = secret[t]
      BY <1>0, <3>3 DEF SecretTyped, Secrets
    <3>5. secret'[at] \in Requests
      BY <1>0, <3>2, <3>3 DEF SecretTyped, Secrets, Ours
    <3>6. analysis /\ analysis'
      BY <1>2, <3>1, <3>2 DEF SonarInv, Writing
    <3>7. \A t \in Sonar : Ours(t) => Ours(t)'
      BY <3>4, <3>5 DEF Ours
    <3>8. \A q \in Requests \ {r} : req'[q] = req[q]
      BY <3>1 DEF OthersRest
    <3>9. CASE at = "SONAR_TOKEN"
      <4>1. req'[r].at = "SONAR_ORGANIZATION" /\ Ours("SONAR_TOKEN")'
        BY <3>1, <3>2, <3>5, <3>9 DEF AfterSecret, Ours
      <4>2. Writing(r)'
        BY <4>1 DEF Writing, Sonar
      <4> QED
        BY <1>2, <3>6, <3>7, <3>8, <4>1, <4>2 DEF SonarInv, At, Sonar
    <3>10. CASE at = "SONAR_ORGANIZATION"
      <4>1. /\ req'[r].at = "SONAR_PROJECT_KEY" /\ Ours("SONAR_TOKEN") /\ Ours("SONAR_ORGANIZATION")'
        BY <1>2, <3>1, <3>2, <3>5, <3>10 DEF AfterSecret, Ours, SonarInv, At
      <4>2. Writing(r)'
        BY <4>1 DEF Writing, Sonar
      <4> QED
        BY <1>2, <3>6, <3>7, <3>8, <4>1, <4>2 DEF SonarInv, At, Sonar
    <3>11. CASE at = "SONAR_PROJECT_KEY"
      <4>1. req'[r].at = "read" /\ Ours("SONAR_TOKEN") /\ Ours("SONAR_ORGANIZATION") /\ Ours("SONAR_PROJECT_KEY")'
        BY <1>2, <3>1, <3>2, <3>5, <3>11 DEF AfterSecret, Ours, SonarInv, At
      <4>2. \A t \in Sonar : Ours(t)'
        BY <3>7, <4>1 DEF Sonar
      <4> QED
        BY <1>2, <3>6, <3>7, <3>8, <4>1, <4>2 DEF SonarInv, At, Sonar
    <3> QED
      BY <3>9, <3>10, <3>11 DEF Sonar
  <2>3. CASE SetActionsSecretStrict(r)
    <3>1. /\ OthersRest(r) /\ req'[r].at \in {"ALPHACI_REPORT_URL", "names", "unrow"} /\ analysis' = analysis
          /\ req[r].at \in Own
      BY <1>0, <2>3, GoIs DEF SetActionsSecretStrict, AfterSecret, Own
    <3>2. \A s \in Sonar : secret'[s] = secret[s]
      BY <1>0, <2>3 DEF SetActionsSecretStrict, SecretTyped, Secrets, Own, Sonar
    <3> QED
      BY <1>3, <3>1, <3>2 DEF Writing, Own, Sonar
  <2>4. CASE RemoveSetupSecrets(r)
    <3>1. OthersRest(r) /\ req'[r].at \in {"unurl", "failed"} /\ analysis' = analysis /\ req[r].at \in {"untoken", "unurl"}
      BY <1>0, <2>4, GoIs DEF RemoveSetupSecrets
    <3>2. \A s \in Sonar : secret'[s] = secret[s]
      BY <1>0, <2>4 DEF RemoveSetupSecrets, SecretTyped, Secrets, Own, Sonar
    <3> QED
      BY <1>3, <3>1, <3>2 DEF Writing, Sonar
  <2>5. CASE ListActionsSecretNames(r)
    <3>1. OthersRest(r) /\ req'[r].at \in {"read", "sonar project"} /\ analysis' = analysis /\ secret' = secret /\ At(r, "names")
      BY <1>0, <2>5, ListNamesIs DEF ListActionsSecretNames, github
    <3> QED
      BY <1>3, <3>1 DEF Writing, Sonar, At
  <2>6. CASE ReadWorkflowFile(r)
    <3>1. OthersRest(r) /\ req'[r].at = "put" /\ analysis' = analysis /\ secret' = secret /\ At(r, "read")
      BY <1>0, <2>6, ReadIs DEF ReadWorkflowFile, github
    <3> QED
      BY <1>3, <3>1 DEF Writing, Sonar, At
  <2>7. CASE PushWorkflowFile(r)
    <3>1. /\ OthersRest(r) /\ req'[r].at \in {"unrow", "uat", "read"} /\ analysis' = analysis /\ secret' = secret
          /\ At(r, "put")
      BY <1>0, <2>7, PushIs DEF PushWorkflowFile
    <3> QED
      BY <1>3, <3>1 DEF Writing, Sonar, At
  <2>8. CASE Crash(r)
    <3>1. OthersRest(r) /\ req'[r].at = "gone" /\ analysis' = analysis /\ secret' = secret
      BY <1>0, <2>8, GoIs DEF Crash, github
    <3>2. ~Writing(r)
      BY <1>2, <2>8 DEF Crash, Writing
    <3> QED
      BY <1>3, <3>1, <3>2 DEF Writing, Sonar
  <2>9. CASE SetupProject(r) \/ CreateProjectRow(r) \/ EnsureUatBranch(r) \/ UpdateStatus(r) \/ StepThrows(r)
               \/ DeleteProjectRow(r)
    <3>1. /\ OthersRest(r) /\ analysis' = analysis /\ secret' = secret
          /\ req'[r].at \in {"row", "ALPHACI_TOKEN", "gone", "status", "done", "unrow", "untoken"}
          /\ req[r].at \in {"idle", "told", "row", "uat", "status", "read", "put", "unrow"} \cup Own
      BY <1>0, <2>9, GoIs DEF SetupProject, CreateProjectRow, EnsureUatBranch, UpdateStatus, StepThrows,
                             DeleteProjectRow, github, At
    <3> QED
      BY <1>3, <3>1 DEF Writing, Sonar, Own
  <2> QED
    BY <1>4, <2>1, <2>2, <2>3, <2>4, <2>5, <2>6, <2>7, <2>8, <2>9 DEF SetupStep
<1>5. ASSUME NEW r \in Requests, PullRequestStep(r) \/ Discover(r) PROVE SonarInv'
  <2>1. /\ secret' = secret /\ analysis' = analysis
        /\ req[r].at \in {"idle", "told", "branch", "file", "pull"}
    BY <1>5 DEF PullRequestStep, SetupPullRequest, CreateBranch, PutFileContent, CreatePullRequest, Discover,
                github, At
  <2>2. (\E step \in {"branch", "file", "pull", "failed", "done"} : Go(r, step)) \/ Discover(r)
    BY <1>5 DEF PullRequestStep, SetupPullRequest, CreateBranch, PutFileContent, CreatePullRequest
  <2>3. OthersRest(r) /\ req'[r].at \in {"branch", "file", "pull", "failed", "done", "told"}
    BY <1>0, <2>2, GoIs, DiscoverIs
  <2> QED
    BY <1>3, <2>1, <2>3 DEF Writing, Sonar
<1>6. CASE OwnerStep
  <2>1. OwnerRests /\ analysis' = analysis
    BY <1>0, <1>6, OwnerIs DEF OwnerStep, ConfigureSonar, ChangeProtection, ClosePullRequest, DeleteTopic
  <2>2. CASE ConfigureSonar
    <3>1. \A q \in Requests : ~Writing(q)
      BY <1>2, <2>2 DEF ConfigureSonar, Note, Writing
    <3>2. \A s \in Sonar : secret'[s] = Owner
      BY <2>2 DEF ConfigureSonar, Secrets
    <3> QED
      BY <2>1, <3>1, <3>2, OnboardingAssumption DEF OwnerRests, SonarInv, Writing, Ours, At, Sonar, OnboardingAssumption
  <2>3. CASE secret' = secret
    BY <1>2, <2>1, <2>3 DEF OwnerRests, SonarInv, Writing, Ours, At
  <2> QED
    BY <1>6, <2>2, <2>3 DEF OwnerStep, ChangeProtection, ClosePullRequest, DeleteTopic
<1>7. CASE UNCHANGED vars
  BY <1>2, <1>7 DEF vars, SonarInv, Writing, Ours, At
<1> QED
  BY <1>4, <1>5, <1>6, <1>7 DEF Next

LEMMA ConnectedKept ==
  ASSUME TypeOK, \A q \in Requests : Placed(q) /\ Connected(q), [Next]_vars
  PROVE  \A q \in Requests : Connected(q)'
<1>0. ReqTyped /\ DefaultTyped /\ FlagsTyped /\ SecretTyped
  BY TypedParts
<1>6. \A q \in Requests : req[q].file \in Nat /\ req[q].file \in Files /\ FileCount \in Nat
  BY <1>0, OnboardingAssumption DEF ReqTyped, Request, Files, OnboardingAssumption
<1>7. \A f \in Files : ~(f < 1)
  BY OnboardingAssumption DEF Files, OnboardingAssumption
<1>1. ASSUME NEW r \in Requests, OthersRest(r), Connected(r)', crossed \subseteq crossed', project' \ {r} = project \ {r},
             secret'["ALPHACI_TOKEN"] = secret["ALPHACI_TOKEN"], default' = default
      PROVE  \A q \in Requests : Connected(q)'
  BY <1>1 DEF Connected, OthersRest
<1>2. ASSUME NEW r \in Requests, SetupStep(r) PROVE \A q \in Requests : Connected(q)'
  <2>0. Connected(r) /\ Placed(r)
    OBVIOUS
  <2>1. CASE SetActionsSecretStrict(r)
    <3>1. OthersRest(r) /\ project' = project /\ default' = default /\ crossed' = Crosses(r)
      BY <1>0, <2>1, GoIs DEF SetActionsSecretStrict
    <3>2. \/ At(r, "ALPHACI_TOKEN") /\ secret'["ALPHACI_TOKEN"] = r
          \/ At(r, "ALPHACI_REPORT_URL") /\ secret'["ALPHACI_TOKEN"] = secret["ALPHACI_TOKEN"]
      BY <1>0, <2>1 DEF SetActionsSecretStrict, Own, At, SecretTyped, Secrets
    <3>3. req'[r].at \in {"ALPHACI_REPORT_URL", "names", "unrow"}
      BY <1>0, <2>1, GoIs DEF SetActionsSecretStrict, AfterSecret, Own
    <3>4. Connected(r)'
      BY <2>0, <3>1, <3>2, <3>3 DEF Connected, PastToken, At, Sonar, Crosses
    <3>5. ASSUME NEW q \in Requests, q # r PROVE Connected(q)'
      <4>1. Connected(q) /\ req'[q] = req[q]
        BY <3>1, <3>5 DEF OthersRest
      <4>2. q \notin crossed' => q \notin crossed /\ (q # NoOne => secret["ALPHACI_TOKEN"] # q)
        BY <3>1, <3>5 DEF Crosses
      <4>3. q # NoOne
        BY OnboardingAssumption DEF OnboardingAssumption
      <4> QED
        BY <3>1, <4>1, <4>2, <4>3 DEF Connected
    <3> QED
      BY <3>4, <3>5
  <2>2. CASE RemoveSetupSecrets(r)
    <3>1. OthersRest(r) /\ project' = project /\ default' = default /\ crossed' = Crosses(r)
      BY <1>0, <2>2, GoIs DEF RemoveSetupSecrets
    <3>2. req'[r].at \in {"unurl", "failed"}
      BY <1>0, <2>2, GoIs DEF RemoveSetupSecrets
    <3>3. Connected(r)'
      BY <3>2 DEF Connected, PastToken, Sonar
    <3>4. ASSUME NEW q \in Requests, q # r PROVE Connected(q)'
      <4>1. Connected(q) /\ req'[q] = req[q]
        BY <3>1, <3>4 DEF OthersRest
      <4>2. q \notin crossed' => q \notin crossed /\ (q # NoOne => secret["ALPHACI_TOKEN"] # q)
        BY <3>1, <3>4 DEF Crosses
      <4>3. q # NoOne
        BY OnboardingAssumption DEF OnboardingAssumption
      <4> QED
        BY <3>1, <4>1, <4>2, <4>3 DEF Connected
    <3> QED
      BY <3>3, <3>4
  <2>3. CASE PushWorkflowFile(r)
    <3> DEFINE f == req[r].file
    <3>1. /\ OthersRest(r) /\ secret' = secret /\ project' = project /\ crossed \subseteq crossed' /\ At(r, "put")
      BY <1>0, <2>3, PushIs DEF PushWorkflowFile
    <3>2. CASE req'[r].at = "unrow"
      <4>1. Connected(r)'
        BY <3>2 DEF Connected, PastToken, Sonar
      <4>2. default' = default \/ (default' = [default EXCEPT ![f] = r] /\ crossed' = crossed \cup ({default[f]} \ {r, NoOne}))
        BY <2>3 DEF PushWorkflowFile
      <4>3. CASE default' = default
        BY <1>1, <3>1, <4>1, <4>3
      <4>4. CASE default' = [default EXCEPT ![f] = r] /\ crossed' = crossed \cup ({default[f]} \ {r, NoOne})
        <5>1. ASSUME NEW q \in Requests, q # r PROVE Connected(q)'
          <6>1. Connected(q) /\ req'[q] = req[q] /\ q # NoOne
            BY <3>1, <5>1, OnboardingAssumption DEF OthersRest, OnboardingAssumption
          <6>2. q \notin crossed' => q \notin crossed /\ \A g \in Files : default[g] = q => default'[g] = q
            BY <1>0, <4>4, <5>1, <6>1 DEF DefaultTyped
          <6> QED
            BY <3>1, <6>1, <6>2 DEF Connected
        <5> QED
          BY <4>1, <5>1
      <4> QED
        BY <4>2, <4>3, <4>4
    <3>3. CASE /\ default' = [default EXCEPT ![f] = r]
               /\ crossed' = crossed \cup ({default[f]} \ {r, NoOne})
               /\ IF f = FileCount THEN req'[r].at = "uat"
                  ELSE req'[r].at = "read" /\ req'[r].file = f + 1
      <4>1. ASSUME NEW q \in Requests, q # r PROVE Connected(q)'
        <5>1. Connected(q) /\ req'[q] = req[q] /\ q # NoOne
          BY <3>1, <4>1, OnboardingAssumption DEF OthersRest, OnboardingAssumption
        <5>2. q \notin crossed' => q \notin crossed /\ \A g \in Files : default[g] = q => default'[g] = q
          BY <1>0, <3>3, <4>1, <5>1 DEF DefaultTyped
        <5> QED
          BY <3>1, <5>1, <5>2 DEF Connected
      <4>2. ASSUME r \in project', r \notin crossed'
            PROVE  secret["ALPHACI_TOKEN"] = r /\ \A g \in Files : g < f => default[g] = r
        BY <2>0, <3>1, <4>2 DEF Connected, At, PastToken
      <4>3. \A g \in Files : (g <= f /\ (g < f => default[g] = r)) => default'[g] = r
        BY <1>0, <1>6, <3>3 DEF DefaultTyped, Files
      <4>4. \A g \in Files : (f = FileCount => g <= f) /\ (g < f + 1 => g <= f)
        BY <1>6 DEF Files
      <4>5. Connected(r)'
        <5>1. r \in project' /\ r \notin crossed'
                => /\ secret'["ALPHACI_TOKEN"] = r
                   /\ req'[r].at = "uat" => \A g \in Files : default'[g] = r
                   /\ req'[r].at = "read" => \A g \in Files : g < req'[r].file => default'[g] = r
          BY <3>1, <3>3, <4>2, <4>3, <4>4
        <5>2. req'[r].at \in {"uat", "read"}
          BY <3>3
        <5> QED
          BY <5>1, <5>2 DEF Connected
      <4> QED
        BY <4>1, <4>5
    <3> QED
      BY <1>0, <2>3, <3>2, <3>3, PushIs
  <2>4. CASE ListActionsSecretNames(r)
    <3>1. /\ OthersRest(r) /\ req'[r].at \in {"read", "sonar project"} /\ req'[r].file = req[r].file /\ At(r, "names")
          /\ UNCHANGED <<secret, default, project, crossed>>
      BY <1>0, <2>4, ListNamesIs DEF ListActionsSecretNames, github
    <3>2. req'[r].file = 1
      BY <2>0, <3>1 DEF Placed, At
    <3>3. Connected(r)'
      BY <2>0, <3>1, <3>2, <1>7 DEF Connected, At, PastToken, Sonar
    <3> QED
      BY <1>1, <3>1, <3>3
  <2>5. CASE EnsureSonarCloudProject(r)
    <3>1. OthersRest(r) /\ req'[r].at = "SONAR_TOKEN" /\ UNCHANGED <<secret, default, project, crossed>> /\ At(r, "sonar project")
      BY <1>0, <2>5, GoIs DEF EnsureSonarCloudProject, github
    <3>2. Connected(r)'
      BY <2>0, <3>1 DEF Connected, At, PastToken
    <3> QED
      BY <1>1, <3>1, <3>2
  <2>6. CASE SetActionsSecret(r)
    <3>1. /\ OthersRest(r) /\ req'[r].file = req[r].file /\ req[r].at \in Sonar
          /\ req'[r].at \in {"SONAR_ORGANIZATION", "SONAR_PROJECT_KEY", "read", "unrow"}
          /\ UNCHANGED <<default, project, crossed>>
      BY <1>0, <2>6, SonarSecretIs DEF SetActionsSecret, AfterSecret, Sonar
    <3>2. secret'["ALPHACI_TOKEN"] = secret["ALPHACI_TOKEN"]
      <4>1. "ALPHACI_TOKEN" \notin Sonar /\ "ALPHACI_TOKEN" \in Secrets
        BY DEF Sonar, Secrets, Own
      <4>2. CASE secret' = [secret EXCEPT ![req[r].at] = r]
        BY <1>0, <3>1, <4>1, <4>2 DEF SecretTyped
      <4> QED
        BY <2>6, <4>2 DEF SetActionsSecret
    <3>3. req'[r].file = 1
      BY <2>0, <3>1 DEF Placed, Secrets
    <3>4. Connected(r)'
      BY <2>0, <3>1, <3>2, <3>3, <1>7 DEF Connected, PastToken, Sonar
    <3> QED
      BY <1>1, <3>1, <3>2, <3>4
  <2>7. CASE ReadWorkflowFile(r)
    <3>1. /\ OthersRest(r) /\ req'[r].at = "put" /\ req'[r].file = req[r].file /\ At(r, "read")
          /\ UNCHANGED <<secret, default, project, crossed>>
      BY <1>0, <2>7, ReadIs DEF ReadWorkflowFile, github
    <3>2. Connected(r)'
      BY <2>0, <3>1 DEF Connected, At, PastToken, Sonar
    <3> QED
      BY <1>1, <3>1, <3>2
  <2>8. CASE EnsureUatBranch(r) \/ UpdateStatus(r)
    <3>1. /\ OthersRest(r) /\ req'[r].at \in {"status", "done"} /\ req[r].at \in {"uat", "status"}
          /\ UNCHANGED <<secret, default, project, crossed>>
      BY <1>0, <2>8, GoIs DEF EnsureUatBranch, UpdateStatus, At, github
    <3>2. Connected(r)'
      BY <2>0, <3>1 DEF Connected, PastToken, Sonar
    <3> QED
      BY <1>1, <3>1, <3>2
  <2>9. CASE SetupProject(r) \/ CreateProjectRow(r) \/ StepThrows(r) \/ DeleteProjectRow(r) \/ Crash(r)
    <3>1. /\ OthersRest(r) /\ req'[r].at \in {"row", "ALPHACI_TOKEN", "gone", "unrow", "untoken"}
          /\ UNCHANGED <<secret, default, crossed>> /\ project' \ {r} = project \ {r}
      BY <1>0, <2>9, GoIs DEF SetupProject, CreateProjectRow, StepThrows, DeleteProjectRow, Crash, github
    <3>2. Connected(r)'
      BY <3>1 DEF Connected, PastToken, Sonar
    <3> QED
      BY <1>1, <3>1, <3>2
  <2> QED
    BY <1>2, <2>1, <2>2, <2>3, <2>4, <2>5, <2>6, <2>7, <2>8, <2>9 DEF SetupStep
<1>3. ASSUME NEW r \in Requests, PullRequestStep(r) \/ Discover(r) PROVE \A q \in Requests : Connected(q)'
  <2>1. /\ UNCHANGED <<secret, default, project, crossed>>
        /\ req[r].at \in {"idle", "told", "branch", "file", "pull"}
    BY <1>3 DEF PullRequestStep, SetupPullRequest, CreateBranch, PutFileContent, CreatePullRequest, Discover,
                github, At
  <2>2. (\E step : Go(r, step)) \/ Discover(r)
    BY <1>3 DEF PullRequestStep, SetupPullRequest, CreateBranch, PutFileContent, CreatePullRequest
  <2>3. OthersRest(r) /\ Connected(r)'
    BY <1>0, <2>1, <2>2, GoIs, DiscoverIs DEF Placed, Connected
  <2> QED
    BY <1>1, <2>1, <2>3
<1>4. CASE OwnerStep
  <2>1. OwnerRests /\ UNCHANGED <<default, project, crossed>>
    BY <1>0, <1>4, OwnerIs DEF OwnerStep, ConfigureSonar, ChangeProtection, ClosePullRequest, DeleteTopic
  <2>2. secret'["ALPHACI_TOKEN"] = secret["ALPHACI_TOKEN"]
    BY <1>0, <1>4 DEF OwnerStep, ConfigureSonar, ChangeProtection, ClosePullRequest, DeleteTopic, SecretTyped, Secrets,
                Own, Sonar
  <2> QED
    BY <2>1, <2>2 DEF OwnerRests, Connected
<1>5. CASE UNCHANGED vars
  BY <1>5 DEF vars, Connected
<1> QED
  BY <1>2, <1>3, <1>4, <1>5 DEF Next

LEMMA TopicKept == ASSUME TypeOK, TopicInv, [Next]_vars PROVE TopicInv'
<1>0. ReqTyped /\ DefaultTyped /\ FlagsTyped /\ TopicTyped
  BY TypedParts
<1> DEFINE Under(q) == req[q].at \in {"file", "pull"}
<1>1. ASSUME NEW r \in Requests, OthersRest(r), ~Under(r)', topic' = topic, mishap \subseteq mishap'
      PROVE  TopicInv'
  BY <1>1 DEF TopicInv, OthersRest, At
<1>2. ASSUME NEW r \in Requests, SetupStep(r) \/ Discover(r) PROVE TopicInv'
  <2>1. topic' = topic /\ mishap \subseteq mishap'
    BY <1>2 DEF Discover, SetupStep, SetupProject, CreateProjectRow, SetActionsSecretStrict, ListActionsSecretNames,
           EnsureSonarCloudProject, SetActionsSecret, ReadWorkflowFile, PushWorkflowFile, EnsureUatBranch,
           UpdateStatus, StepThrows, DeleteProjectRow, RemoveSetupSecrets, Crash, Note, github
  <2>2. OthersRest(r) /\ ~Under(r)'
    <3>1. CASE ListActionsSecretNames(r) \/ ReadWorkflowFile(r) \/ PushWorkflowFile(r) \/ Discover(r)
      BY <1>0, <3>1, ListNamesIs, ReadIs, PushIs, DiscoverIs
    <3>2. CASE SetActionsSecret(r)
      BY <1>0, <3>2, SonarSecretIs DEF SetActionsSecret, AfterSecret, Sonar
    <3>3. CASE SetActionsSecretStrict(r)
      BY <1>0, <3>3, GoIs DEF SetActionsSecretStrict, AfterSecret, Own
    <3>4. CASE SetupProject(r) \/ CreateProjectRow(r) \/ EnsureSonarCloudProject(r) \/ EnsureUatBranch(r)
                 \/ UpdateStatus(r) \/ StepThrows(r)
      <4>1. \E step \in {"row", "ALPHACI_TOKEN", "gone", "SONAR_TOKEN", "status", "done", "unrow"} : Go(r, step)
        BY <3>4 DEF SetupProject, CreateProjectRow, EnsureSonarCloudProject, EnsureUatBranch, UpdateStatus, StepThrows
      <4> QED
        BY <1>0, <4>1, GoIs
    <3>5. CASE DeleteProjectRow(r) \/ RemoveSetupSecrets(r) \/ Crash(r)
      <4>1. \E step \in {"untoken", "unurl", "failed", "gone"} : Go(r, step)
        BY <3>5 DEF DeleteProjectRow, RemoveSetupSecrets, Crash
      <4> QED
        BY <1>0, <4>1, GoIs
    <3> QED
      BY <1>2, <3>1, <3>2, <3>3, <3>4, <3>5 DEF SetupStep
  <2> QED
    BY <1>1, <2>1, <2>2
<1>3. ASSUME NEW r \in Requests, SetupPullRequest(r) PROVE TopicInv'
  <2>1. OthersRest(r) /\ req'[r].at = "branch" /\ topic' = topic /\ mishap' = mishap
    BY <1>0, <1>3, GoIs DEF SetupPullRequest, github
  <2> QED
    BY <1>1, <2>1
<1>4. ASSUME NEW r \in Requests, CreateBranch(r) PROVE TopicInv'
  <2>1. OthersRest(r) /\ req'[r].at \in {"file", "failed"} /\ mishap' = mishap
    BY <1>0, <1>4, GoIs DEF CreateBranch
  <2>2. CASE topic.maker # NoOne
    <3>1. topic' = topic /\ req'[r].at = "failed"
      BY <1>0, <1>4, <2>2, GoIs DEF CreateBranch
    <3> QED
      BY <1>1, <2>1, <3>1
  <2>3. CASE topic.maker = NoOne
    <3>1. topic = NoTopic /\ ("deleted" \notin mishap => \A q \in Requests : ~Under(q))
      BY <2>3, OnboardingAssumption DEF TopicInv, OnboardingAssumption
    <3>2. topic'.maker = r /\ topic'.file = NoOne /\ topic'.pull = NoOne /\ r # NoOne
      BY <1>4, <2>3, <3>1, OnboardingAssumption DEF CreateBranch, NoTopic, OnboardingAssumption
    <3> QED
      BY <2>1, <3>1, <3>2 DEF TopicInv, OthersRest, At
  <2> QED
    BY <2>2, <2>3
<1>5. ASSUME NEW r \in Requests, PutFileContent(r) PROVE TopicInv'
  <2>1. OthersRest(r) /\ req'[r].at \in {"pull", "failed"} /\ mishap' = mishap /\ Under(r)
    BY <1>0, <1>5, GoIs DEF PutFileContent, At
  <2>2. CASE topic.maker = NoOne
    <3>1. topic' = topic /\ req'[r].at = "failed"
      BY <1>0, <1>5, <2>2, GoIs DEF PutFileContent
    <3> QED
      BY <1>1, <2>1, <3>1
  <2>3. CASE topic.maker # NoOne
    <3>1. topic'.maker = topic.maker /\ topic'.file = r /\ topic'.pull = topic.pull
      BY <1>0, <1>5, <2>3 DEF PutFileContent, TopicTyped
    <3>2. "deleted" \notin mishap => topic.maker = r /\ topic.pull = NoOne /\ \A q \in Requests : Under(q) => q = r
      BY <2>1 DEF TopicInv
    <3> QED
      BY <2>1, <2>3, <3>1, <3>2 DEF TopicInv, OthersRest, At
  <2> QED
    BY <2>2, <2>3
<1>6. ASSUME NEW r \in Requests, CreatePullRequest(r) PROVE TopicInv'
  <2>1. OthersRest(r) /\ req'[r].at \in {"done", "failed"} /\ mishap' = mishap /\ At(r, "pull")
    BY <1>0, <1>6, GoIs DEF CreatePullRequest
  <2>2. CASE topic.maker = NoOne \/ topic.pull # NoOne
    <3>1. topic' = topic
      BY <1>6, <2>2 DEF CreatePullRequest
    <3> QED
      BY <1>1, <2>1, <3>1
  <2>3. CASE ~(topic.maker = NoOne \/ topic.pull # NoOne)
    <3>1. topic'.maker = topic.maker /\ topic'.file = topic.file /\ topic'.pull = r
      BY <1>0, <1>6, <2>3 DEF CreatePullRequest, TopicTyped
    <3>2. "deleted" \notin mishap => topic.file = r /\ \A q \in Requests : Under(q) => q = r
      BY <2>1 DEF TopicInv, At
    <3> QED
      BY <2>1, <2>3, <3>1, <3>2 DEF TopicInv, OthersRest, At
  <2> QED
    BY <2>2, <2>3
<1>7. CASE OwnerStep
  <2>1. OwnerRests
    BY <1>0, <1>7, OwnerIs
  <2>2. CASE ClosePullRequest
    <3>1. /\ topic'.maker = topic.maker /\ topic'.file = topic.file /\ topic'.pull = NoOne
          /\ topic.pull # NoOne /\ mishap' = mishap
      BY <1>0, <2>2 DEF ClosePullRequest, TopicTyped
    <3>2. topic.maker # NoOne
      BY <3>1 DEF TopicInv, NoTopic
    <3> QED
      BY <2>1, <3>1, <3>2 DEF TopicInv, OwnerRests, At
  <2>3. CASE DeleteTopic
    <3>1. topic' = NoTopic /\ topic'.pull = NoOne
      BY <2>3 DEF DeleteTopic, NoTopic
    <3>2. "deleted" \notin mishap' => \A q \in Requests : ~Under(q)
      BY <2>3 DEF DeleteTopic, Note
    <3> QED
      BY <2>1, <3>1, <3>2 DEF TopicInv, OwnerRests, At
  <2>4. CASE ConfigureSonar \/ ChangeProtection
    <3>1. topic' = topic /\ mishap \subseteq mishap'
      BY <2>4 DEF ConfigureSonar, ChangeProtection, Note
    <3> QED
      BY <2>1, <3>1 DEF TopicInv, OwnerRests, At
  <2> QED
    BY <1>7, <2>2, <2>3, <2>4 DEF OwnerStep
<1>8. CASE UNCHANGED vars
  BY <1>8 DEF vars, TopicInv, At
<1> QED
  BY <1>2, <1>3, <1>4, <1>5, <1>6, <1>7, <1>8 DEF Next, PullRequestStep

LEMMA ToldKept ==
  ASSUME TypeOK, \A q \in Requests : Told(q), OwnersAll, [Next]_vars
  PROVE  OwnersAll' /\ \A q \in Requests : Told(q)'
<1>0. ReqTyped /\ DefaultTyped /\ FlagsTyped /\ SecretTyped
  BY TypedParts
<1> DEFINE Looked(q) == req[q].at \in {"sonar project"} \cup Sonar
           Fewer == \A s \in Sonar : (secret'[s] = Owner => secret[s] = Owner) /\ (secret[s] # NoOne => secret'[s] # NoOne)
<1>1. ASSUME Fewer PROVE OwnersAll'
  BY <1>1 DEF OwnersAll
<1>2. ASSUME NEW r \in Requests, OthersRest(r), Told(r)', Fewer, guarded' = guarded
      PROVE  OwnersAll' /\ \A q \in Requests : Told(q)'
  BY <1>1, <1>2 DEF OthersRest, Told, At
<1>3. ASSUME NEW r \in Requests, SetupStep(r) PROVE OwnersAll' /\ \A q \in Requests : Told(q)'
  <2>0. guarded' = guarded
    BY <1>3 DEF SetupStep, SetupProject, CreateProjectRow, SetActionsSecretStrict, ListActionsSecretNames,
           EnsureSonarCloudProject, SetActionsSecret, ReadWorkflowFile, PushWorkflowFile, EnsureUatBranch,
           UpdateStatus, StepThrows, DeleteProjectRow, RemoveSetupSecrets, Crash, github
  <2>1. CASE ListActionsSecretNames(r)
    <3>1. /\ OthersRest(r) /\ req'[r].at \in {"read", "sonar project"}
          /\ req'[r].since = req[r].since /\ req'[r].replaced = req[r].replaced /\ KeepsGuard(r)
          /\ req[r].unread => req'[r].unread
          /\ req'[r].at = "sonar project" => ~Configured \/ req'[r].unread
          /\ secret' = secret
      BY <1>0, <2>1, ListNamesIs DEF ListActionsSecretNames, github
    <3>2. ~Configured => \A s \in Sonar : secret[s] # Owner
      BY OnboardingAssumption DEF Configured, OwnersAll, Sonar, OnboardingAssumption
    <3>3. Told(r)'
      BY <2>0, <3>1, <3>2 DEF Told, KeepsGuard, Sonar, At
    <3> QED
      BY <1>2, <2>0, <3>1, <3>3
  <2>2. CASE EnsureSonarCloudProject(r)
    <3>1. /\ OthersRest(r) /\ req'[r].at = "SONAR_TOKEN" /\ KeepsSonar(r) /\ KeepsGuard(r)
          /\ secret' = secret /\ At(r, "sonar project")
      BY <1>0, <2>2, GoIs DEF EnsureSonarCloudProject, github
    <3>2. Told(r)'
      BY <2>0, <3>1 DEF Told, KeepsSonar, KeepsGuard, At
    <3> QED
      BY <1>2, <2>0, <3>1, <3>2
  <2>3. CASE SetActionsSecret(r)
    <3>1. /\ OthersRest(r) /\ req'[r].unread = req[r].unread /\ req'[r].since = req[r].since /\ KeepsGuard(r)
          /\ req'[r].replaced => req[r].replaced \/ secret[req[r].at] = Owner
          /\ req[r].at \in Sonar /\ req'[r].at # "idle"
      BY <1>0, <2>3, SonarSecretIs DEF SetActionsSecret, AfterSecret, Sonar
    <3>2. secret' = secret \/ secret' = [secret EXCEPT ![req[r].at] = r]
      BY <2>3 DEF SetActionsSecret
    <3>3. r # Owner /\ r # NoOne
      BY OnboardingAssumption DEF OnboardingAssumption
    <3>4. Fewer
      BY <1>0, <3>1, <3>2, <3>3 DEF SecretTyped, Secrets
    <3>5. ~req[r].unread /\ ~req[r].since => secret[req[r].at] # Owner /\ \A s \in Sonar : secret[s] # Owner
      BY <3>1 DEF Told
    <3>6. Told(r)'
      BY <2>0, <3>1, <3>4, <3>5 DEF Told, KeepsGuard, At
    <3> QED
      BY <1>2, <2>0, <3>1, <3>4, <3>6
  <2>4. CASE PushWorkflowFile(r)
    <3>1. /\ OthersRest(r) /\ KeepsSonar(r) /\ req'[r].told = req[r].told /\ req'[r].sure = req[r].sure
          /\ req'[r].refused => guarded \/ req[r].refused
          /\ req'[r].at \in {"unrow", "uat", "read"} /\ secret' = secret
      BY <1>0, <2>4, PushIs DEF PushWorkflowFile
    <3>2. Told(r)'
      BY <2>0, <3>1 DEF Told, KeepsSonar, Sonar, At
    <3> QED
      BY <1>2, <2>0, <3>1, <3>2
  <2>5. CASE ~(ListActionsSecretNames(r) \/ EnsureSonarCloudProject(r) \/ SetActionsSecret(r) \/ PushWorkflowFile(r))
    <3>1. OthersRest(r) /\ KeepsSonar(r) /\ KeepsGuard(r) /\ ~Looked(r)' /\ req'[r].at # "idle"
      <4>1. CASE ReadWorkflowFile(r)
        BY <1>0, <4>1, ReadIs DEF Sonar
      <4>2. CASE SetActionsSecretStrict(r)
        <5>1. \E step \in {"ALPHACI_REPORT_URL", "names", "unrow"} : Go(r, step)
          BY <4>2 DEF SetActionsSecretStrict, AfterSecret, Own
        <5> QED
          BY <1>0, <5>1, GoIs DEF Sonar
      <4>3. CASE SetupProject(r) \/ CreateProjectRow(r) \/ EnsureUatBranch(r) \/ UpdateStatus(r) \/ StepThrows(r)
        <5>1. \E step \in {"row", "ALPHACI_TOKEN", "gone", "status", "done", "unrow"} : Go(r, step)
          BY <4>3 DEF SetupProject, CreateProjectRow, EnsureUatBranch, UpdateStatus, StepThrows
        <5> QED
          BY <1>0, <5>1, GoIs DEF Sonar
      <4>4. CASE DeleteProjectRow(r) \/ RemoveSetupSecrets(r) \/ Crash(r)
        <5>1. \E step \in {"untoken", "unurl", "failed", "gone"} : Go(r, step)
          BY <4>4 DEF DeleteProjectRow, RemoveSetupSecrets, Crash
        <5> QED
          BY <1>0, <5>1, GoIs DEF Sonar
      <4> QED
        BY <1>3, <2>5, <4>1, <4>2, <4>3, <4>4 DEF SetupStep
    <3>2. \A s \in Sonar : secret'[s] = secret[s]
      <4>1. CASE SetActionsSecretStrict(r)
        BY <1>0, <4>1 DEF SetActionsSecretStrict, SecretTyped, Secrets, Own, Sonar
      <4>2. CASE RemoveSetupSecrets(r)
        BY <1>0, <4>2 DEF RemoveSetupSecrets, SecretTyped, Secrets, Own, Sonar
      <4> QED
        BY <1>3, <2>5, <4>1, <4>2 DEF SetupStep, SetupProject, CreateProjectRow, ReadWorkflowFile, EnsureUatBranch,
             UpdateStatus, StepThrows, DeleteProjectRow, Crash, github
    <3>3. Told(r)'
      BY <2>0, <3>1 DEF Told, KeepsSonar, KeepsGuard, At
    <3> QED
      BY <1>2, <2>0, <3>1, <3>2, <3>3
  <2> QED
    BY <2>1, <2>2, <2>3, <2>4, <2>5
<1>4. ASSUME NEW r \in Requests, PullRequestStep(r) PROVE OwnersAll' /\ \A q \in Requests : Told(q)'
  <2>1. \E step \in {"branch", "file", "pull", "failed", "done"} : Go(r, step)
    BY <1>4 DEF PullRequestStep, SetupPullRequest, CreateBranch, PutFileContent, CreatePullRequest
  <2>2. OthersRest(r) /\ KeepsSonar(r) /\ KeepsGuard(r) /\ ~Looked(r)' /\ req'[r].at # "idle"
    BY <1>0, <2>1, GoIs DEF Sonar
  <2>3. secret' = secret /\ guarded' = guarded
    BY <1>4 DEF PullRequestStep, SetupPullRequest, CreateBranch, PutFileContent, CreatePullRequest, github
  <2>4. Told(r)'
    BY <2>2, <2>3 DEF Told, KeepsSonar, KeepsGuard, At
  <2> QED
    BY <1>2, <2>2, <2>3, <2>4
<1>5. ASSUME NEW r \in Requests, Discover(r) PROVE OwnersAll' /\ \A q \in Requests : Told(q)'
  <2>1. /\ OthersRest(r) /\ req'[r].at = "told" /\ KeepsSonar(r) /\ req'[r].refused = req[r].refused
        /\ req'[r].sure => ("branch_protected" \in req'[r].told <=> guarded)
        /\ secret' = secret /\ guarded' = guarded
    BY <1>0, <1>5, DiscoverIs DEF Discover, github
  <2>2. At(r, "idle") /\ ~req[r].refused
    BY <1>5 DEF Discover, Told
  <2>3. Told(r)'
    BY <2>1, <2>2 DEF Told, KeepsSonar, Sonar, At
  <2> QED
    BY <1>2, <2>1, <2>3
<1>6. CASE OwnerStep
  <2>1. OwnerRests
    BY <1>0, <1>6, OwnerIs
  <2>2. CASE ConfigureSonar
    <3>1. \A s \in Sonar : secret'[s] = Owner
      BY <2>2 DEF ConfigureSonar, Secrets
    <3>2. \A q \in Requests : Looked(q) => req'[q].since
      BY <1>0, <1>6, <2>2, OwnerIs DEF At
    <3>3. guarded' = guarded
      BY <2>2 DEF ConfigureSonar
    <3>4. OwnersAll'
      BY <3>1, OnboardingAssumption DEF OwnersAll, OnboardingAssumption
    <3>5. ASSUME NEW q \in Requests PROVE Told(q)'
      <4>1. Told(q)
        OBVIOUS
      <4> QED
        BY <2>1, <3>2, <3>3, <4>1 DEF OwnerRests, Told, At
    <3> QED
      BY <3>4, <3>5
  <2>3. CASE ChangeProtection
    <3>1. secret' = secret /\ \A q \in Requests : ~req'[q].sure
      BY <1>0, <1>6, <2>3, OwnerIs DEF ChangeProtection
    <3>2. ASSUME NEW q \in Requests PROVE Told(q)'
      <4>1. Told(q)
        OBVIOUS
      <4> QED
        BY <2>1, <3>1, <4>1 DEF OwnerRests, Told, At
    <3> QED
      BY <3>1, <3>2 DEF OwnersAll
  <2>4. CASE ClosePullRequest \/ DeleteTopic
    <3>1. UNCHANGED <<secret, guarded, req>>
      BY <2>4 DEF ClosePullRequest, DeleteTopic
    <3> QED
      BY <3>1 DEF OwnersAll, Told, At
  <2> QED
    BY <1>6, <2>2, <2>3, <2>4 DEF OwnerStep
<1>7. CASE UNCHANGED vars
  BY <1>7 DEF vars, OwnersAll, Told, At
<1> QED
  BY <1>3, <1>4, <1>5, <1>6, <1>7 DEF Next

-----------------------------------------------------------------------------
(* The theorems.                                                           *)

LEMMA Inductive == Spec => [](TypeOK /\ IInv)
<1>1. Init => TypeOK /\ IInv
  <2>1. SUFFICES ASSUME Init PROVE IInv
    BY InitTypes
  <2>2. \A r \in Requests : req[r] = Idle
    BY <2>1 DEF Init
  <2>3. \A r \in Requests : Placed(r) /\ Connected(r) /\ Told(r)
    <3>1. project = {}
      BY <2>1 DEF Init
    <3>2. \A r \in Requests : /\ req[r].at = "idle" /\ req[r].file = 1
                            /\ ~req[r].sure /\ ~req[r].replaced /\ ~req[r].refused
      BY <2>2 DEF Idle
    <3> QED
      BY <3>1, <3>2 DEF Placed, Setting, Own, Sonar, Secrets, Connected, Told, At
  <2>4. (\A s \in Secrets : secret[s] = NoOne) \/ ((\A s \in Own : secret[s] = NoOne) /\ \A s \in Sonar : secret[s] = Owner)
    <3>1. PICK set \in {{}, Sonar} : secret = [s \in Secrets |-> IF s \in set THEN Owner ELSE NoOne]
      BY <2>1 DEF Init
    <3> QED
      BY <3>1 DEF Secrets, Own, Sonar
  <2>5. \A s \in Own : Owned(s)
    BY <2>4, OnboardingAssumption DEF Owned, Secrets, OnboardingAssumption
  <2>6. SonarInv /\ OwnersAll
    BY <2>2, <2>4, OnboardingAssumption
    DEF SonarInv, OwnersAll, Writing, Ours, At, Idle, Secrets, Sonar, OnboardingAssumption
  <2>7. TopicInv
    BY <2>1, <2>2 DEF Init, TopicInv, NoTopic, At, Idle
  <2> QED
    BY <2>3, <2>5, <2>6, <2>7 DEF IInv
<1>2. (TypeOK /\ IInv) /\ [Next]_vars => (TypeOK /\ IInv)'
  BY NextTypes, PlacedKept, OwnedKept, SonarKept, ConnectedKept, TopicKept, ToldKept DEF IInv
<1> QED
  BY <1>1, <1>2, PTL DEF Spec

(* When no set-up runs, the token and the report address are of a project  *)
(* that is there, and SonarCloud's three secrets are of one hand; every    *)
(* variable is of its type.  (setupProject, removeSetupSecrets,            *)
(* installSonarSecrets.)                                                   *)
THEOREM SecretsAlwaysBelong == Spec => []SecretsBelong
<1>1. ASSUME TypeOK, IInv PROVE SecretsBelong
  <2>1. CredentialsHaveAnOwner
    <3>1. ASSUME Quiet, "kept" \notin mishap, NEW s \in Own PROVE secret[s] \in project \cup {NoOne}
      <4>1. secret[s] \in Requests \cup {NoOne}
        BY <1>1 DEF TypeOK, Secrets
      <4>2. secret[s] \in Requests => ~At(secret[s], "untoken") /\ ~At(secret[s], "unurl")
        BY <3>1 DEF Quiet, At, Ends
      <4> QED
        BY <1>1, <3>1, <4>1, <4>2 DEF IInv, Owned
    <3> QED
      BY <3>1 DEF CredentialsHaveAnOwner
  <2>2. SonarIsWhole
    <3>1. Quiet => \A r \in Requests : ~Writing(r)
      BY DEF Quiet, Writing, Sonar, Ends
    <3> QED
      BY <1>1, <3>1 DEF SonarIsWhole, IInv, SonarInv, Ours, Sonar
  <2> QED
    BY <1>1, <2>1, <2>2 DEF SecretsBelong
<1> QED
  BY <1>1, Inductive, PTL

(* A direct set-up that succeeded has its token and all of its files in    *)
(* the repository, unless another one came across it; and a pull request   *)
(* has the file of the set-up that opened it.  (setActionsSecretStrict,    *)
(* pushWorkflowFile, setupPullRequest.)                                    *)
THEOREM FinishedStaysWhole == Spec => []FinishedIsWhole
<1>1. ASSUME TypeOK, IInv PROVE FinishedIsWhole
  <2>1. DoneIsConnected
    <3>1. ASSUME NEW r \in project, At(r, "done"), r \notin crossed
          PROVE  secret["ALPHACI_TOKEN"] = r /\ \A f \in Files : default[f] = r
      <4>1. r \in Requests /\ Connected(r)
        BY <1>1 DEF TypeOK, IInv
      <4> QED
        BY <3>1, <4>1 DEF Connected, PastToken, At
    <3> QED
      BY <3>1 DEF DoneIsConnected
  <2>2. PullRequestIsWhole
    BY <1>1 DEF IInv, TopicInv, PullRequestIsWhole
  <2> QED
    BY <2>1, <2>2 DEF FinishedIsWhole
<1> QED
  BY <1>1, Inductive, PTL

(* The owner's SonarCloud is written over, and a file is refused, only as  *)
(* the set-up or the discovery before it could not know.                   *)
(* (installSonarSecrets, preflight.)                                       *)
THEOREM AlwaysAsTold == Spec => []AsTold
<1>1. TypeOK /\ IInv => AsTold
  BY DEF IInv, Told, AsTold
<1> QED
  BY <1>1, Inductive, PTL
====
