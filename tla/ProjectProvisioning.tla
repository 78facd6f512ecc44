---- MODULE ProjectProvisioning ----
(***************************************************************************)
(* Projects and the GitHub repositories they stand for.  Creating a        *)
(* project is a saga: a repository, a row, a CI token, the token as an     *)
(* Actions secret, the workflow files, the branches; a step that fails     *)
(* undoes the ones before it.  Setting up a repository that exists is the  *)
(* same without the repository.  Rows are deleted by their users, by the   *)
(* webhook that reports a repository deleted, and by the reconciliation    *)
(* script, all without a lock, and the last two by the repository's name.  *)
(*                                                                         *)
(* Every await is a step.  A request is made once; the script's run is     *)
(* repeated for ever.                                                      *)
(***************************************************************************)
EXTENDS Integers, FiniteSets

CONSTANTS
  Names,     \* full names of repositories
  OrgNames,  \* those in the enforced organisation
  Unseen,    \* those the user's own token does not see
  Starts,    \* what there is to begin with, and which requests are made then
  Requests,  \* requests of users, numbered as they come
  Cron,      \* the reconciliation script
  NoOne,     \* what is not there
  Outsider,  \* who made a repository that was not created here
  Limit,     \* the plan's limit of projects
  Faults,    \* what can go wrong
  MaxFaults  \* and how often

Creations == {"standalone", "microservices", "multi-repo"}
RequestKinds == Creations \cup {"setup", "disconnect", "delete", "sync"}
FaultKinds == {"step", "undo", "check", "crash", "webhook"}

\* A request inserts two rows at most; those of the start are numbered 0.
Project == (Requests \X {1, 2}) \cup (Names \X {0})

\* The names that have a repository, those of them that have a project, and the kinds of
\* which each request may be.
Start ==
  {s \in [there : SUBSET Names, tracked : SUBSET Names, kinds : [Requests -> SUBSET RequestKinds]] :
     s.tracked \subseteq s.there}

ASSUME ProvisioningAssumption ==
  /\ OrgNames \subseteq Names /\ Starts \subseteq Start
  /\ NoOne \notin Names \cup Requests \cup {Outsider} \cup Project
  /\ Requests \subseteq Nat /\ Cron \notin Requests /\ Outsider \notin Requests
  /\ Faults \subseteq FaultKinds
  /\ Limit \in Nat /\ MaxFaults \in Nat

Sessions == Requests \cup {Cron}

\* maker: who made the repository that has the name now; token: the project whose
\* CI token is its Actions secret; workflow: whether a workflow file was pushed.
Repository == [maker : Requests \cup {Outsider, NoOne}, token : Project \cup {NoOne}, workflow : BOOLEAN]
Absent == [maker |-> NoOne, token |-> NoOne, workflow |-> FALSE]

Row == [name : Names \cup {NoOne}, status : {"none", "provisioned", "orphaned"}, token : BOOLEAN]
NoRow == [name |-> NoOne, status |-> "none", token |-> FALSE]

VARIABLES
  repo,     \* [Names -> Repository]: GitHub
  news,     \* [Names -> Nat]: repository.deleted events not delivered yet
  row,      \* [Project -> Row]: projects.provisioned_projects, and its CI token
  session,  \* [Sessions -> Session]: a request between two awaits
  faults,   \* how many more things can go wrong
  start,    \* which of Starts it was
  renewed,  \* <<s, n>>: the repository of that name was made, by another, while s was at work
  wronged   \* names whose row an event or the script removed from under their repository

vars == <<repo, news, row, session, faults, start, renewed, wronged>>

Saga == {"repo", "row", "token", "secret", "workflow", "status", "branches", "second"}
Ends == {"done", "refused", "failed", "abandoned"}
Pcs == Saga \cup Ends \cup {"unrow", "unrepo", "unsecret", "ghdelete", "drop", "check", "reach", "idle"}

\* name, twin: the repositories of a request; part: which of them it works on;
\* known: whether it knows the id of its row; project: the one to disconnect;
\* listed, there, gone: what is left to check, and what the checks said.
Session == [at : Pcs, kind : RequestKinds, name : Names \cup {NoOne}, twin : Names \cup {NoOne},
            part : {1, 2}, known : BOOLEAN, project : Project \cup {NoOne},
            listed : SUBSET (Project \X Names), there : SUBSET Project,
            gone : SUBSET (Project \X Names)]
Resting == [at |-> "idle", kind |-> "sync", name |-> NoOne, twin |-> NoOne, part |-> 1,
            known |-> FALSE, project |-> NoOne, listed |-> {}, there |-> {}, gone |-> {}]

Exists(n) == repo[n].maker # NoOne
Tracked == {p \in Project : row[p] # NoRow}

TypeOK ==
  /\ repo \in [Names -> Repository]
  /\ news \in [Names -> Nat]
  /\ row \in [Project -> Row]
  /\ session \in [Sessions -> Session]
  /\ faults \in Nat
  /\ start \in Start /\ renewed \subseteq Sessions \X Names /\ wronged \subseteq Names

\* Some names have a repository, tracked or not; the tracked ones were created or set
\* up, and some were marked orphaned when their repository was not to be seen.
Init ==
  /\ start \in Starts
  /\ \E orphans \in SUBSET start.tracked :
    /\ repo = [n \in Names |->
         [maker |-> IF n \in start.there THEN Outsider ELSE NoOne,
          token |-> IF n \in start.tracked THEN <<n, 0>> ELSE NoOne,
          workflow |-> n \in start.tracked]]
    /\ news = [n \in Names |-> 0]
    /\ row = [p \in Project |->
         IF p \in start.tracked \X {0}
         THEN [name |-> p[1], status |-> IF p[1] \in orphans THEN "orphaned" ELSE "provisioned", token |-> TRUE]
         ELSE NoRow]
    /\ session = [r \in Sessions |-> Resting]
    /\ faults = MaxFaults
    /\ renewed = {} /\ wronged = {}

-----------------------------------------------------------------------------
(* What the steps are made of.                                             *)

At(r, pc) == session[r].at = pc
Goto(r, pc) == session' = [session EXCEPT ![r].at = pc]
End(r, outcome) == session' = [session EXCEPT ![r] =
  [Resting EXCEPT !.at = outcome, !.kind = session[r].kind, !.name = session[r].name]]
Begin(r, s) == At(r, "idle") /\ session' = [session EXCEPT ![r] = s]

Creating(r) == session[r].kind \in Creations
Target(r) == IF session[r].part = 1 THEN session[r].name ELSE session[r].twin
Id(r) == <<r, session[r].part>>

\* Something goes wrong that nothing in the system is the cause of.
Fault(kind) ==
  /\ kind \in Faults /\ faults > 0
  /\ faults' = faults - 1

\* The second repository of a multi-repo project never fails the request.
EndSaga(r, outcome) == End(r, IF session[r].part = 2 THEN "done" ELSE outcome)

\* A mistake: the workflow first, the secrets for its later runs.
WorkflowBeforeSecret(r) ==
  CASE At(r, "repo") -> "row"
    [] At(r, "row") -> "token"
    [] At(r, "token") -> "workflow"
    [] At(r, "workflow") -> "secret"
    [] At(r, "secret") -> "status"
    [] OTHER -> "done"

\* Where a step that succeeded leads.
After(r) ==
  CASE At(r, "repo") -> "row"
    [] At(r, "row") -> "token"
    [] At(r, "token") -> "secret"
    [] At(r, "secret") -> "workflow"
    [] At(r, "workflow") -> "status"
    [] At(r, "status") -> IF Creating(r) THEN "branches" ELSE "done"
    [] OTHER -> CASE session[r].kind = "microservices" /\ session[r].part = 1 -> "second"
                  [] session[r].kind = "multi-repo" /\ session[r].part = 1 -> "repo"
                  [] OTHER -> "done"

\* The branches of a multi-repo project's first repository done, its second is next.
Continue(r) ==
  IF After(r) = "done" THEN End(r, "done")
  ELSE session' = [session EXCEPT
         ![r].at = After(r),
         ![r].part = IF At(r, "branches") /\ After(r) = "repo" THEN 2 ELSE @,
         ![r].known = At(r, "row") \/ (@ /\ ~At(r, "branches"))]

\* A mistake: no row, nothing to undo.
UndoKnown(r) == IF session[r].known THEN "unrow" ELSE "failed"

\* Where a step that failed leads: a row that is known is undone first, and a
\* repository only if it was created here.
Undo(r) ==
  IF session[r].known THEN "unrow" ELSE IF Creating(r) THEN "unrepo" ELSE "failed"

GiveUp(r) == IF Undo(r) = "failed" THEN End(r, "failed") ELSE Goto(r, Undo(r))

\* What a step did is done; whether its answer arrives is another matter.
Answered(r) ==
  \/ Continue(r) /\ UNCHANGED faults
  \/ Fault("step") /\ GiveUp(r)

Insert(p, n) == row' = [row EXCEPT ![p] = [name |-> n, status |-> "provisioned", token |-> FALSE]]
Delete(ps) == row' = [p \in Project |-> IF p \in ps THEN NoRow ELSE row[p]]
Named(n) == {p \in Tracked : row[p].name = n}

\* GitHub announces what was deleted.
DeleteRepo(n) ==
  /\ Exists(n)
  /\ repo' = [repo EXCEPT ![n] = Absent]
  /\ news' = [news EXCEPT ![n] = @ + 1]

-----------------------------------------------------------------------------
(* POST /projects and POST /projects/setup.                                *)

\* Under the limit as it is now: the rows this request will add are counted as one.
WithinLimit == Cardinality(Tracked) + 1 <= Limit

CreateProject(r) ==
  \E kind \in start.kinds[r] \cap Creations, name \in OrgNames, twin \in OrgNames \cup {NoOne} :
    /\ kind = "multi-repo" <=> twin # NoOne
    /\ name # twin
    /\ WithinLimit
    /\ Begin(r, [Resting EXCEPT !.at = "repo", !.kind = kind, !.name = name, !.twin = twin])
    /\ UNCHANGED <<repo, news, row, faults>>

\* A repository to set up is picked among those there are, and never looked for again.
SetupProject(r) ==
  \E name \in OrgNames :
    /\ "setup" \in start.kinds[r]
    /\ Exists(name)
    /\ Begin(r, [Resting EXCEPT !.at = "row", !.kind = "setup", !.name = name])
    /\ UNCHANGED <<repo, news, row, faults>>

\* An answer that is lost leaves a repository that nobody undoes.
CreateRepo(r) ==
  LET n == Target(r)
  IN /\ At(r, "repo")
     /\ ~Exists(n)
     /\ repo' = [repo EXCEPT ![n] = [Absent EXCEPT !.maker = r]]
     /\ \/ Continue(r) /\ UNCHANGED faults
        \/ Fault("step") /\ EndSaga(r, "refused")
     /\ UNCHANGED <<news, row>>

\* A mistake: a name that is taken taken for the answer to an earlier attempt.
AdoptRepo(r) ==
  /\ At(r, "repo")
  /\ Exists(Target(r))
  /\ Continue(r)
  /\ UNCHANGED <<repo, news, row, faults>>

\* GitHub refuses a name that is taken.
CreateRepoRefused(r) ==
  /\ At(r, "repo")
  /\ Exists(Target(r)) \/ "step" \in Faults
  /\ EndSaga(r, "refused")
  /\ UNCHANGED <<repo, news, row, faults>>

\* The starter files are pushed before; a row is inserted for any name.
InsertRow(r) ==
  /\ At(r, "row")
  /\ Insert(Id(r), Target(r))
  /\ Answered(r)
  /\ UNCHANGED <<repo, news>>

\* The token's row refers to the project's.
IssueToken(r) ==
  /\ At(r, "token")
  /\ row[Id(r)] # NoRow
  /\ row' = [row EXCEPT ![Id(r)].token = TRUE]
  /\ Answered(r)
  /\ UNCHANGED <<repo, news>>

SetSecret(r) ==
  /\ At(r, "secret")
  /\ Exists(Target(r))
  /\ repo' = [repo EXCEPT ![Target(r)].token = Id(r)]
  /\ Answered(r)
  /\ UNCHANGED <<news, row>>

PushWorkflow(r) ==
  /\ At(r, "workflow")
  /\ Exists(Target(r))
  /\ repo' = [repo EXCEPT ![Target(r)].workflow = TRUE]
  /\ Answered(r)
  /\ UNCHANGED <<news, row>>

\* An UPDATE of no row is no error.
UpdateStatus(r) ==
  /\ At(r, "status")
  /\ row' = IF row[Id(r)] = NoRow THEN row ELSE [row EXCEPT ![Id(r)].status = "provisioned"]
  /\ Answered(r)
  /\ UNCHANGED <<repo, news>>

MakeBranches(r) ==
  /\ At(r, "branches")
  /\ Exists(Target(r))
  /\ Answered(r)
  /\ UNCHANGED <<repo, news, row>>

\* The row of the other half of a microservices project is best effort, and gets no
\* token.
InsertSecondRow(r) ==
  /\ At(r, "second")
  /\ \/ Insert(<<r, 2>>, session[r].name) /\ UNCHANGED faults
     \/ Fault("step") /\ UNCHANGED row
  /\ End(r, "done")
  /\ UNCHANGED <<repo, news>>

\* A step of the saga does nothing but fail: what it needs is not there, or a fault.
StepFails(r) ==
  /\ \/ /\ \/ At(r, "token") /\ row[Id(r)] = NoRow
           \/ At(r, "row") /\ Creating(r) /\ ~Exists(Target(r))
           \/ session[r].at \in {"secret", "workflow", "branches"} /\ ~Exists(Target(r))
        /\ UNCHANGED faults
     \/ /\ session[r].at \in {"row", "token", "secret", "workflow", "status", "branches"}
        /\ Fault("step")
  /\ GiveUp(r)
  /\ UNCHANGED <<repo, news, row>>

-----------------------------------------------------------------------------
(* Undoing it.                                                             *)

UndoRow(r) ==
  /\ At(r, "unrow")
  /\ \/ Delete({Id(r)}) /\ UNCHANGED faults
     \/ Fault("undo") /\ UNCHANGED row
  /\ Goto(r, IF Creating(r) THEN "unrepo" ELSE "unsecret")
  /\ UNCHANGED <<repo, news>>

\* Whatever repository has the name now.
UndoRepo(r) ==
  /\ At(r, "unrepo")
  /\ \/ DeleteRepo(Target(r)) /\ EndSaga(r, "failed") /\ UNCHANGED faults
     \/ /\ ~Exists(Target(r)) /\ EndSaga(r, "failed")
        /\ UNCHANGED <<repo, news, faults>>
     \/ Fault("undo") /\ EndSaga(r, "abandoned") /\ UNCHANGED <<repo, news>>
  /\ UNCHANGED <<row>>

\* Whosever token it is.
UndoSecret(r) ==
  /\ At(r, "unsecret")
  /\ \/ repo' = [repo EXCEPT ![Target(r)].token = NoOne] /\ UNCHANGED faults
     \/ Fault("undo") /\ UNCHANGED repo
  /\ End(r, "failed")
  /\ UNCHANGED <<news, row>>

\* The process ends, and the request with it.
Crash(r) ==
  /\ session[r].at \notin Ends \cup {"idle"}
  /\ Fault("crash")
  /\ IF r = Cron THEN session' = [session EXCEPT ![r] = Resting] ELSE End(r, "abandoned")
  /\ UNCHANGED <<repo, news, row>>

-----------------------------------------------------------------------------
(* DELETE /projects/:id, with or without the repository.                   *)

Disconnect(r) ==
  \E p \in Tracked :
    /\ "disconnect" \in start.kinds[r]
    /\ Begin(r, [Resting EXCEPT !.at = "done", !.kind = "disconnect", !.name = row[p].name, !.project = p])
    /\ Delete({p})
    /\ UNCHANGED <<repo, news, faults>>

DisconnectAndDelete(r) ==
  \E p \in Tracked :
    /\ "delete" \in start.kinds[r]
    /\ Begin(r, [Resting EXCEPT !.at = "ghdelete", !.kind = "delete", !.name = row[p].name, !.project = p])
    /\ UNCHANGED <<repo, news, row, faults>>

\* A refusal does not keep the row.
DeleteRepoForUser(r) ==
  /\ At(r, "ghdelete")
  /\ \/ DeleteRepo(session[r].name) /\ UNCHANGED faults
     \/ ~Exists(session[r].name) /\ UNCHANGED <<repo, news, faults>>
     \/ Fault("step") /\ UNCHANGED <<repo, news>>
  /\ Goto(r, "drop")
  /\ UNCHANGED <<row>>

DropRow(r) ==
  /\ At(r, "drop")
  /\ Delete({session[r].project})
  /\ End(r, "done")
  /\ UNCHANGED <<repo, news, faults>>

-----------------------------------------------------------------------------
(* POST /projects/sync, and the script.                                    *)

\* A mistake: what a synchronisation has marked orphaned is nobody's business any more.
ListedProvisioned(names) ==
  {<<p, row[p].name>> : p \in {q \in Tracked : row[q].name \in names /\ row[q].status = "provisioned"}}

Listed(names) == {<<p, row[p].name>> : p \in {q \in Tracked : row[q].name \in names}}

SyncProjects(r) ==
  /\ "sync" \in start.kinds[r]
  /\ Begin(r, [Resting EXCEPT !.at = "check", !.listed = Listed(Names)])
  /\ UNCHANGED <<repo, news, row, faults>>

\* A mistake: every tracked repository, whosever it is.
ReconcileAll ==
  /\ Begin(Cron, [Resting EXCEPT !.at = "check", !.listed = Listed(Names)])
  /\ UNCHANGED <<repo, news, row, faults>>

\* The organisation's token can vouch for its own repositories only.
Reconcile ==
  /\ Begin(Cron, [Resting EXCEPT !.at = "check", !.listed = Listed(OrgNames)])
  /\ UNCHANGED <<repo, news, row, faults>>

\* To a token that does not see it, a repository is not there.
Sees(r, n) == Exists(n) /\ IF r = Cron THEN n \in OrgNames ELSE n \notin Unseen

CheckRepo(r) ==
  \E x \in session[r].listed :
    /\ At(r, "check")
    /\ session' = [session EXCEPT ![r].listed = @ \ {x},
                                  ![r].there = IF Sees(r, x[2]) THEN @ \cup {x[1]} ELSE @,
                                  ![r].gone = IF Sees(r, x[2]) THEN @ ELSE @ \cup {x}]
    /\ UNCHANGED <<repo, news, row, faults>>

\* A mistake: any answer but a 200 counts as none.
CheckFailedIsGone(r) ==
  \E x \in session[r].listed :
    /\ At(r, "check")
    /\ Fault("check")
    /\ session' = [session EXCEPT ![r].listed = @ \ {x}, ![r].gone = @ \cup {x}]
    /\ UNCHANGED <<repo, news, row>>

\* No answer, or one that says nothing: the project is left alone.
CheckInconclusive(r) ==
  \E x \in session[r].listed :
    /\ At(r, "check")
    /\ Fault("check")
    /\ session' = [session EXCEPT ![r].listed = @ \ {x}]
    /\ UNCHANGED <<repo, news, row>>

SetStatus(ps, status) ==
  row' = [p \in Project |-> IF p \in ps \cap Tracked THEN [row[p] EXCEPT !.status = status] ELSE row[p]]

\* The two updates run side by side, on different rows.
MarkOrphaned(r) ==
  /\ r # Cron /\ At(r, "check") /\ session[r].listed = {}
  /\ SetStatus({x[1] : x \in session[r].gone}, "orphaned")
  /\ Goto(r, "reach")
  /\ UNCHANGED <<repo, news, faults>>

MarkReachable(r) ==
  /\ At(r, "reach")
  /\ SetStatus(session[r].there, "provisioned")
  /\ End(r, "done")
  /\ UNCHANGED <<repo, news, faults>>

\* Every row of the name as it is now, whoever's and however old.
DeleteByRepoFullName(n) == Delete(Named(n))

DeleteGone ==
  \E x \in session[Cron].gone :
    /\ At(Cron, "check") /\ session[Cron].listed = {}
    /\ DeleteByRepoFullName(x[2])
    /\ session' = [session EXCEPT ![Cron].gone = @ \ {x}]
    /\ UNCHANGED <<repo, news, faults>>

ReconcileEnds ==
  /\ At(Cron, "check") /\ session[Cron].listed = {} /\ session[Cron].gone = {}
  /\ session' = [session EXCEPT ![Cron] = Resting]
  /\ UNCHANGED <<repo, news, row, faults>>

-----------------------------------------------------------------------------
(* GitHub.                                                                 *)

\* A mistake: a delivery that is not claimed, and comes again.
HandleAgain(n) ==
  /\ news' = [news EXCEPT ![n] = @ - 1]
  /\ DeleteByRepoFullName(n)
  /\ UNCHANGED <<repo, session, faults>>

\* Deliveries are claimed by their id, so a repeated one does nothing.
HandleRepositoryDeleted(n) ==
  /\ news[n] > 0
  /\ news' = [news EXCEPT ![n] = @ - 1]
  /\ DeleteByRepoFullName(n)
  /\ UNCHANGED <<repo, session, faults>>

\* Not delivered, or delivered and then not carried out: nobody waits for it.
NewsLost(n) ==
  /\ news[n] > 0
  /\ news' = [news EXCEPT ![n] = @ - 1]
  /\ Fault("webhook")
  /\ UNCHANGED <<repo, row, session>>

OutsideDelete(n) ==
  /\ DeleteRepo(n)
  /\ UNCHANGED <<row, session, faults>>

-----------------------------------------------------------------------------

SagaStep(r) ==
  \/ CreateRepo(r) \/ CreateRepoRefused(r) \/ InsertRow(r) \/ IssueToken(r) \/ SetSecret(r)
  \/ PushWorkflow(r) \/ UpdateStatus(r) \/ MakeBranches(r) \/ InsertSecondRow(r) \/ StepFails(r)
  \/ UndoRow(r) \/ UndoRepo(r) \/ UndoSecret(r)

RequestStep(r) ==
  \/ SagaStep(r) \/ DeleteRepoForUser(r) \/ DropRow(r)
  \/ CheckRepo(r) \/ CheckInconclusive(r) \/ MarkOrphaned(r) \/ MarkReachable(r)

CronStep == Reconcile \/ CheckRepo(Cron) \/ CheckInconclusive(Cron) \/ DeleteGone \/ ReconcileEnds

NewRequest(r) ==
    /\ \A q \in Requests : q < r => ~At(q, "idle")
  /\ \/ CreateProject(r) \/ SetupProject(r) \/ Disconnect(r) \/ DisconnectAndDelete(r)
     \/ SyncProjects(r)

Step ==
  \/ \E r \in Requests : NewRequest(r) \/ RequestStep(r)
  \/ CronStep
  \/ \E r \in Sessions : Crash(r)
  \/ \E n \in Names : HandleRepositoryDeleted(n) \/ NewsLost(n) \/ OutsideDelete(n)

\* What the properties remember of a step: a repository that is made while a session goes
\* by what it knew of its name, ...
Made(n) == ~Exists(n) /\ Exists(n)'
Knows(s) == session[s].at \in (Saga \cup {"unrow", "unrepo", "unsecret", "check", "reach"})

\* ... and a row that nobody asked to remove and whose repository stands.
Wrongs(p) ==
  /\ row'[p] = NoRow /\ \A r \in Requests : session'[r] = session[r]
  /\ Exists(row[p].name)

Remember ==
  /\ renewed' = {x \in Sessions \X Names :
       /\ Knows(x[1])' /\ Exists(x[2])'
       /\ IF Made(x[2]) THEN repo'[x[2]].maker # x[1] ELSE x \in renewed}
  /\ wronged' = {n \in Names :
       Exists(n)' /\ (n \in wronged \/ \E p \in Tracked : Wrongs(p) /\ row[p].name = n)}

Next == Step /\ Remember /\ UNCHANGED start

\* The script is run again and again, and its awaits end.
Fairness == WF_vars(CronStep /\ Remember /\ UNCHANGED start)

Spec == Init /\ [][Next]_vars /\ Fairness

-----------------------------------------------------------------------------
(* Properties.                                                             *)

\* The webhook and the script delete a project only when its repository is gone, unless
\* they speak of an earlier repository: an event that was sent, or a pass that began, before
\* the name was given to the one that stands.  (What projects.repository.ts says of the two
\* callers of deleteByRepoFullName, and what it leaves out.)
LiveProjectsKept ==
  [][\A p \in Tracked :
       Wrongs(p) => \/ news'[row[p].name] < news[row[p].name]
                    \/ <<Cron, row[p].name>> \in renewed]_vars

\* A compensation deletes the repository its own request created, or, as
\* compensateFailedProvision deletes by name, one that was given the name after its own
\* was deleted: never one that was there before the request.
CompensationSparesOthers ==
  [][\A r \in Requests, n \in Names :
       At(r, "unrepo") /\ session'[r] # session[r] /\ Exists(n) /\ repo'[n] = Absent
         => repo[n].maker = r \/ <<r, n>> \in renewed]_vars

\* A repository's first workflow file is pushed when the token it authenticates with is
\* there, unless somebody else sets the same repository up, or this is not the repository
\* that was given the token.
FirstRunHasToken ==
  [][\A r \in Requests :
       At(r, "workflow") /\ ~repo[Target(r)].workflow /\ repo'[Target(r)].workflow
         => \/ repo[Target(r)].token # NoOne
            \/ \E q \in Requests \ {r} : session[q].kind = "setup" /\ session[q].name = Target(r)
            \/ <<r, Target(r)>> \in renewed]_vars

\* A synchronisation marks a project orphaned only if its repository is not there, or
\* is not to be seen with the user's token, or was made after it began: inconclusive
\* answers do not count.
OrphansAreGone ==
  [][\A p \in Tracked :
       row[p].status = "provisioned" /\ row'[p].status = "orphaned"
         => \/ ~Exists(row[p].name) \/ row[p].name \in Unseen
            \/ \E r \in Requests : session'[r] # session[r] /\ <<r, row[p].name>> \in renewed]_vars

\* A creation that reported success is tracked as long as its repository stands, unless
\* a user disconnected it, or word of an earlier repository of the name took its row.
DoneIsTracked ==
  \A r \in Requests :
    At(r, "done") /\ Creating(r) /\ repo[session[r].name].maker = r
      => \/ Named(session[r].name) # {}
         \/ \E q \in Requests : session[q].kind \in {"disconnect", "delete"} /\ session[q].name = session[r].name
         \/ session[r].name \in wronged

\* What a creation made is tracked, and what the console marks as orphaned is gone.
TrackingIsTrue == []DoneIsTracked /\ OrphansAreGone

\* A creation that failed, and whose compensation was not refused, leaves no repository
\* to be in the way of the next attempt.
FailedLeavesNoRepo ==
  \A r \in Requests : At(r, "failed") /\ Creating(r) => repo[session[r].name].maker # r

\* The rows of a repository that is gone go too, whatever webhooks are lost and whatever
\* requests stop half way: the script is enough.  (reconcileDeletedRepos.)
RowsConverge ==
  \A n \in OrgNames : []<>(Exists(n) \/ Named(n) = {})
====
