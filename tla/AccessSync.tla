---- MODULE AccessSync ----
(***************************************************************************)
(* Repository-access synchronisation: a lead assigns a developer to a      *)
(* repository, or takes the assignment away; the request is recorded in    *)
(* hierarchy.repository_assignments and a job is left in outbox_events; a  *)
(* polling worker takes jobs in batches under row locks and makes the      *)
(* repository's GitHub team agree, one awaited call at a time.             *)
(*                                                                         *)
(* Every await in the code is a step boundary here, because requests, other*)
(* polls and the forwarding cron run in between.  Row locks and the        *)
(* uncommitted status updates of a poll's transaction are part of the rows *)
(* (owner, mark); everything processJob writes goes through other pool     *)
(* connections and is visible at once, whatever becomes of the poll.       *)
(***************************************************************************)
EXTENDS Integers, FiniteSets

CONSTANTS
  Assignments,      \* the (repository, developer) pairs
  Resolvable,       \* those whose repository has a full name and whose user exists
  OrgMembers,       \* those whose developer is known to belong to the organisation
  Managers,         \* concurrent requests of leads
  Pollers,          \* concurrent invocations of poll()
  NoOne,            \* the owner of an unlocked outbox row
  MaxRetries,       \* MAX_SYNC_RETRIES_DEFAULT
  BatchSize,        \* BATCH_SIZE
  OverlappingPolls, \* may a poll start while another is still running?
  HasProcessedAt,   \* does outbox_events have the column poll() writes?
  CronRuns,         \* is scripts/process-outbox.ts scheduled on this database?
  Faults,           \* the kinds of fault that can happen
  MaxJobs,          \* bound: outbox rows ever inserted
  Budget            \* bound: how many requests, faults and outside changes happen

FaultKinds == {"github", "database", "crash"}
Expenses == {"request", "fault", "outside"}

ASSUME AccessAssumption ==
  /\ Assignments # {} /\ Resolvable \subseteq Assignments
  /\ OrgMembers \subseteq Assignments
  /\ NoOne \notin Pollers
  /\ MaxRetries \in Nat /\ BatchSize \in Nat \ {0} /\ MaxJobs \in Nat \ {0}
  /\ OverlappingPolls \in BOOLEAN /\ HasProcessedAt \in BOOLEAN /\ CronRuns \in BOOLEAN
  /\ Faults \subseteq FaultKinds /\ Budget \in [Expenses -> Nat]

VARIABLES
  asg,     \* [Assignments -> [desired, effective, status]]: repository_assignments
  sync,    \* [Assignments -> [state, retry, slug]]: github_access_sync
  team,    \* [Assignments -> Memberships]: membership of the repository's team at GitHub
  outside, \* [Assignments -> SUBSET Routes]: access GitHub grants by other routes
  outbox,  \* [JobIds -> Row]: outbox_events in insertion order
  rows,    \* how many outbox rows have been inserted
  mgr,     \* [Managers -> [pc, asg]]: a lead's request between two awaits
  poll,    \* [Pollers -> [pc, job, slug, actor, caught]]: a poll() between two awaits
  cron,    \* the ids the forwarding cron has read and not yet marked
  left     \* [Expenses -> Nat]: what remains of the Budget

tables == <<asg, sync>>
github == <<team, outside>>
queue == <<outbox, rows>>
vars == <<asg, sync, team, outside, outbox, rows, mgr, poll, cron, left>>

-----------------------------------------------------------------------------
(* Types.                                                                  *)

JobIds == 1..MaxJobs
Kinds == {"grant", "revoke"}
Routes == {"direct", "inherited"}
Memberships == {"out", "invited", "in"}

Assignment == [desired : {"none", "assigned", "unassigned"},
               effective : {"none", "pending", "active", "revoking", "revoked", "failed"},
               status : {"none", "pending", "active", "revoked", "failed"}]
SyncRow == [state : {"none", "pending", "syncing", "verified", "failed"},
            retry : Nat, slug : BOOLEAN]
Row == [kind : Kinds, asg : Assignments,
        status : {"unused", "pending", "published", "failed"},
        owner : Pollers \cup {NoOne}, mark : {"none", "published", "failed"}]

Request == [pc : {"idle", "upsert", "publishGrant", "publishRevoke"}, asg : Assignments]
JobPcs == {"read", "syncing", "team", "change", "verify", "mark", "marksync",
           "fail", "failsync", "requeue", "ack", "nack"}
Poll == [pc : {"idle", "take"} \cup JobPcs, job : JobIds, slug : BOOLEAN,
         actor : BOOLEAN, caught : BOOLEAN]

TypeOK ==
  /\ asg \in [Assignments -> Assignment]
  /\ sync \in [Assignments -> SyncRow]
  /\ team \in [Assignments -> Memberships]
  /\ outside \in [Assignments -> SUBSET Routes]
  /\ outbox \in [JobIds -> Row]
  /\ rows \in 0..MaxJobs
  /\ mgr \in [Managers -> Request]
  /\ poll \in [Pollers -> Poll]
  /\ cron \in SUBSET JobIds
  /\ left \in [Expenses -> Nat]

Anyone == CHOOSE a \in Assignments : TRUE
Resting == [pc |-> "idle", job |-> 1, slug |-> FALSE, actor |-> FALSE, caught |-> TRUE]

Init ==
  /\ asg = [a \in Assignments |-> [desired |-> "none", effective |-> "none", status |-> "none"]]
  /\ sync = [a \in Assignments |-> [state |-> "none", retry |-> 0, slug |-> FALSE]]
  /\ team = [a \in Assignments |-> "out"]
  /\ outside = [a \in Assignments |-> {}]
  /\ outbox = [i \in JobIds |-> [kind |-> "grant", asg |-> Anyone, status |-> "unused",
                                 owner |-> NoOne, mark |-> "none"]]
  /\ rows = 0
  /\ mgr = [m \in Managers |-> [pc |-> "idle", asg |-> Anyone]]
  /\ poll = [p \in Pollers |-> Resting]
  /\ cron = {}
  /\ left = Budget

Spend(e) == left[e] > 0 /\ left' = [left EXCEPT ![e] = @ - 1]
Suffer(kind) == kind \in Faults /\ Spend("fault")

-----------------------------------------------------------------------------
(* The outbox.                                                             *)

HasRoom == rows < MaxJobs

\* publishLater: one INSERT in a statement of its own, not in the transaction
\* that changed the assignment.
PublishLater(kind, a) ==
  /\ HasRoom
  /\ rows' = rows + 1
  /\ outbox' = [outbox EXCEPT ![rows + 1] =
       [kind |-> kind, asg |-> a, status |-> "pending", owner |-> NoOne, mark |-> "none"]]

Takeable == {i \in JobIds : outbox[i].status = "pending" /\ outbox[i].owner = NoOne}

\* The first BatchSize takeable rows by created_at.
NextBatch == {i \in Takeable : Cardinality({j \in Takeable : j < i}) < BatchSize}

-----------------------------------------------------------------------------
(* Requests of leads.                                                      *)

MgrAt(m, pc) == mgr[m].pc = pc
MgrGoto(m, pc) == mgr' = [mgr EXCEPT ![m].pc = pc]

Accept(m, a, pc) ==
  /\ MgrAt(m, "idle")
  /\ Spend("request")
  /\ mgr' = [mgr EXCEPT ![m] = [pc |-> pc, asg |-> a]]

\* createAssignment up to createOrReset: the row starts over, even if a revoke
\* of it is still under way.
CreateAssignment(m, a) ==
  /\ Accept(m, a, "upsert")
  /\ asg' = [asg EXCEPT ![a] =
       [desired |-> "assigned", effective |-> "pending", status |-> "pending"]]
  /\ UNCHANGED <<sync, github, queue, poll, cron>>

\* requestGrant's upsertPending: retry_count and the team slug survive.
UpsertPending(m) ==
  /\ MgrAt(m, "upsert")
  /\ sync' = [sync EXCEPT ![mgr[m].asg].state = "pending"]
  /\ MgrGoto(m, "publishGrant")
  /\ UNCHANGED <<asg, github, queue, poll, cron, left>>

\* removeAssignment up to setDesiredUnassigned.
RemoveAssignment(m, a) ==
  /\ asg[a].desired # "none"
  /\ Accept(m, a, "publishRevoke")
  /\ asg' = [asg EXCEPT ![a].desired = "unassigned", ![a].effective = "revoking"]
  /\ UNCHANGED <<sync, github, queue, poll, cron>>

\* requestReconcile up to its choice of topic.
Reconcile(m, a) ==
  /\ asg[a].desired # "none"
  /\ Accept(m, a, IF asg[a].desired = "assigned" THEN "publishGrant" ELSE "publishRevoke")
  /\ UNCHANGED <<tables, github, queue, poll, cron>>

PublishRequest(m) ==
  /\ \/ MgrAt(m, "publishGrant") /\ PublishLater("grant", mgr[m].asg)
     \/ MgrAt(m, "publishRevoke") /\ PublishLater("revoke", mgr[m].asg)
  /\ MgrGoto(m, "idle")
  /\ UNCHANGED <<tables, github, poll, cron, left>>

\* A failed upsertPending ends the request with an error; a failed INSERT is
\* swallowed by publishLater.  Either way the assignment keeps its new desired
\* state and no job is left.  A process that dies here has the same effect.
RequestCutShort(m) ==
  /\ ~MgrAt(m, "idle")
  /\ Suffer("database")
  /\ MgrGoto(m, "idle")
  /\ UNCHANGED <<tables, github, queue, poll, cron>>

-----------------------------------------------------------------------------
(* A poll's transaction over the outbox.                                   *)

At(p, pc) == poll[p].pc = pc
Goto(p, pc) == poll' = [poll EXCEPT ![p].pc = pc]
Job(p) == outbox[poll[p].job]
Target(p) == Job(p).asg
Held(p) == {i \in JobIds : outbox[i].owner = p}
Unprocessed(p) == {i \in Held(p) : outbox[i].mark = "none"}

\* BEGIN and the SELECT ... FOR UPDATE SKIP LOCKED.  setInterval does not wait
\* for the previous poll, so nothing in the code makes polls take turns.  A
\* poll that finds nothing to do commits an empty transaction and is left out.
StartPoll(p) ==
  /\ At(p, "idle")
  /\ OverlappingPolls \/ \A q \in Pollers : At(q, "idle")
  /\ NextBatch # {}
  /\ outbox' = [i \in JobIds |-> IF i \in NextBatch THEN [outbox[i] EXCEPT !.owner = p]
                                                    ELSE outbox[i]]
  /\ Goto(p, "take")
  /\ UNCHANGED <<tables, github, rows, mgr, cron, left>>

\* The loop's next row, in created_at order.
TakeJob(p) ==
  /\ At(p, "take")
  /\ \E i \in Unprocessed(p) :
       /\ \A j \in Unprocessed(p) : i <= j
       /\ poll' = [poll EXCEPT ![p] = [Resting EXCEPT !.pc = "read", !.job = i]]
  /\ UNCHANGED <<tables, github, queue, mgr, cron, left>>

\* UPDATE ... SET status, processed_at inside the transaction.
MarkRow(p, status) ==
  /\ outbox' = [outbox EXCEPT ![poll[p].job].mark = status]
  /\ Goto(p, "take")

Rollback(p) ==
  /\ outbox' = [i \in JobIds |->
       IF outbox[i].owner = p THEN [outbox[i] EXCEPT !.owner = NoOne, !.mark = "none"]
                              ELSE outbox[i]]
  /\ poll' = [poll EXCEPT ![p] = Resting]

\* processJob returned: the row becomes published.  Without the column the
\* UPDATE fails, the UPDATE in the catch block fails on the aborted
\* transaction, and the outer catch rolls everything back.
Acknowledge(p) ==
  /\ At(p, "ack")
  /\ IF HasProcessedAt THEN MarkRow(p, "published") ELSE Rollback(p)
  /\ UNCHANGED <<tables, github, rows, mgr, cron, left>>

\* processJob threw: the row becomes failed, and nothing takes it again.
MarkJobFailed(p) ==
  /\ At(p, "nack")
  /\ IF HasProcessedAt THEN MarkRow(p, "failed") ELSE Rollback(p)
  /\ UNCHANGED <<tables, github, rows, mgr, cron, left>>

\* Mutant of Commit: the loop is left before its last row.
CommitEarly(p) ==
  /\ At(p, "take")
  /\ outbox' = [i \in JobIds |->
       IF outbox[i].owner = p
       THEN [outbox[i] EXCEPT !.status = outbox[i].mark, !.owner = NoOne, !.mark = "none"]
       ELSE outbox[i]]
  /\ poll' = [poll EXCEPT ![p] = Resting]
  /\ UNCHANGED <<tables, github, rows, mgr, cron, left>>

Commit(p) ==
  /\ At(p, "take") /\ Unprocessed(p) = {}
  /\ outbox' = [i \in JobIds |->
       IF outbox[i].owner = p
       THEN [outbox[i] EXCEPT !.status = outbox[i].mark, !.owner = NoOne, !.mark = "none"]
       ELSE outbox[i]]
  /\ poll' = [poll EXCEPT ![p] = Resting]
  /\ UNCHANGED <<tables, github, rows, mgr, cron, left>>

\* The process stops, or the transaction's own connection is lost: the locks
\* and the uncommitted marks go, what processJob wrote stays.
CrashPoll(p) ==
  /\ ~At(p, "idle")
  /\ Suffer("crash")
  /\ Rollback(p)
  /\ UNCHANGED <<tables, github, rows, mgr, cron>>

-----------------------------------------------------------------------------
(* processJob: processGrant and processRevoke, await by await.             *)

Granting(p) == Job(p).kind = "grant"
Wanted(p) == IF Granting(p) THEN "assigned" ELSE "unassigned"

\* Mutant of ReadAssignment: superseded jobs are not dropped.
ReadAssignmentUnchecked(p) ==
  /\ At(p, "read")
  /\ poll' = [poll EXCEPT ![p].pc = "syncing", ![p].actor = TRUE]
  /\ UNCHANGED <<tables, github, queue, mgr, cron, left>>

\* The reads at the top.  A job that a later request supersedes is dropped here,
\* and only here; a revoke also learns whether the team slug is on record.
ReadAssignment(p) ==
  /\ At(p, "read")
  /\ LET a == Target(p) IN
     \/ /\ asg[a].desired # Wanted(p)
        /\ Goto(p, "ack")
     \/ /\ asg[a].desired = Wanted(p) /\ a \notin Resolvable
        /\ poll' = [poll EXCEPT ![p].pc = "fail", ![p].actor = FALSE]
     \/ /\ asg[a].desired = Wanted(p) /\ a \in Resolvable
        /\ poll' = [poll EXCEPT ![p].pc = "syncing", ![p].actor = TRUE,
                                ![p].slug = ~Granting(p) /\ sync[a].slug]
  /\ UNCHANGED <<tables, github, queue, mgr, cron, left>>

\* Updates of a github_access_sync row that may not exist.
SetSync(a, state) ==
  sync' = [sync EXCEPT ![a].state = IF @ = "none" THEN "none" ELSE state]

MarkSyncing(p) ==
  /\ At(p, "syncing")
  /\ SetSync(Target(p), "syncing")
  /\ Goto(p, IF poll[p].slug THEN "change" ELSE "team")
  /\ UNCHANGED <<asg, github, queue, mgr, cron, left>>

\* The team is created or found and given push permission: nothing a single
\* developer's access depends on changes.
EnsureTeam(p) ==
  /\ At(p, "team")
  /\ Goto(p, "change")
  /\ UNCHANGED <<tables, github, queue, mgr, cron, left>>

\* PUT .../memberships: a member of the organisation is in at once, anyone else
\* is invited.  OrgMembers never need an invitation; others may have joined since.
AddMember(p) ==
  /\ At(p, "change") /\ Granting(p)
  /\ \E m \in {"invited", "in"} :
       /\ m = "invited" => Target(p) \notin OrgMembers /\ team[Target(p)] # "in"
       /\ team' = [team EXCEPT ![Target(p)] = m]
  /\ UNCHANGED outside

\* DELETE .../memberships also withdraws an invitation; a direct collaborator
\* grant goes, another team's grant does not.
RemoveMember(p) ==
  /\ At(p, "change") /\ ~Granting(p)
  /\ team' = [team EXCEPT ![Target(p)] = "out"]
  /\ outside' = [outside EXCEPT ![Target(p)] = @ \ {"direct"}]

ChangeMembership(p) ==
  /\ AddMember(p) \/ RemoveMember(p)
  /\ Goto(p, "verify")
  /\ UNCHANGED <<tables, queue, mgr, cron, left>>

\* The call took effect and its answer was lost, or its second half failed.
ChangeUnanswered(p) ==
  /\ Suffer("github")
  /\ \/ AddMember(p) \/ RemoveMember(p)
     \/ /\ At(p, "change") /\ ~Granting(p)
        /\ team' = [team EXCEPT ![Target(p)] = "out"]
        /\ UNCHANGED outside
  /\ Goto(p, "fail")
  /\ UNCHANGED <<tables, queue, mgr, cron>>

\* verifyEffectivePermission: an invitation is no access, and is not seen.
HasAccess(a) == team[a] = "in" \/ outside[a] # {}
HasUnapprovedGrant(a) == outside[a] # {}

\* Mutant of Confirms: a grant is believed if nothing unapproved is found.
ConfirmsUnseen(p) ==
  IF Granting(p) THEN ~HasUnapprovedGrant(Target(p)) ELSE ~HasAccess(Target(p))

Confirms(p) ==
  LET a == Target(p) IN
  IF Granting(p) THEN HasAccess(a) /\ ~HasUnapprovedGrant(a) ELSE ~HasAccess(a)

\* The branch on its answer.  A refusal calls failGrant or failRevoke inside the
\* try block, so what goes wrong in there is caught, and the call made again.
VerifyPermission(p) ==
  /\ At(p, "verify")
  /\ \/ Confirms(p) /\ Goto(p, "mark")
     \/ ~Confirms(p) /\ poll' = [poll EXCEPT ![p].pc = "fail", ![p].caught = FALSE]
  /\ UNCHANGED <<tables, github, queue, mgr, cron, left>>

\* markGrantVerified / markRevokeVerified: whatever the row says by now.
MarkVerifiedAssignment(p) ==
  /\ At(p, "mark")
  /\ LET claim == IF Granting(p) THEN "active" ELSE "revoked"
     IN  asg' = [asg EXCEPT ![Target(p)].effective = claim, ![Target(p)].status = claim]
  /\ Goto(p, "marksync")
  /\ UNCHANGED <<sync, github, queue, mgr, cron, left>>

\* GithubAccessSyncRepository.markVerified; retry_count is not reset.
MarkVerifiedSync(p) ==
  /\ At(p, "marksync")
  /\ LET a == Target(p)
     IN  sync' = IF sync[a].state = "none" THEN sync
                 ELSE [sync EXCEPT ![a].state = "verified", ![a].slug = TRUE]
  /\ Goto(p, "ack")
  /\ UNCHANGED <<asg, github, queue, mgr, cron, left>>

\* failGrant's markGrantFailed; failRevoke leaves the assignment as it is.
FailAssignment(p) ==
  /\ At(p, "fail")
  /\ asg' = IF Granting(p)
            THEN [asg EXCEPT ![Target(p)].effective = "failed", ![Target(p)].status = "failed"]
            ELSE asg
  /\ Goto(p, "failsync")
  /\ UNCHANGED <<sync, github, queue, mgr, cron, left>>

\* markFailed, and maybeRequeue's decision: the count is the row's, over its
\* whole life, and 0 when there is no row.
RetryCount(a) == IF sync[a].state = "none" THEN 0 ELSE sync[a].retry + 1

\* Mutant of FailSync: a job given up leaves its sync row as it was.
FailSyncQuietly(p) ==
  /\ At(p, "failsync")
  /\ LET a == Target(p)
         again == RetryCount(a) < MaxRetries /\ poll[p].actor
     IN
     /\ sync' = IF sync[a].state = "none" \/ ~again THEN sync
                ELSE [sync EXCEPT ![a].state = "failed", ![a].retry = @ + 1]
     /\ Goto(p, IF again THEN "requeue" ELSE "ack")
  /\ UNCHANGED <<asg, github, queue, mgr, cron, left>>

FailSync(p) ==
  /\ At(p, "failsync")
  /\ LET a == Target(p) IN
     /\ sync' = IF sync[a].state = "none" THEN sync
                ELSE [sync EXCEPT ![a].state = "failed", ![a].retry = @ + 1]
     /\ Goto(p, IF RetryCount(a) < MaxRetries /\ poll[p].actor THEN "requeue" ELSE "ack")
  /\ UNCHANGED <<asg, github, queue, mgr, cron, left>>

\* Mutant of Requeue: whatever failed is put back as a grant.
RequeueAsGrant(p) ==
  /\ At(p, "requeue")
  /\ PublishLater("grant", Target(p))
  /\ Goto(p, "ack")
  /\ UNCHANGED <<tables, github, mgr, cron, left>>

Requeue(p) ==
  /\ At(p, "requeue")
  /\ PublishLater(Job(p).kind, Target(p))
  /\ Goto(p, "ack")
  /\ UNCHANGED <<tables, github, mgr, cron, left>>

\* A GitHub call fails without effect, or there is no installation token.
GithubFault(p) ==
  /\ poll[p].pc \in {"team", "change", "verify"}
  /\ Suffer("github")
  /\ Goto(p, "fail")
  /\ UNCHANGED <<tables, github, queue, mgr, cron>>

\* A statement on another pool connection fails.  Inside the try block that
\* fails the job; before it, and in a failure path outside it, the exception
\* reaches poll(); the requeue's INSERT is swallowed by publishLater.
DatabaseFault(p) ==
  /\ \/ At(p, "read") /\ Goto(p, "nack")
     \/ poll[p].pc \in {"syncing", "mark", "marksync"} /\ Goto(p, "fail")
     \/ poll[p].pc \in {"fail", "failsync"} /\ poll[p].caught /\ Goto(p, "nack")
     \/ poll[p].pc \in {"fail", "failsync"} /\ ~poll[p].caught
        /\ poll' = [poll EXCEPT ![p].pc = "fail", ![p].caught = TRUE]
     \/ At(p, "requeue") /\ Goto(p, "ack")
  /\ Suffer("database")
  /\ UNCHANGED <<tables, github, queue, mgr, cron>>

-----------------------------------------------------------------------------
(* The forwarding cron and the world outside.                              *)

\* process-outbox.ts selects every pending row, whatever its topic.  There is no
\* BEGIN, so its row locks end with the SELECT.
CronSelect ==
  /\ CronRuns /\ cron = {}
  /\ Takeable # {}
  /\ cron' = Takeable
  /\ UNCHANGED <<tables, github, queue, mgr, poll, left>>

\* Its UPDATE waits for a poll that holds the row, then overwrites.
CronForward(i) ==
  /\ i \in cron /\ \A j \in cron : i <= j
  /\ outbox[i].owner = NoOne
  /\ outbox' = [outbox EXCEPT ![i].status = "published"]
  /\ cron' = cron \ {i}
  /\ UNCHANGED <<tables, github, rows, mgr, poll, left>>

\* A failed send ends the run; the rest stays as it was.
CronStops ==
  /\ cron # {}
  /\ Suffer("crash")
  /\ cron' = {}
  /\ UNCHANGED <<tables, github, queue, mgr, poll>>

\* An organisation admin grants or withdraws access by another route.
OutsideChange(a, route) ==
  /\ Spend("outside")
  /\ outside' = [outside EXCEPT ![a] = IF route \in @ THEN @ \ {route} ELSE @ \cup {route}]
  /\ UNCHANGED <<tables, team, queue, mgr, poll, cron>>

\* The developer accepts the invitation, or declines it or lets it expire.
AnswerInvitation(a) ==
  /\ team[a] = "invited"
  /\ \E m \in {"in", "out"} : team' = [team EXCEPT ![a] = m]
  /\ UNCHANGED <<tables, outside, queue, mgr, poll, cron, left>>

-----------------------------------------------------------------------------
ManagerStep(m) ==
  \/ \E a \in Assignments : CreateAssignment(m, a) \/ RemoveAssignment(m, a) \/ Reconcile(m, a)
  \/ UpsertPending(m) \/ PublishRequest(m) \/ RequestCutShort(m)

JobStep(p) ==
  \/ ReadAssignment(p) \/ MarkSyncing(p) \/ EnsureTeam(p) \/ ChangeMembership(p)
  \/ VerifyPermission(p) \/ MarkVerifiedAssignment(p) \/ MarkVerifiedSync(p)
  \/ FailAssignment(p) \/ FailSync(p) \/ Requeue(p)

PollStep(p) == StartPoll(p) \/ TakeJob(p) \/ Acknowledge(p) \/ MarkJobFailed(p) \/ Commit(p)

FaultStep(p) == CrashPoll(p) \/ ChangeUnanswered(p) \/ GithubFault(p) \/ DatabaseFault(p)

CronStep == CronSelect \/ CronStops \/ \E i \in JobIds : CronForward(i)

Next ==
  \/ \E m \in Managers : ManagerStep(m)
  \/ \E p \in Pollers : JobStep(p) \/ PollStep(p) \/ FaultStep(p)
  \/ CronStep
  \/ \E a \in Assignments : AnswerInvitation(a) \/ \E route \in Routes : OutsideChange(a, route)

Spec == Init /\ [][Next]_vars

\* A request handler and a started poll run on: every await ends, in an answer
\* or in an error (the pool's 10 s timeouts, fetch's own).  The interval timer
\* keeps starting polls.  Requests, faults and the cron are under no fairness.
Fairness ==
  /\ \A m \in Managers : WF_vars(UpsertPending(m) \/ PublishRequest(m))
  /\ \A p \in Pollers : WF_vars(JobStep(p) \/ PollStep(p))

FairSpec == Spec /\ Fairness

-----------------------------------------------------------------------------
(* Properties.                                                             *)

Gone(a) == asg[a].desired = "unassigned" /\ asg[a].effective = "revoked"
Live(a) == asg[a].desired = "assigned" /\ asg[a].effective = "active"

\* The console's two standing claims are true: an assignment nobody wants that is
\* shown revoked has neither membership of the repository's team nor a standing
\* invitation to it, and a wanted one that is shown active has the membership.
\* (github-sync.service.ts: "never claim revoked before verified"; the test "never
\* active before verification".)
ClaimsAreTrue ==
  \A a \in Assignments :
    /\ Gone(a) => team[a] = "out"
    /\ Live(a) => team[a] = "in"

\* What the job in flight may rely on between its awaits, when polls take turns:
\* what it read at the start is not overtaken in a way that would make its next
\* step break a claim.  (processGrant and processRevoke test desired_state once.)
Approaching == {"syncing", "team", "change"}

JobInFlight ==
  /\ \A p, q \in Pollers : ~At(p, "idle") /\ ~At(q, "idle") => p = q
  /\ \A p \in Pollers :
       /\ poll[p].pc \in Approaching /\ Granting(p) => ~Gone(Target(p))
       /\ poll[p].pc \in Approaching /\ ~Granting(p) => ~Live(Target(p))
       /\ At(p, "mark") /\ Granting(p) => team[Target(p)] = "in"
       /\ poll[p].pc \in {"verify", "mark"} /\ ~Granting(p) => team[Target(p)] = "out"

\* What keeps a job's row its own: the poll that runs a job holds its lock, and
\* rows not inserted yet are nobody's.  (poll's FOR UPDATE SKIP LOCKED.)
HeldRows ==
  /\ \A i \in JobIds : i > rows => outbox[i].status = "unused" /\ outbox[i].owner = NoOne
  /\ \A i \in cron : i <= rows
  /\ \A p \in Pollers : poll[p].pc \in JobPcs => Job(p).owner = p

\* A developer who should no longer have access, and has it through the team, is
\* never forgotten: a revoke job waits or is being published, or the row is
\* flagged failed, which listAccessStatusForRepository shows as high priority.
\* (failRevoke: "remain visible to administrators".)
RevokeRequestUnderWay(a) == \E m \in Managers : mgr[m].asg = a /\ mgr[m].pc = "publishRevoke"
RevokeJobPending(a) ==
  \E i \in JobIds : outbox[i].kind = "revoke" /\ outbox[i].asg = a /\ outbox[i].status = "pending"

NoForgottenAccess ==
  \A a \in Assignments :
    asg[a].desired = "unassigned" /\ team[a] # "out"
      => RevokeRequestUnderWay(a) \/ RevokeJobPending(a) \/ sync[a].state = "failed"

\* A wish of the lead's is carried out, unless the lead changes it first, or the
\* job has failed so often that it was given up, and the row says so.
\* (AssignmentsService.createAssignment, removeAssignment; hierarchy.types:
\* pending becomes active, revoking becomes revoked; maybeRequeue.)
GivenUp(a) == sync[a].state = "failed" /\ sync[a].retry >= MaxRetries

WishesConverge ==
  \A a \in Resolvable :
    /\ asg[a].desired = "unassigned"
         ~> \/ asg[a].desired # "unassigned" \/ GivenUp(a)
            \/ asg[a].effective = "revoked" /\ team[a] = "out"
    /\ asg[a].desired = "assigned"
         ~> \/ asg[a].desired # "assigned" \/ GivenUp(a)
            \/ asg[a].effective = "active" /\ team[a] = "in"

\* The promise, seen through the tables and GitHub's team.
Promise == INSTANCE AccessPromise WITH
  wanted <- [a \in Assignments |-> asg[a].desired],
  claim <- [a \in Assignments |-> asg[a].effective],
  access <- team

KeepsPromise == Promise!PromiseSpec
====
